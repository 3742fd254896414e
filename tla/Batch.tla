-------------------------------- MODULE Batch --------------------------------
(***************************************************************************)
(* What a caller of runPool (internal/syncer/pool.go) relies on: a batch   *)
(* of functions, each run at most once and none after cancellation, and    *)
(* one report made when nothing runs any more.                             *)
(***************************************************************************)
EXTENDS Integers, FiniteSets

CONSTANT N                      \* the functions are 1..N

Fns      == 1..N
Outcomes == {"ok", "err", "ctx"}   \* ctx: a cancellation or deadline error
NoErr    == 0                      \* firstErr = nil

VARIABLES state,       \* function -> pending, running or its outcome
          cancelled,   \* ctx.Err() # nil
          report       \* << >> until runPool returns, then what it returns
bvars == <<state, cancelled, report>>

Failed(st) == {f \in Fns : st[f] \in {"err", "ctx"}}
Real(st)   == {f \in Fns : st[f] = "err"}

Init ==
  /\ state = [f \in Fns |-> "pending"]
  /\ cancelled \in BOOLEAN
  /\ report = << >>

Start(f) ==
  /\ state[f] = "pending" /\ ~cancelled
  /\ state' = [state EXCEPT ![f] = "running"]
  /\ UNCHANGED <<cancelled, report>>

Finish(f) ==
  /\ state[f] = "running"
  /\ \E o \in Outcomes : state' = [state EXCEPT ![f] = o]
  /\ UNCHANGED <<cancelled, report>>

Cancel ==
  /\ ~cancelled
  /\ cancelled' = TRUE
  /\ UNCHANGED <<state, report>>

\* The report is exact: every failure is counted, and an error is named
\* exactly when some function failed with one that is not a ctx error.
Report ==
  /\ report = << >>
  /\ \A f \in Fns : /\ state[f] # "running"
                    /\ state[f] = "pending" => cancelled
  /\ \E e \in Real(state) \cup (IF Real(state) = {} THEN {NoErr} ELSE {}) :
       report' = <<Cardinality(Failed(state)), e>>
  /\ UNCHANGED <<state, cancelled>>

Next == Cancel \/ Report \/ \E f \in Fns : Start(f) \/ Finish(f)
Spec == Init /\ [][Next]_bvars
=============================================================================
