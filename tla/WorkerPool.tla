----------------------------- MODULE WorkerPool ------------------------------
(***************************************************************************)
(* runPool (internal/syncer/pool.go): a producer hands functions over an   *)
(* unbuffered channel to worker goroutines; a context may be cancelled at  *)
(* any moment.                                                             *)
(***************************************************************************)
EXTENDS Integers, FiniteSets

CONSTANTS N,         \* len(fns)
          Workers    \* the worker goroutines; "workers < 1" becomes one

ASSUME NAssumption       == N \in Nat
ASSUME WorkersAssumption == IsFiniteSet(Workers) /\ Workers # {}

Fns   == 1..N
NoFn  == 0
NoErr == 0

VARIABLES
  ctxErr,     \* ctx.Err() # nil
  next,       \* the producer's position in fns
  producer,   \* loop, send (blocked in ch <- fn), closed (in wg.Wait), returned
  worker,     \* worker -> recv, check, run, count, record or exited
  held,       \* worker -> the function it took from the channel
  fail,       \* the atomic failure counter
  firstErr,   \* the function whose error is kept
  state       \* what became of each function: pending, running or its outcome
vars == <<ctxErr, next, producer, worker, held, fail, firstErr, state>>

Init ==
  /\ ctxErr \in BOOLEAN
  /\ next = 1
  /\ producer = "loop"
  /\ worker = [w \in Workers |-> "recv"]
  /\ held = [w \in Workers |-> NoFn]
  /\ fail = 0
  /\ firstErr = NoErr
  /\ state = [f \in Fns |-> "pending"]

-----------------------------------------------------------------------------
\* Mutant of Produce: the break skips close(ch).
ProduceWithoutClose ==
  /\ producer = "loop"
  /\ producer' = IF next > N THEN "closed" ELSE IF ctxErr THEN "waiting" ELSE "send"
  /\ UNCHANGED <<ctxErr, next, worker, held, fail, firstErr, state>>

\* for _, fn := range fns { if ctx.Err() != nil { break }; ch <- fn }; close(ch)
Produce ==
  /\ producer = "loop"
  /\ producer' = IF next > N \/ ctxErr THEN "closed" ELSE "send"
  /\ UNCHANGED <<ctxErr, next, worker, held, fail, firstErr, state>>

\* Mutant of HandOver: the workers share the loop variable.
HandOverAgain(w) ==
  /\ producer = "send" /\ worker[w] = "recv"
  /\ producer' = "loop"
  /\ next' \in {next, next + 1}
  /\ worker' = [worker EXCEPT ![w] = "check"]
  /\ held' = [held EXCEPT ![w] = next]
  /\ UNCHANGED <<ctxErr, fail, firstErr, state>>

\* The rendezvous of the producer's send with a worker's receive.
HandOver(w) ==
  /\ producer = "send" /\ worker[w] = "recv"
  /\ producer' = "loop"
  /\ next' = next + 1
  /\ worker' = [worker EXCEPT ![w] = "check"]
  /\ held' = [held EXCEPT ![w] = next]
  /\ UNCHANGED <<ctxErr, fail, firstErr, state>>

\* Mutants of Check: the context is not looked at; a worker that sees the
\* cancellation returns instead of draining the channel.
CheckNothing(w) ==
  /\ worker[w] = "check"
  /\ worker' = [worker EXCEPT ![w] = "run"]
  /\ state' = [state EXCEPT ![held[w]] = "running"]
  /\ UNCHANGED <<ctxErr, next, producer, held, fail, firstErr>>

CheckAndLeave(w) ==
  /\ worker[w] = "check"
  /\ IF ctxErr
     THEN /\ worker' = [worker EXCEPT ![w] = "exited"]
          /\ UNCHANGED state
     ELSE /\ worker' = [worker EXCEPT ![w] = "run"]
          /\ state' = [state EXCEPT ![held[w]] = "running"]
  /\ UNCHANGED <<ctxErr, next, producer, held, fail, firstErr>>

\* if ctx.Err() != nil { continue }
Check(w) ==
  /\ worker[w] = "check"
  /\ IF ctxErr
     THEN /\ worker' = [worker EXCEPT ![w] = "recv"]
          /\ UNCHANGED state
     ELSE /\ worker' = [worker EXCEPT ![w] = "run"]
          /\ state' = [state EXCEPT ![held[w]] = "running"]
  /\ UNCHANGED <<ctxErr, next, producer, held, fail, firstErr>>

\* fn(ctx) returns nil, a ctx error (a dial timeout is one too, even when
\* nothing was cancelled) or another error.
Return(w) ==
  /\ worker[w] = "run"
  /\ \E o \in {"ok", "err", "ctx"} :
       /\ state' = [state EXCEPT ![held[w]] = o]
       /\ worker' = [worker EXCEPT ![w] = IF o = "ok" THEN "recv" ELSE "count"]
  /\ UNCHANGED <<ctxErr, next, producer, held, fail, firstErr>>

\* Mutant of Count: ctx errors are skipped before they are counted.
CountReal(w) ==
  /\ worker[w] = "count"
  /\ fail' = IF state[held[w]] = "ctx" THEN fail ELSE fail + 1
  /\ worker' = [worker EXCEPT ![w] = IF state[held[w]] = "ctx" THEN "recv" ELSE "record"]
  /\ UNCHANGED <<ctxErr, next, producer, held, firstErr, state>>

\* fail.Add(1); if isCtxErr(err) { continue }
Count(w) ==
  /\ worker[w] = "count"
  /\ fail' = fail + 1
  /\ worker' = [worker EXCEPT ![w] = IF state[held[w]] = "ctx" THEN "recv" ELSE "record"]
  /\ UNCHANGED <<ctxErr, next, producer, held, firstErr, state>>

\* if firstErr == nil { firstErr = err }, under its mutex
Record(w) ==
  /\ worker[w] = "record"
  /\ firstErr' = IF firstErr = NoErr THEN held[w] ELSE firstErr
  /\ worker' = [worker EXCEPT ![w] = "recv"]
  /\ UNCHANGED <<ctxErr, next, producer, held, fail, state>>

\* The range over ch ends once it is closed: wg.Done
Exit(w) ==
  /\ worker[w] = "recv" /\ producer = "closed"
  /\ worker' = [worker EXCEPT ![w] = "exited"]
  /\ UNCHANGED <<ctxErr, next, producer, held, fail, firstErr, state>>

\* wg.Wait() returns, and so does runPool, with (fail, firstErr).
Finish ==
  /\ producer = "closed"
  /\ \A w \in Workers : worker[w] = "exited"
  /\ producer' = "returned"
  /\ UNCHANGED <<ctxErr, next, worker, held, fail, firstErr, state>>

Cancel ==
  /\ ~ctxErr
  /\ ctxErr' = TRUE
  /\ UNCHANGED <<next, producer, worker, held, fail, firstErr, state>>

Terminated == producer = "returned" /\ UNCHANGED vars

Step(w) == HandOver(w) \/ Check(w) \/ Return(w) \/ Count(w) \/ Record(w) \/ Exit(w)

Next == Produce \/ Finish \/ Cancel \/ Terminated \/ \E w \in Workers : Step(w)

Spec == Init /\ [][Next]_vars

\* Goroutines are scheduled.  A function is not sure to return: a response
\* body has no read timeout (client.go:84), so a download whose peer stalls
\* lasts until the context its request carries is cancelled.  A worker blocked
\* in a receive may wait for ever while others are handed work, so HandOver is
\* fair for the workers together.
Fairness ==
  /\ WF_vars(Produce) /\ WF_vars(Finish)
  /\ WF_vars(\E w \in Workers : HandOver(w))
  /\ \A w \in Workers : /\ WF_vars(Check(w) \/ Count(w) \/ Record(w) \/ Exit(w))
                        /\ WF_vars(ctxErr /\ Return(w))

FairSpec == Spec /\ Fairness

-----------------------------------------------------------------------------
TypeOK ==
  /\ ctxErr \in BOOLEAN
  /\ next \in 1..(N + 1)
  /\ producer \in {"loop", "send", "closed", "returned"}
  /\ producer = "send" => next \in Fns
  /\ worker \in [Workers -> {"recv", "check", "run", "count", "record", "exited"}]
  /\ held \in [Workers -> Fns \cup {NoFn}]
  /\ fail \in Nat
  /\ firstErr \in Fns \cup {NoErr}
  /\ state \in [Fns -> {"pending", "running", "ok", "err", "ctx"}]

Busy(w) == worker[w] \in {"check", "run", "count", "record"}

Failed   == {f \in Fns : state[f] \in {"err", "ctx"}}
Returned == producer = "returned"

(* runPool's result is exact although workers count and record in any      *)
(* order: every failed function is counted once, and an error is returned  *)
(* exactly when some function failed with one that is not a ctx error; the *)
(* error returned belongs to such a function.                              *)
ExactReport ==
  Returned =>
    /\ fail = Cardinality(Failed)
    /\ firstErr = NoErr <=> \A f \in Fns : state[f] # "err"
    /\ firstErr # NoErr => state[firstErr] = "err"

(* A function is run by one worker at a time, so that downloads of one     *)
(* batch never share a .part file.                                         *)
RunsOnce ==
  \A v, w \in Workers : v # w /\ Busy(v) /\ Busy(w) => held[v] # held[w]

(* runPool returns if the functions do: the producer is never left in a    *)
(* send that no worker will receive.                                       *)
Returns == (\A w \in Workers : []<>(worker[w] # "run")) => <>Returned

(* A cancelled runPool returns even if a function would never have: Stop   *)
(* ends a pass whose transfers hang.                                       *)
StopsOnCancel == ctxErr ~> Returned

AsBatch == INSTANCE Batch WITH
  cancelled <- ctxErr,
  report <- IF Returned THEN <<fail, firstErr>> ELSE << >>

(* runPool does what a Batch promises: no function is run twice or started *)
(* after the cancellation, and it reports once, exactly, when nothing runs *)
(* and only cancellation left functions out.                               *)
ImplementsBatch == AsBatch!Spec

-----------------------------------------------------------------------------
(* The inductive invariant behind these properties.                        *)

\* A busy worker holds a function that was handed out, in the state its
\* program point tells.
HeldInv ==
  \A w \in Workers :
    /\ Busy(w) => held[w] \in Fns /\ held[w] < next
    /\ worker[w] = "check" => state[held[w]] = "pending"
    /\ worker[w] = "run" => state[held[w]] = "running"
    /\ worker[w] = "count" => state[held[w]] \in {"err", "ctx"}
    /\ worker[w] = "record" => state[held[w]] = "err"

\* A function that is running has a worker; one that was handed out and did
\* not start waits for its worker's check or met the cancellation.
StateInv ==
  \A f \in Fns :
    /\ state[f] = "running" => \E w \in Workers : worker[w] = "run" /\ held[w] = f
    /\ f >= next => state[f] = "pending"
    /\ f < next /\ state[f] = "pending" =>
         ctxErr \/ \E w \in Workers : worker[w] = "check" /\ held[w] = f

\* The channel is closed once everything is handed out or on cancellation.
CloseInv ==
  /\ producer \in {"closed", "returned"} => next > N \/ ctxErr
  /\ \A w \in Workers : /\ worker[w] = "exited" => producer \in {"closed", "returned"}
                        /\ producer = "returned" => worker[w] = "exited"

Counted == {f \in Failed : \A w \in Workers : worker[w] = "count" => held[w] # f}

ReportInv ==
  /\ fail = Cardinality(Counted)
  /\ firstErr # NoErr => state[firstErr] = "err"
  /\ firstErr = NoErr =>
       \A f \in Fns : state[f] = "err" =>
         \E w \in Workers : worker[w] \in {"count", "record"} /\ held[w] = f

(* Everything a step of the pool relies on: who holds which function, what *)
(* the channel's state implies, and which failures are still to be counted *)
(* or recorded.                                                            *)
Inv == TypeOK /\ HeldInv /\ RunsOnce /\ StateInv /\ CloseInv /\ ReportInv
=============================================================================
