-------------------------- MODULE WorkerPoolProofs ---------------------------
(***************************************************************************)
(* Proofs about runPool for every number of functions and every non-empty  *)
(* finite set of workers.                                                  *)
(***************************************************************************)
EXTENDS WorkerPool, FiniteSetTheorems, TLAPS

USE NAssumption, WorkersAssumption DEF NoFn, NoErr

LEMMA FailedFinite == IsFiniteSet(Fns) /\ IsFiniteSet(Failed) /\ IsFiniteSet(Counted)
<1>1. IsFiniteSet(Fns)
  BY FS_Interval DEF Fns
<1>2. Failed \subseteq Fns /\ Counted \subseteq Fns
  BY DEF Failed, Counted
<1> QED
  BY <1>1, <1>2, FS_Subset

(* The invariant holds initially: nothing is handed out, nothing counted.  *)
LEMMA InitInv == Init => Inv
<1> SUFFICES ASSUME Init PROVE Inv
  OBVIOUS
<1>1. TypeOK
  BY DEF Init, TypeOK, Fns
<1>2. HeldInv /\ RunsOnce /\ StateInv /\ CloseInv
  BY DEF Init, HeldInv, RunsOnce, StateInv, CloseInv, Busy, Fns
<1>3. Counted = {}
  BY DEF Init, Counted, Failed
<1>4. ReportInv
  BY <1>3, FS_EmptySet DEF Init, ReportInv
<1> QED
  BY <1>1, <1>2, <1>4 DEF Inv

(* Types are preserved. *)
LEMMA TypeStep == Inv /\ [Next]_vars => TypeOK'
<1> SUFFICES ASSUME Inv, [Next]_vars PROVE TypeOK'
  OBVIOUS
<1> USE DEF Inv, TypeOK, Fns
<1>1. CASE Produce
  BY <1>1 DEF Produce
<1>2. CASE Finish
  BY <1>2 DEF Finish
<1>3. CASE Cancel
  BY <1>3 DEF Cancel
<1>4. CASE Terminated \/ UNCHANGED vars
  BY <1>4 DEF Terminated, vars
<1>5. ASSUME NEW w \in Workers, Step(w) PROVE TypeOK'
  <2>1. CASE HandOver(w)
    BY <2>1 DEF HandOver
  <2>2. CASE Check(w)
    BY <2>2 DEF Check
  <2>3. CASE Return(w)
    BY <2>3 DEF Return
  <2>4. CASE Count(w)
    BY <2>4 DEF Count
  <2>5. CASE Record(w)
    BY <2>5 DEF Record, HeldInv, Busy
  <2>6. CASE Exit(w)
    BY <2>6 DEF Exit
  <2> QED
    BY <1>5, <2>1, <2>2, <2>3, <2>4, <2>5, <2>6 DEF Step
<1> QED
  BY <1>1, <1>2, <1>3, <1>4, <1>5 DEF Next

(* Who holds what is preserved: the interesting step is HandOver, whose    *)
(* function is new because every held one lies before the producer's       *)
(* position.                                                               *)
LEMMA HeldStep ==
  Inv /\ [Next]_vars => (HeldInv /\ RunsOnce /\ StateInv /\ CloseInv)'
<1> SUFFICES ASSUME Inv, [Next]_vars
             PROVE  (HeldInv /\ RunsOnce /\ StateInv /\ CloseInv)'
  OBVIOUS
<1> USE DEF Inv, TypeOK, HeldInv, RunsOnce, StateInv, CloseInv, Busy, Fns
<1>1. CASE Produce
  BY <1>1 DEF Produce
<1>2. CASE Finish
  BY <1>2 DEF Finish
<1>3. CASE Cancel
  BY <1>3 DEF Cancel
<1>4. CASE Terminated \/ UNCHANGED vars
  BY <1>4 DEF Terminated, vars
<1>5. ASSUME NEW w \in Workers, Step(w)
      PROVE  (HeldInv /\ RunsOnce /\ StateInv /\ CloseInv)'
  <2>1. CASE HandOver(w)
    BY <2>1 DEF HandOver
  <2>2. CASE Check(w)
    BY <2>2 DEF Check
  <2>3. CASE Return(w)
    BY <2>3 DEF Return
  <2>4. CASE Count(w)
    BY <2>4 DEF Count
  <2>5. CASE Record(w)
    BY <2>5 DEF Record
  <2>6. CASE Exit(w)
    BY <2>6 DEF Exit
  <2> QED
    BY <1>5, <2>1, <2>2, <2>3, <2>4, <2>5, <2>6 DEF Step
<1> QED
  BY <1>1, <1>2, <1>3, <1>4, <1>5 DEF Next

(* The counter and the kept error are preserved: a failure enters Counted  *)
(* with the very Count step that adds one to fail.                         *)
LEMMA ReportStep == Inv /\ [Next]_vars => ReportInv'
<1> SUFFICES ASSUME Inv, [Next]_vars PROVE ReportInv'
  OBVIOUS
<1> USE DEF Inv, TypeOK, Fns
<1>0. ReportInv
  OBVIOUS
<1>1. ASSUME UNCHANGED <<worker, held, fail, firstErr, state>> PROVE ReportInv'
  BY <1>0, <1>1 DEF ReportInv, Counted, Failed
<1>2. ASSUME NEW w \in Workers, Step(w) PROVE ReportInv'
  <2>1. CASE HandOver(w)
    <3>1. Counted' = Counted
      BY <2>1 DEF HandOver, Counted, Failed
    <3> QED
      BY <1>0, <2>1, <3>1 DEF HandOver, ReportInv
  <2>2. CASE Check(w)
    <3>1. Counted' = Counted
      BY <2>2 DEF Check, Counted, Failed, HeldInv, Busy
    <3> QED
      BY <1>0, <2>2, <3>1 DEF Check, ReportInv, HeldInv, Busy
  <2>3. CASE Return(w)
    <3>1. Counted' = Counted
      BY <2>3 DEF Return, Counted, Failed, HeldInv, Busy
    <3> QED
      BY <1>0, <2>3, <3>1 DEF Return, ReportInv, HeldInv, Busy
  <2>4. CASE Count(w)
    <3>1. held[w] \in Failed /\ held[w] \notin Counted
      BY <2>4 DEF Count, Counted, Failed, HeldInv, Busy
    <3>2. Counted' = Counted \cup {held[w]}
      BY <2>4, <3>1 DEF Count, Counted, Failed, HeldInv, RunsOnce, Busy
    <3>3. Cardinality(Counted') = Cardinality(Counted) + 1
      BY <3>1, <3>2, FailedFinite, FS_AddElement
    <3>4. fail' = Cardinality(Counted')
      BY <1>0, <2>4, <3>3 DEF Count, ReportInv
    <3> QED
      BY <1>0, <2>4, <3>4 DEF Count, ReportInv, HeldInv, Busy
  <2>5. CASE Record(w)
    <3>1. Counted' = Counted
      BY <2>5 DEF Record, Counted, Failed
    <3> QED
      BY <1>0, <2>5, <3>1 DEF Record, ReportInv, HeldInv, Busy
  <2>6. CASE Exit(w)
    <3>1. Counted' = Counted
      BY <2>6 DEF Exit, Counted, Failed
    <3> QED
      BY <1>0, <2>6, <3>1 DEF Exit, ReportInv
  <2> QED
    BY <1>2, <2>1, <2>2, <2>3, <2>4, <2>5, <2>6 DEF Step
<1>3. CASE Produce \/ Finish \/ Cancel \/ Terminated \/ UNCHANGED vars
  BY <1>1, <1>3 DEF Produce, Finish, Cancel, Terminated, vars
<1> QED
  BY <1>2, <1>3 DEF Next

(* pool.go:121-161: the invariant of runPool. *)
THEOREM Invariance == Spec => []Inv
<1>1. Inv /\ [Next]_vars => Inv'
  BY TypeStep, HeldStep, ReportStep DEF Inv
<1> QED
  BY <1>1, InitInv, PTL DEF Spec

(* At the return every worker has exited, so nothing is uncounted. *)
LEMMA ReportExact == Inv => ExactReport
<1> SUFFICES ASSUME Inv, Returned PROVE
      /\ fail = Cardinality(Failed)
      /\ firstErr = NoErr <=> \A f \in Fns : state[f] # "err"
      /\ firstErr # NoErr => state[firstErr] = "err"
  BY DEF ExactReport
<1>1. \A w \in Workers : worker[w] = "exited"
  BY DEF Inv, CloseInv, Returned
<1>2. Counted = Failed
  BY <1>1 DEF Counted
<1> QED
  BY <1>1, <1>2 DEF Inv, TypeOK, ReportInv

(* The pool's variables have their types in every reachable state.         *)
THEOREM TypeCorrect == Spec => []TypeOK
  BY Invariance, PTL DEF Inv

(* What runPool returns is exact, however the workers interleave.          *)
THEOREM ReportIsExact == Spec => []ExactReport
  BY Invariance, ReportExact, PTL

(* No two workers ever hold the same function.                             *)
THEOREM NoSharing == Spec => []RunsOnce
  BY Invariance, PTL DEF Inv

-----------------------------------------------------------------------------
(* Every step of the pool is a step of a Batch or leaves it unchanged. *)
LEMMA BatchStep == Inv /\ ExactReport' /\ [Next]_vars => [AsBatch!Next]_(AsBatch!bvars)
<1> SUFFICES ASSUME Inv, ExactReport', [Next]_vars
             PROVE  [AsBatch!Next]_(AsBatch!bvars)
  OBVIOUS
<1> USE DEF Inv, TypeOK, Returned
<1>1. ASSUME UNCHANGED <<ctxErr, fail, firstErr, state>>, producer' # "returned",
             producer # "returned"
      PROVE  UNCHANGED AsBatch!bvars
  BY <1>1 DEF AsBatch!bvars
<1>2. CASE Produce
  BY <1>1, <1>2 DEF Produce
<1>3. CASE Finish
  <2>1. \A w \in Workers : worker[w] = "exited"
    BY <1>3 DEF Finish
  <2>2. \A f \in Fns : state[f] # "running" /\ (state[f] = "pending" => ctxErr)
    BY <1>3, <2>1 DEF Finish, StateInv, CloseInv, Fns
  <2>3. /\ fail = Cardinality(Failed)
        /\ firstErr = NoErr <=> \A f \in Fns : state[f] # "err"
        /\ firstErr # NoErr => state[firstErr] = "err"
    BY <1>3, <2>1, ReportExact DEF Finish, ReportInv, Counted
  <2>4. AsBatch!Cardinality(Failed) = Cardinality(Failed)
    BY DEF AsBatch!Cardinality, AsBatch!IsFiniteSet, Cardinality, IsFiniteSet
  <2>5. AsBatch!Failed(state) = Failed
    BY DEF AsBatch!Failed, Failed, AsBatch!Fns, Fns
  <2>6. firstErr \in AsBatch!Real(state) \cup
                       (IF AsBatch!Real(state) = {} THEN {AsBatch!NoErr} ELSE {})
    BY <2>3 DEF AsBatch!Real, AsBatch!Fns, AsBatch!NoErr, Fns
  <2>7. AsBatch!Report
    BY <1>3, <2>2, <2>3, <2>4, <2>5, <2>6
    DEF Finish, AsBatch!Report, AsBatch!Fns, Fns
  <2> QED
    BY <2>7 DEF AsBatch!Next
<1>4. CASE Cancel
  BY <1>4 DEF Cancel, AsBatch!Cancel, AsBatch!Next
<1>5. CASE Terminated \/ UNCHANGED vars
  BY <1>5 DEF Terminated, vars, AsBatch!bvars
<1>6. ASSUME NEW w \in Workers, Step(w)
      PROVE  [AsBatch!Next]_(AsBatch!bvars)
  <2>0. producer # "returned" /\ producer' # "returned"
    BY <1>6 DEF Step, HandOver, Check, Return, Count, Record, Exit, CloseInv
  <2>1. CASE HandOver(w) \/ Exit(w)
    BY <1>1, <2>0, <2>1 DEF HandOver, Exit
  <2>2. CASE Check(w)
    <3>1. CASE ctxErr
      BY <1>1, <2>0, <2>2, <3>1 DEF Check
    <3>2. CASE ~ctxErr
      <4>1. held[w] \in AsBatch!Fns /\ AsBatch!Start(held[w])
        BY <2>0, <2>2, <3>2
        DEF Check, HeldInv, Busy, Fns, AsBatch!Fns, AsBatch!Start
      <4> QED
        BY <4>1 DEF AsBatch!Next
    <3> QED
      BY <3>1, <3>2
  <2>3. CASE Return(w)
    <3>1. held[w] \in AsBatch!Fns /\ AsBatch!Finish(held[w])
      BY <2>0, <2>3
      DEF Return, HeldInv, Busy, Fns, AsBatch!Fns, AsBatch!Finish, AsBatch!Outcomes
    <3> QED
      BY <3>1 DEF AsBatch!Next
  <2>4. CASE Count(w) \/ Record(w)
    BY <2>0, <2>4 DEF Count, Record, AsBatch!bvars
  <2> QED
    BY <1>6, <2>1, <2>2, <2>3, <2>4 DEF Step
<1> QED
  BY <1>2, <1>3, <1>4, <1>5, <1>6 DEF Next

(* runPool implements Batch: at-most-once execution, nothing started after *)
(* the cancellation, one exact report at the end.                          *)
THEOREM PoolImplementsBatch == Spec => ImplementsBatch
<1>1. Init => AsBatch!Init
  BY DEF Init, AsBatch!Init, AsBatch!Fns, Fns, Returned
<1>2. Inv /\ ExactReport' /\ [Next]_vars => [AsBatch!Next]_(AsBatch!bvars)
  BY BatchStep
<1> QED
  BY <1>1, <1>2, Invariance, ReportIsExact, PTL DEF Spec, ImplementsBatch, AsBatch!Spec

-----------------------------------------------------------------------------
(* Why runPool ends, but for the scheduling of goroutines, of which nothing *)
(* can be proved here.                                                      *)

\* How far a worker is from its end, and the producer from its own.
WorkerSteps   == [exited |-> 0, recv |-> 1, record |-> 2, count |-> 3, run |-> 4, check |-> 5]
ProducerSteps == [returned |-> 0, closed |-> 1, send |-> 2, loop |-> 3]

StepsLeft(w)      == WorkerSteps[worker[w]]
ProducerStepsLeft == ProducerSteps[producer]

\* A function is handed out, or nothing is and somebody is nearer to the end
\* while nobody is farther from it.
Advances ==
  \/ next' = next + 1
  \/ /\ next' = next
     /\ \A w \in Workers : StepsLeft(w)' <= StepsLeft(w)
     /\ ProducerStepsLeft' <= ProducerStepsLeft
     /\ \/ \E w \in Workers : StepsLeft(w)' < StepsLeft(w)
        \/ ProducerStepsLeft' < ProducerStepsLeft

(* Every step of the pool is one of the finitely many there are: at most N *)
(* functions are handed out, and between two of them each goroutine gets   *)
(* nearer to its end with every step it makes (pool.go:129-160).           *)
WorkIsFinite == [][next' <= N + 1 /\ (Cancel \/ Terminated \/ Advances)]_vars

\* The guards of a worker's steps; what it does in a function is fn's affair.
CanStep(w) == \/ worker[w] \in {"check", "run", "count", "record"}
              \/ worker[w] = "recv" /\ producer \in {"send", "closed"}

(* Nobody waits for somebody who waits for him: until runPool returns, its *)
(* producer or one of its workers has a step to make or a function to run  *)
(* (pool.go:156).  No send is left without a worker that will receive.     *)
NeverStuck ==
  \/ producer \in {"loop", "returned"}
  \/ producer = "closed" /\ \A w \in Workers : worker[w] = "exited"
  \/ \E w \in Workers : CanStep(w)

(* For any N and any set of workers: what Returns and StopsOnCancel need   *)
(* besides fairness; a hand-over uses up an index, any other step a stage. *)
THEOREM WorkShrinks == Spec => WorkIsFinite
<1>1. ASSUME Inv, Inv', [Next]_vars
      PROVE  [next' <= N + 1 /\ (Cancel \/ Terminated \/ Advances)]_vars
  <2> USE DEF StepsLeft, ProducerStepsLeft, WorkerSteps, ProducerSteps
  <2>1. /\ next \in 1..(N + 1) /\ next' \in 1..(N + 1)
        /\ producer \in {"loop", "send", "closed", "returned"}
        /\ worker \in [Workers -> {"recv", "check", "run", "count", "record", "exited"}]
    BY <1>1 DEF Inv, TypeOK
  <2>2. next' <= N + 1
    BY <2>1
  <2>3. ASSUME Produce PROVE Advances
    <3>1. /\ producer = "loop" /\ producer' \in {"closed", "send"}
          /\ next' = next /\ worker' = worker
      BY <2>3 DEF Produce
    <3>2. ProducerStepsLeft = 3 /\ ProducerStepsLeft' \in {1, 2}
      BY <3>1
    <3>3. \A w \in Workers : StepsLeft(w)' = StepsLeft(w) /\ StepsLeft(w) \in Nat
      BY <2>1, <3>1
    <3> HIDE DEF StepsLeft, ProducerStepsLeft
    <3> QED
      BY <3>1, <3>2, <3>3 DEF Advances
  <2>4. ASSUME Finish PROVE Advances
    <3>1. producer = "closed" /\ producer' = "returned" /\ next' = next /\ worker' = worker
      BY <2>4 DEF Finish
    <3>2. ProducerStepsLeft = 1 /\ ProducerStepsLeft' = 0
      BY <3>1
    <3>3. \A w \in Workers : StepsLeft(w)' = StepsLeft(w) /\ StepsLeft(w) \in Nat
      BY <2>1, <3>1
    <3> HIDE DEF StepsLeft, ProducerStepsLeft
    <3> QED
      BY <3>1, <3>2, <3>3 DEF Advances
  <2>5. ASSUME NEW w \in Workers, Step(w)
        PROVE  Advances
    <3>1. CASE HandOver(w)
      BY <3>1 DEF HandOver, Advances
    <3>2. CASE ~HandOver(w)
      <4>1. /\ next' = next /\ producer' = producer
            /\ worker' = [worker EXCEPT ![w] = worker'[w]]
            /\ <<worker[w], worker'[w]>> \in
                 {<<"check", "recv">>, <<"check", "run">>, <<"run", "recv">>, <<"run", "count">>,
                  <<"count", "recv">>, <<"count", "record">>, <<"record", "recv">>,
                  <<"recv", "exited">>}
        BY <2>1, <2>5, <3>2 DEF Step, Check, Return, Count, Record, Exit
      <4>2. StepsLeft(w)' < StepsLeft(w)
        BY <4>1
      <4>3. \A v \in Workers \ {w} : StepsLeft(v)' = StepsLeft(v) /\ StepsLeft(v) \in Nat
        <5>1. \A v \in Workers \ {w} : worker'[v] = worker[v]
          BY <2>1, <4>1
        <5> QED
          BY <2>1, <5>1
      <4>4. ProducerStepsLeft' = ProducerStepsLeft /\ ProducerStepsLeft \in Nat
        BY <2>1, <4>1
      <4>5. StepsLeft(w) \in Nat /\ StepsLeft(w)' \in Nat
        BY <4>1
      <4>6. \A v \in Workers : StepsLeft(v)' <= StepsLeft(v)
        BY <4>2, <4>3, <4>5
      <4> HIDE DEF StepsLeft, ProducerStepsLeft
      <4> QED
        BY <4>1, <4>2, <4>4, <4>6 DEF Advances
    <3> QED
      BY <3>1, <3>2
  <2> QED
    BY <1>1, <2>2, <2>3, <2>4, <2>5 DEF Next
<1> QED
  BY <1>1, Invariance, PTL DEF Spec, WorkIsFinite

(* It rests on CloseInv: a worker leaves only once the channel is closed.  *)
THEOREM PoolNeverStuck == Spec => []NeverStuck
<1>1. Inv => NeverStuck
  BY DEF Inv, TypeOK, CloseInv, NeverStuck, CanStep
<1> QED
  BY <1>1, Invariance, PTL
=============================================================================
