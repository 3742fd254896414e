---------------------------- MODULE RunnerProofs -----------------------------
(***************************************************************************)
(* Proofs about the runner for every set of connections, tasks, requests   *)
(* and goroutines.                                                         *)
(***************************************************************************)
EXTENDS Runner, TLAPS

LEMMA BoundsAreNat == MaxTime \in Nat /\ MaxRequests \in Nat /\ MaxStops \in Nat
BY RunnerAssumption

(* What the other assumptions say, one by one. *)
LEMMA Apart ==
  /\ \A r \in Requests : r \notin Slots /\ r # Scheduler
  /\ \A s \in Slots : s # Scheduler
BY RunnerAssumption

LEMMA EditsAreEdits ==
  \A e \in Edits : e.enabled \in BOOLEAN /\ e.interval \in Intervals \cup {0}
BY RunnerAssumption

(* Tables of tasks stay tables under what the store does to them. *)
LEMMA TableOf ==
  ASSUME NEW ids \in SUBSET TaskIds, NEW t \in [ids -> Tasks]
  PROVE  t \in Tables
BY DEF Tables

LEMMA TaskOfTable ==
  ASSUME NEW t \in Tables
  PROVE  /\ DOMAIN t \in SUBSET TaskIds
         /\ t \in [DOMAIN t -> Tasks]
<1>1. PICK ids \in SUBSET TaskIds : t \in [ids -> Tasks]
  BY DEF Tables
<1> QED
  BY <1>1

LEMMA RestrictedTable ==
  ASSUME NEW t \in Tables, NEW ids \in SUBSET DOMAIN t
  PROVE  Restrict(t, ids) \in Tables
<1>1. Restrict(t, ids) \in [ids -> Tasks] /\ ids \in SUBSET TaskIds
  BY TaskOfTable DEF Restrict
<1> QED
  BY <1>1, TableOf

LEMMA UpsertedTable ==
  ASSUME NEW t \in Tables, NEW id \in TaskIds, NEW x \in Tasks
  PROVE  [i \in DOMAIN t \cup {id} |-> IF i = id THEN x ELSE t[i]] \in Tables
<1>1. /\ [i \in DOMAIN t \cup {id} |-> IF i = id THEN x ELSE t[i]]
            \in [DOMAIN t \cup {id} -> Tasks]
      /\ DOMAIN t \cup {id} \in SUBSET TaskIds
  BY TaskOfTable
<1> QED
  BY <1>1, TableOf

(* A status update keeps the tasks there are and touches no other one. *)
LEMMA UpdatedState ==
  ASSUME state \in States, NEW id \in TaskIds,
         NEW status \in Statuses, NEW time \in 0..MaxTime
  PROVE  LET new == UpdateTaskStatus(id, status, time) IN
         /\ new \in States
         /\ DOMAIN new.tasks = DOMAIN state.tasks
         /\ \A i \in DOMAIN state.tasks :
              new.tasks[i].last_status =
                IF i = id THEN status ELSE state.tasks[i].last_status
<1> DEFINE new == UpdateTaskStatus(id, status, time)
<1>1. CASE id \notin DOMAIN state.tasks
  BY <1>1 DEF UpdateTaskStatus
<1>2. CASE id \in DOMAIN state.tasks
  <2> DEFINE x == [state.tasks[id] EXCEPT !.last_status = status, !.last_run = time]
  <2>1. state.tasks \in Tables /\ state.tasks[id] \in Tasks
    BY <1>2, TaskOfTable DEF States
  <2>2. x \in Tasks /\ x.last_status = status
    BY <2>1 DEF Tasks
  <2>3. new = [state EXCEPT !.tasks = [@ EXCEPT ![id] = x]]
    BY <1>2, <2>1 DEF UpdateTaskStatus, States, Tables, Tasks
  <2>4. [state.tasks EXCEPT ![id] = x] \in Tables
    BY <1>2, <2>1, <2>2 DEF Tables
  <2>5. /\ new.tasks = [state.tasks EXCEPT ![id] = x]
        /\ new \in States
    BY <2>3, <2>4 DEF States
  <2>6. /\ DOMAIN new.tasks = DOMAIN state.tasks
        /\ \A i \in DOMAIN state.tasks :
             new.tasks[i] = IF i = id THEN x ELSE state.tasks[i]
    BY <1>2, <2>1, <2>5 DEF Tables
  <2> QED
    BY <2>2, <2>5, <2>6
<1> QED
  BY <1>1, <1>2

(* What a request makes of the state is a state. *)
LEMMA ChangedState ==
  ASSUME state \in States
  PROVE  /\ \A c \in Connections : UpsertConnection(c) \in States
         /\ \A c \in Connections : DeleteConnection(c) \in States
         /\ \A id \in TaskIds, t \in Tasks : UpsertTask(id, t) \in States
         /\ \A id \in TaskIds : DeleteTask(id) \in States
         /\ \A i \in Intervals : SetSettings(i) \in States
<1>1. ASSUME NEW c \in Connections
      PROVE  UpsertConnection(c) \in States /\ DeleteConnection(c) \in States
  <2>1. Restrict(state.tasks, {id \in DOMAIN state.tasks : state.tasks[id].connection # c})
          \in Tables
    BY RestrictedTable DEF States
  <2> QED
    BY <2>1 DEF States, UpsertConnection, DeleteConnection
<1>2. ASSUME NEW id \in TaskIds, NEW t \in Tasks PROVE UpsertTask(id, t) \in States
  BY UpsertedTable DEF States, UpsertTask
<1>3. ASSUME NEW id \in TaskIds PROVE DeleteTask(id) \in States
  <2>1. Restrict(state.tasks, DOMAIN state.tasks \ {id}) \in Tables
    BY RestrictedTable DEF States
  <2> QED
    BY <2>1 DEF States, DeleteTask
<1>4. ASSUME NEW i \in Intervals PROVE SetSettings(i) \in States
  BY DEF States, SetSettings
<1> QED
  BY <1>1, <1>2, <1>3, <1>4

LEMMA DefaultState == defaultState \in States
<1>1. [id \in {} |-> id] \in [{} -> Tasks] /\ {} \in SUBSET TaskIds
  OBVIOUS
<1>2. [id \in {} |-> id] \in Tables
  BY <1>1, TableOf
<1> QED
  BY <1>2, RunnerAssumption DEF defaultState, States

(* The invariant holds initially: nothing runs and no task says it does. *)
LEMMA InitInv == Init => Inv
<1> SUFFICES ASSUME Init PROVE Inv
  OBVIOUS
<1>1. /\ state \in StartStates /\ file \in States /\ state \in States
      /\ snapshot \in States
  BY DefaultState, RunnerAssumption DEF Init
<1>2. TypeOK
  <2>1. /\ at \in [Threads -> Points] /\ item \in [Threads -> TaskIds \cup {"none"}]
        /\ task \in [Threads -> SUBSET Tasks] /\ outcome \in [Slots -> {"none", "ok", "error"}]
    BY DEF Init, Each, Points
  <2>2. now \in 0..MaxTime /\ requests \in 0..MaxRequests /\ stops \in 0..MaxStops
    BY BoundsAreNat DEF Init
  <2>3. running \subseteq TaskIds /\ up \in BOOLEAN
    BY DEF Init
  <2> QED
    BY <1>1, <2>1, <2>2, <2>3 DEF TypeOK
<1>3. PlaceInv /\ OneRunPerTask
  BY DEF Init, PlaceInv, OneRunPerTask, Runs, Each, Threads
<1>4. RunningIsReal
  BY <1>1, RunnerAssumption DEF Init, RunningIsReal
<1> QED
  BY <1>2, <1>3, <1>4 DEF Inv

(* Types are preserved. *)
LEMMA TypeStep == Inv /\ [Next]_vars => TypeOK'
<1> SUFFICES ASSUME Inv, [Next]_vars PROVE TypeOK'
  OBVIOUS
<1> USE DEF TypeOK, Goto, Points
<1>0. TypeOK /\ PlaceInv
  BY DEF Inv
<1>1. ASSUME NEW r \in Requests, Request(r) PROVE TypeOK'
  <2>1. ASSUME NEW c \in Connections, ConnectionSave(r, c) PROVE TypeOK'
    BY <1>0, <2>1, ChangedState, BoundsAreNat DEF ConnectionSave, NewRequest, ChangeAndSave, Threads
  <2>2. ASSUME NEW c \in Connections, ConnectionDelete(r, c) PROVE TypeOK'
    BY <1>0, <2>2, ChangedState, BoundsAreNat DEF ConnectionDelete, NewRequest, ChangeAndSave, Threads
  <2>3. ASSUME NEW id \in TaskIds, NEW c \in Connections, NEW e \in Edits, TaskSave(r, id, c, e)
        PROVE  TypeOK'
    BY <1>0, <2>3, EditsAreEdits, BoundsAreNat
    DEF TaskSave, NewRequest, Threads, Tasks, Statuses, Never
  <2>4. ASSUME NEW id \in TaskIds, TaskDelete(r, id) PROVE TypeOK'
    BY <1>0, <2>4, ChangedState, BoundsAreNat DEF TaskDelete, NewRequest, ChangeAndSave, Threads
  <2>5. ASSUME NEW id \in TaskIds, TaskRun(r, id) PROVE TypeOK'
    <3>1. state.tasks[id] \in Tasks
      BY <1>0, <2>5, TaskOfTable DEF TaskRun, FindTask, States
    <3> QED
      BY <1>0, <2>5, <3>1, BoundsAreNat DEF TaskRun, FindTask, NewRequest, Threads
  <2>6. ASSUME NEW i \in Intervals, SettingsSave(r, i) PROVE TypeOK'
    BY <1>0, <2>6, ChangedState, BoundsAreNat DEF SettingsSave, NewRequest, ChangeAndSave, Threads
  <2>7. CASE TaskUpsert(r)
    <3>1. state' \in States
      BY <1>0, <2>7, ChangedState DEF TaskUpsert, ChangeAndSave, PlaceInv, Threads
    <3> QED
      BY <1>0, <2>7, <3>1 DEF TaskUpsert, ChangeAndSave, Threads, bounds
  <2>8. CASE StartRun(r)
    BY <1>0, <2>8 DEF StartRun, Spawn, Caller, PlaceInv, Threads, bounds
  <2>9. CASE Save(r, "idle")
    BY <1>0, <2>9 DEF Save, locals, bounds
  <2> QED
    BY <1>1, <2>1, <2>2, <2>3, <2>4, <2>5, <2>6, <2>7, <2>8, <2>9 DEF Request
<1>2. ASSUME NEW s \in Slots, Execute(s) \/ RunPass(s) PROVE TypeOK'
  <2>1. CASE MarkRunning(s)
    <3>1. state' \in States
      BY <1>0, <2>1, UpdatedState DEF MarkRunning, PlaceInv, Statuses
    <3> QED
      BY <1>0, <2>1, <3>1 DEF MarkRunning, Threads, locals, bounds
  <2>2. CASE Report(s)
    <3>1. state' \in States
      BY <1>0, <2>2, UpdatedState DEF Report, PlaceInv, Statuses
    <3> QED
      BY <1>0, <2>2, <3>1 DEF Report, Threads, locals, bounds
  <2>3. CASE Save(s, "unmark")
    BY <1>0, <2>3 DEF Save, locals, bounds
  <2>4. CASE Unmark(s)
    BY <1>0, <2>4 DEF Unmark, Threads, bounds
  <2>5. CASE RunPass(s)
    BY <1>0, <2>5 DEF RunPass, Threads, bounds
  <2>6. CASE FindConnection(s)
    BY <1>0, <2>6 DEF FindConnection, Threads, bounds
  <2> QED
    BY <1>2, <2>1, <2>2, <2>3, <2>4, <2>5, <2>6 DEF Execute
<1>3. CASE Schedule
  <2>1. CASE TickerFires \/ EndRound
    BY <1>0, <2>1, DefaultState DEF TickerFires, EndRound, Threads, locals, bounds
  <2>2. CASE StartRun(Scheduler)
    BY <1>0, <2>2 DEF StartRun, Spawn, Caller, PlaceInv, Threads, bounds
  <2>3. ASSUME NEW id \in TaskIds, LookAtTask(id) PROVE TypeOK'
    <3>1. snapshot' \in States
      <4>1. Restrict(snapshot.tasks, DOMAIN snapshot.tasks \ {id}) \in Tables
        BY <1>0, RestrictedTable DEF States
      <4> QED
        BY <1>0, <2>3, <4>1 DEF LookAtTask, States
    <3>2. id \in DOMAIN state.tasks => state.tasks[id] \in Tasks
      BY <1>0, TaskOfTable DEF States
    <3> QED
      BY <1>0, <2>3, <3>1, <3>2 DEF LookAtTask, FindTask, Threads, bounds
  <2> QED
    BY <1>3, <2>1, <2>2, <2>3 DEF Schedule
<1>4. CASE TimePasses \/ Start
  <2>1. now' \in 0..MaxTime
    BY <1>0, <1>4, BoundsAreNat DEF TimePasses, Start, bounds
  <2> QED
    BY <1>0, <1>4, <2>1 DEF TimePasses, Start, locals, bounds
<1>5. CASE Stop
  <2>1. /\ at' \in [Threads -> Points] /\ item' \in [Threads -> TaskIds \cup {"none"}]
        /\ task' \in [Threads -> SUBSET Tasks] /\ outcome' \in [Slots -> {"none", "ok", "error"}]
    BY <1>5 DEF Stop, Each
  <2>2. stops' \in 0..MaxStops
    BY <1>0, <1>5, BoundsAreNat DEF Stop
  <2>3. {state, file, snapshot}' \subseteq States
    BY <1>0, <1>5, DefaultState DEF Stop
  <2>4. running' \subseteq TaskIds /\ up' \in BOOLEAN /\ UNCHANGED <<now, requests>>
    BY <1>5 DEF Stop
  <2> QED
    BY <1>0, <2>1, <2>2, <2>3, <2>4
<1>6. CASE UNCHANGED vars
  BY <1>0, <1>6 DEF vars, locals, bounds
<1> QED
  BY <1>1, <1>2, <1>3, <1>4, <1>5, <1>6 DEF Next

(* Threads stay where they belong, each kind of thread in its own code. *)
LEMMA PlaceStep == Inv /\ [Next]_vars => PlaceInv'
<1> SUFFICES ASSUME Inv, [Next]_vars PROVE PlaceInv'
  OBVIOUS
<1> USE DEF TypeOK, PlaceInv, Goto, Threads
<1>0. TypeOK /\ PlaceInv
  BY DEF Inv
<1>1. ASSUME NEW r \in Requests, Request(r) PROVE PlaceInv'
  <2>1. CASE at' = [at EXCEPT ![r] = "save"] /\ UNCHANGED <<item, task, up, stops>>
    BY <1>0, <2>1, Apart
  <2>2. ASSUME NEW id \in TaskIds, NEW c \in Connections, NEW e \in Edits, TaskSave(r, id, c, e)
        PROVE  PlaceInv'
    BY <1>0, <2>2, Apart DEF TaskSave, NewRequest
  <2>3. ASSUME NEW id \in TaskIds, TaskRun(r, id) PROVE PlaceInv'
    BY <1>0, <2>3, Apart DEF TaskRun, FindTask, NewRequest
  <2>4. CASE TaskUpsert(r)
    BY <1>0, <2>4, Apart DEF TaskUpsert, ChangeAndSave, bounds
  <2>5. CASE StartRun(r)
    BY <1>0, <2>5, Apart DEF StartRun, Spawn, Caller, bounds
  <2>6. CASE Save(r, "idle")
    BY <1>0, <2>6, Apart DEF Save, locals, bounds
  <2> QED
    BY <1>0, <1>1, <2>1, <2>2, <2>3, <2>4, <2>5, <2>6
    DEF Request, ConnectionSave, ConnectionDelete, TaskDelete, SettingsSave, ChangeAndSave,
        NewRequest
<1>2. ASSUME NEW s \in Slots, Execute(s) \/ RunPass(s) PROVE PlaceInv'
  <2>1. CASE MarkRunning(s)
    BY <1>0, <2>1, Apart DEF MarkRunning, locals, bounds
  <2>2. CASE Report(s)
    BY <1>0, <2>2, Apart DEF Report, locals, bounds
  <2>3. CASE Save(s, "unmark")
    BY <1>0, <2>3, Apart DEF Save, locals, bounds
  <2>4. CASE Unmark(s)
    BY <1>0, <2>4, Apart DEF Unmark, bounds
  <2>5. CASE RunPass(s)
    BY <1>0, <2>5, Apart DEF RunPass, bounds
  <2>6. CASE FindConnection(s)
    BY <1>0, <2>6, Apart DEF FindConnection, bounds
  <2> QED
    BY <1>2, <2>1, <2>2, <2>3, <2>4, <2>5, <2>6 DEF Execute
<1>3. CASE Schedule
  <2>1. CASE TickerFires \/ EndRound
    BY <1>0, <2>1, Apart DEF TickerFires, EndRound, locals, bounds
  <2>2. CASE StartRun(Scheduler)
    BY <1>0, <2>2, Apart DEF StartRun, Spawn, Caller, bounds
  <2>3. ASSUME NEW id \in TaskIds, LookAtTask(id) PROVE PlaceInv'
    BY <1>0, <2>3, Apart DEF LookAtTask, FindTask, bounds
  <2> QED
    BY <1>3, <2>1, <2>2, <2>3 DEF Schedule
<1>4. CASE TimePasses \/ Start
  BY <1>0, <1>4 DEF TimePasses, Start, locals, bounds
<1>5. CASE Stop
  BY <1>0, <1>5, BoundsAreNat DEF Stop, Each
<1>6. CASE UNCHANGED vars
  BY <1>0, <1>6 DEF vars, locals, bounds
<1> QED
  BY <1>1, <1>2, <1>3, <1>4, <1>5, <1>6 DEF Next

(* A run starts under the lock that finds its task unmarked, and ends with *)
(* the mark; no other step touches either.                                 *)
LEMMA OneRunStep == Inv /\ [Next]_vars => OneRunPerTask'
<1> SUFFICES ASSUME Inv, [Next]_vars PROVE OneRunPerTask'
  OBVIOUS
<1> USE DEF TypeOK, PlaceInv, OneRunPerTask, Runs, Goto, Threads
<1>0. TypeOK /\ PlaceInv /\ OneRunPerTask
  BY DEF Inv
<1>1. ASSUME running' = running,
             \A s \in Slots : (at'[s] = "idle" <=> at[s] = "idle") /\ item'[s] = item[s]
      PROVE  OneRunPerTask'
  BY <1>0, <1>1
<1>2. ASSUME NEW th \in Requests \cup {Scheduler}, StartRun(th) PROVE OneRunPerTask'
  <2>1. CASE item[th] \in running
    BY <1>0, <1>1, <1>2, <2>1, Apart DEF StartRun, Caller
  <2>2. CASE item[th] \notin running
    <3>1. PICK s \in Slots :
            /\ at[s] = "idle"
            /\ at' = [at EXCEPT ![th] = Caller(th), ![s] = "connect"]
            /\ item' = [item EXCEPT ![th] = "none", ![s] = item[th]]
      BY <1>2, <2>2 DEF StartRun, Spawn
    <3>2. running' = running \cup {item[th]} /\ Runs(item[th]) = {} /\ item[th] \in TaskIds
      BY <1>0, <1>2, <2>2 DEF StartRun
    <3>3. \A o \in Slots : /\ at'[o] = IF o = s THEN "connect" ELSE at[o]
                           /\ item'[o] = IF o = s THEN item[th] ELSE item[o]
      BY <1>0, <3>1, Apart
    <3> QED
      BY <1>0, <3>1, <3>2, <3>3
  <2> QED
    BY <2>1, <2>2
<1>3. ASSUME NEW r \in Requests, Request(r) PROVE OneRunPerTask'
  <2>1. CASE StartRun(r)
    BY <1>2, <2>1
  <2>2. CASE ~StartRun(r)
    <3>1. /\ running' = running
          /\ \A s \in Slots : at'[s] = at[s] /\ item'[s] = item[s]
      BY <1>0, <1>3, <2>2, Apart
      DEF Request, ConnectionSave, ConnectionDelete, TaskDelete, SettingsSave, ChangeAndSave,
          NewRequest, TaskSave, TaskRun, FindTask, TaskUpsert, Save, locals
    <3> QED
      BY <1>1, <3>1
  <2> QED
    BY <2>1, <2>2
<1>4. ASSUME NEW s \in Slots, Execute(s) \/ RunPass(s) PROVE OneRunPerTask'
  <2>1. CASE Unmark(s)
    <3>1. \A o \in Slots : o # s => at'[o] = at[o] /\ item'[o] = item[o]
      BY <1>0, <2>1 DEF Unmark
    <3>2. running' = running \ {item[s]} /\ at[s] # "idle" /\ at'[s] = "idle"
      BY <1>0, <2>1 DEF Unmark
    <3> QED
      BY <1>0, <3>1, <3>2
  <2>2. CASE \/ FindConnection(s) \/ MarkRunning(s) \/ Report(s)
             \/ Save(s, "unmark") \/ RunPass(s)
    BY <1>0, <1>1, <2>2 DEF FindConnection, MarkRunning, Report, Save, RunPass, locals
  <2> QED
    BY <1>4, <2>1, <2>2 DEF Execute
<1>5. CASE Schedule
  <2>1. CASE StartRun(Scheduler)
    BY <1>2, <2>1
  <2>2. CASE TickerFires \/ EndRound
    BY <1>0, <1>1, <2>2, Apart DEF TickerFires, EndRound, locals
  <2>3. ASSUME NEW id \in TaskIds, LookAtTask(id) PROVE OneRunPerTask'
    BY <1>0, <1>1, <2>3, Apart DEF LookAtTask, FindTask
  <2> QED
    BY <1>5, <2>1, <2>2, <2>3 DEF Schedule
<1>6. CASE TimePasses \/ Start \/ UNCHANGED vars
  BY <1>0, <1>1, <1>6 DEF TimePasses, Start, vars, locals
<1>7. CASE Stop
  BY <1>7 DEF Stop, Each
<1> QED
  BY <1>3, <1>4, <1>5, <1>6, <1>7 DEF Next

(* A status "running" is written by the goroutine that will overwrite it,  *)
(* and a request writes none.                                              *)
LEMMA RealStep == Inv /\ [Next]_vars => RunningIsReal'
<1> SUFFICES ASSUME Inv, [Next]_vars, stops' = 0 PROVE RunningIsReal'
  BY DEF RunningIsReal
<1> USE DEF TypeOK, PlaceInv, Goto, Threads
<1> DEFINE Says(id)   == id \in DOMAIN state.tasks /\ state.tasks[id].last_status = "running"
           Reports(s) == at[s] \in {"sync", "report"}
<1>0. TypeOK /\ PlaceInv /\ RunningIsReal
  BY DEF Inv
<1>1. stops = 0
  <2>1. CASE Stop
    BY <1>0, <2>1, BoundsAreNat DEF Stop
  <2>2. CASE ~Stop
    BY <2>2
    DEF Next, Request, Execute, Schedule, ConnectionSave, ConnectionDelete, TaskSave, TaskDelete,
        TaskRun, SettingsSave, NewRequest, TaskUpsert, StartRun, Save, FindConnection, MarkRunning,
        Report, Unmark, RunPass, TickerFires, EndRound, LookAtTask, TimePasses, Start, vars, bounds
  <2> QED
    BY <2>1, <2>2
<1>2. \A id \in TaskIds : Says(id) => \E s \in Slots : item[s] = id /\ Reports(s)
  BY <1>0, <1>1 DEF RunningIsReal, Runs, States
<1>3. ASSUME state' \in States,
             \A id \in TaskIds :
               Says(id)' => \E s \in Slots : item'[s] = id /\ Reports(s)'
      PROVE  RunningIsReal'
  BY <1>3, TaskOfTable DEF RunningIsReal, Runs, States
<1>4. state' \in States
  BY TypeStep
<1>5. ASSUME \A id \in TaskIds : Says(id)' => Says(id),
             \A s \in Slots : Reports(s) => Reports(s)' /\ item'[s] = item[s]
      PROVE  RunningIsReal'
  BY <1>2, <1>3, <1>4, <1>5
<1>6. ASSUME NEW r \in Requests, Request(r) PROVE RunningIsReal'
  <2>1. ASSUME \A id \in TaskIds : Says(id)' => Says(id) PROVE RunningIsReal'
    <3>1. \A s \in Slots : Reports(s) => Reports(s)' /\ item'[s] = item[s]
      BY <1>0, <1>6, Apart
      DEF Request, ConnectionSave, ConnectionDelete, TaskSave, TaskDelete, TaskRun, FindTask,
          SettingsSave, NewRequest, ChangeAndSave, TaskUpsert, StartRun, Spawn, Save, locals
    <3> QED
      BY <1>5, <2>1, <3>1
  <2>2. CASE state' = state
    BY <2>1, <2>2
  <2>3. ASSUME NEW c \in Connections, ConnectionSave(r, c) \/ ConnectionDelete(r, c)
        PROVE  RunningIsReal'
    <3>1. CASE ConnectionSave(r, c)
      BY <1>0, <2>1, <3>1 DEF ConnectionSave, ChangeAndSave, UpsertConnection, States
    <3>2. CASE ConnectionDelete(r, c)
      <4>1. PICK ids \in SUBSET DOMAIN state.tasks : state'.tasks = Restrict(state.tasks, ids)
        BY <1>0, <3>2 DEF ConnectionDelete, ChangeAndSave, DeleteConnection, States
      <4> QED
        BY <2>1, <4>1 DEF Restrict
    <3> QED
      BY <2>3, <3>1, <3>2
  <2>4. ASSUME NEW id \in TaskIds, TaskDelete(r, id) PROVE RunningIsReal'
    BY <1>0, <2>1, <2>4, TaskOfTable DEF TaskDelete, ChangeAndSave, DeleteTask, Restrict, States
  <2>5. ASSUME NEW i \in Intervals, SettingsSave(r, i) PROVE RunningIsReal'
    BY <1>0, <2>1, <2>5 DEF SettingsSave, ChangeAndSave, SetSettings, States
  <2>6. CASE TaskUpsert(r)
    <3>1. PICK t \in task[r] : state' = UpsertTask(item[r], t) /\ t.last_status # "running"
      BY <1>0, <2>6 DEF TaskUpsert, ChangeAndSave
    <3>2. state'.tasks = [i \in DOMAIN state.tasks \cup {item[r]} |->
                            IF i = item[r] THEN t ELSE state.tasks[i]]
      BY <1>0, <3>1 DEF UpsertTask, States
    <3> QED
      BY <2>1, <3>1, <3>2
  <2>7. CASE StartRun(r) \/ Save(r, "idle")
    BY <2>2, <2>7 DEF StartRun, Save
  <2> QED
    BY <1>6, <2>2, <2>3, <2>4, <2>5, <2>6, <2>7 DEF Request, TaskSave, TaskRun
<1>7. ASSUME NEW s \in Slots, Execute(s) \/ RunPass(s) PROVE RunningIsReal'
  <2>1. \A o \in Slots : o # s => at'[o] = at[o] /\ item'[o] = item[o]
    BY <1>0, <1>7
    DEF Execute, FindConnection, MarkRunning, Report, Save, Unmark, RunPass, locals
  <2>2. CASE MarkRunning(s)
    <3>1. /\ item[s] \in TaskIds /\ item' = item /\ Reports(s)' /\ ~Reports(s)
          /\ state' = UpdateTaskStatus(item[s], "running", now)
      BY <1>0, <2>2 DEF MarkRunning, locals
    <3>2. \A id \in TaskIds : Says(id)' => Says(id) \/ id = item[s]
      BY <1>0, <3>1, UpdatedState DEF Statuses
    <3> QED
      BY <1>2, <1>3, <1>4, <2>1, <3>1, <3>2
  <2>3. CASE Report(s)
    <3>1. /\ item[s] \in TaskIds /\ item' = item
          /\ outcome[s] \in Statuses /\ outcome[s] # "running"
          /\ state' = UpdateTaskStatus(item[s], outcome[s], now)
      BY <1>0, <2>3 DEF Report, locals, Statuses
    <3>2. \A id \in TaskIds : Says(id)' => Says(id) /\ id # item[s]
      BY <1>0, <3>1, UpdatedState
    <3> QED
      BY <1>2, <1>3, <1>4, <2>1, <3>1, <3>2
  <2>4. CASE RunPass(s)
    BY <1>0, <1>5, <2>4 DEF RunPass
  <2>5. CASE FindConnection(s) \/ Save(s, "unmark") \/ Unmark(s)
    BY <1>0, <1>5, <2>5 DEF FindConnection, Save, Unmark, locals
  <2> QED
    BY <1>7, <2>2, <2>3, <2>4, <2>5 DEF Execute
<1>8. CASE Schedule
  <2>1. CASE TickerFires \/ EndRound
    BY <1>0, <1>5, <2>1, Apart DEF TickerFires, EndRound, locals
  <2>2. CASE StartRun(Scheduler)
    BY <1>0, <1>5, <2>2, Apart DEF StartRun, Spawn
  <2>3. ASSUME NEW id \in TaskIds, LookAtTask(id) PROVE RunningIsReal'
    BY <1>0, <1>5, <2>3, Apart DEF LookAtTask, FindTask
  <2> QED
    BY <1>8, <2>1, <2>2, <2>3 DEF Schedule
<1>9. CASE TimePasses \/ Start \/ Stop \/ UNCHANGED vars
  <2>1. ~Stop /\ ~Start
    BY <1>0, <1>1, BoundsAreNat DEF Stop, Start
  <2> QED
    BY <1>5, <1>9, <2>1 DEF TimePasses, vars, locals
<1> QED
  BY <1>6, <1>7, <1>8, <1>9 DEF Next

(* The invariant of the runner. *)
THEOREM Invariance == Spec => []Inv
<1>1. Inv /\ [Next]_vars => Inv'
  BY TypeStep, PlaceStep, OneRunStep, RealStep DEF Inv
<1> QED
  BY <1>1, InitInv, PTL DEF Spec

(* The server's variables have their types in every reachable state.       *)
THEOREM TypeCorrect == Spec => []TypeOK
  BY Invariance, PTL DEF Inv

(* runner.go:121-126: a task has one run at a time, and its mark exactly   *)
(* as long, whoever asks for it and whatever is deleted or replaced.       *)
THEOREM TaskHasOneRun == Spec => []OneRunPerTask
  BY Invariance, PTL DEF Inv

(* Until the process is restarted, a status "running" is true.             *)
THEOREM RunningIsTrue == Spec => []RunningIsReal
  BY Invariance, PTL DEF Inv
=============================================================================
