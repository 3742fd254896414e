------------------------------- MODULE Runner --------------------------------
(***************************************************************************)
(* The web server (internal/web): requests that change the store or run a  *)
(* task (api.go, store.go), the goroutines that run tasks and the          *)
(* scheduler (runner.go), and the life of the process (server.go).         *)
(*                                                                         *)
(* Saving is one step here, which may also fail or be overtaken: Store is  *)
(* about how a state gets to disk, and about the saves after which there   *)
(* is no start.  A sync pass is one step that succeeds or fails, at some   *)
(* time or never: SyncTask is about what happens in it.                    *)
(***************************************************************************)
EXTENDS Integers, Functions

CONSTANTS
  Connections, TaskIds,   \* the IDs newID may return
  Intervals,              \* sync intervals in ticks; 0 in a task is "the default"
  Edits,                  \* what the task editor may send: [enabled, interval]
  Requests, Slots,        \* the threads: requests under way and task goroutines
  StartStates,            \* the stored states the process may first start with
  MaxTime, MaxRequests, MaxStops     \* bounds on the environment

Scheduler == "scheduler"
Threads   == Requests \cup Slots \cup {Scheduler}

\* time.Time{}: the task did not run yet.  "none" is the empty string.
Never    == -1
Statuses == {"none", "running", "ok", "error"}
Tasks    == [connection : Connections, enabled : BOOLEAN, interval : Intervals \cup {0},
             last_run : 0..MaxTime \cup {Never}, last_status : Statuses]

Tables   == UNION {[ids -> Tasks] : ids \in SUBSET TaskIds}
States   == [connections : SUBSET Connections, tasks : Tables, interval : Intervals]

ASSUME RunnerAssumption ==
  /\ Requests \cap Slots = {} /\ Scheduler \notin Requests \cup Slots
  /\ "none" \notin TaskIds
  /\ Intervals \subseteq Nat \ {0} /\ 1 \in Intervals
  /\ Edits \subseteq [enabled : BOOLEAN, interval : Intervals \cup {0}]
  /\ StartStates \subseteq States
  /\ \A s \in StartStates : \A id \in DOMAIN s.tasks : s.tasks[id].last_status # "running"
  /\ {MaxTime, MaxRequests, MaxStops} \subseteq Nat

VARIABLES
  state,      \* s.state
  file,       \* the state last saved
  running,    \* r.running
  at,         \* thread -> where it is
  item,       \* thread -> the task ID it is about, "none" for none
  task,       \* thread -> the task record it holds: {} or {record}
  outcome,    \* goroutine -> how its run ended, "none" before that
  snapshot,   \* the scheduler's copy of the state: tasks still to be looked at
  up,         \* the process is alive
  now,        \* the clock, in ticks
  requests, stops

locals == <<item, task, outcome>>
bounds == <<now, requests, stops>>
vars   == <<state, file, running, at, locals, snapshot, up, bounds>>

Each(threads, value) == [th \in threads |-> value]
Goto(th, point)      == at' = [at EXCEPT ![th] = point]

defaultState == [connections |-> {}, tasks |-> [id \in {} |-> id], interval |-> 1]

Init ==
  /\ state \in StartStates /\ file = state
  /\ at = Each(Threads, "idle")
  /\ item = Each(Threads, "none") /\ task = Each(Threads, {}) /\ outcome = Each(Slots, "none")
  /\ running = {} /\ snapshot = defaultState
  /\ up = TRUE /\ now = 0 /\ requests = 0 /\ stops = 0

-----------------------------------------------------------------------------
(* What the operations under the store's mutex do to the state. *)
UpsertConnection(c) == [state EXCEPT !.connections = @ \cup {c}]

\* The tasks of the connection go with it.
DeleteConnection(c) ==
  [state EXCEPT !.connections = @ \ {c},
                !.tasks = Restrict(@, {id \in DOMAIN @ : @[id].connection # c})]

UpsertTask(id, t) ==
  [state EXCEPT !.tasks = [i \in DOMAIN @ \cup {id} |-> IF i = id THEN t ELSE @[i]]]

DeleteTask(id) == [state EXCEPT !.tasks = Restrict(@, DOMAIN @ \ {id})]

SetSettings(interval) == [state EXCEPT !.interval = interval]

\* A task that is gone is left alone.
UpdateTaskStatus(id, status, time) ==
  IF id \in DOMAIN state.tasks
  THEN [state EXCEPT !.tasks[id].last_status = status, !.tasks[id].last_run = time]
  ELSE state

-----------------------------------------------------------------------------
(* Requests.  Bodies are decoded and valid; what is refused before it      *)
(* touches anything is left out.                                           *)
NewRequest(r) ==
  /\ up /\ at[r] = "idle" /\ requests < MaxRequests
  /\ requests' = requests + 1
  /\ UNCHANGED <<file, running, outcome, snapshot, up, now, stops>>

\* The handler changes the store and goes on to save it.
ChangeAndSave(r, s) == state' = s /\ Goto(r, "save")

ConnectionSave(r, c) ==
  /\ NewRequest(r)
  /\ ChangeAndSave(r, UpsertConnection(c))
  /\ UNCHANGED <<item, task>>

\* Tasks may refer to a connection that is not there; they go all the same, but
\* nothing is saved when no connection was deleted.
ConnectionDelete(r, c) ==
  /\ NewRequest(r)
  /\ state' = DeleteConnection(c)
  /\ Goto(r, IF c \in state.connections THEN "save" ELSE "idle")
  /\ UNCHANGED <<item, task>>

\* The connection is looked up before the task is stored.
TaskSave(r, id, c, e) ==
  /\ NewRequest(r) /\ c \in state.connections
  /\ item' = [item EXCEPT ![r] = id]
  /\ task' = [task EXCEPT ![r] = {[connection |-> c, enabled |-> e.enabled,
                                   interval |-> e.interval,
                                   last_run |-> Never, last_status |-> "none"]}]
  /\ Goto(r, "upsert")
  /\ UNCHANGED state

\* The whole record is replaced, last_run and last_status included.
TaskUpsert(r) ==
  /\ at[r] = "upsert"
  /\ \E t \in task[r] : ChangeAndSave(r, UpsertTask(item[r], t))
  /\ item' = [item EXCEPT ![r] = "none"] /\ task' = [task EXCEPT ![r] = {}]
  /\ UNCHANGED <<file, running, outcome, snapshot, up, bounds>>

TaskDelete(r, id) ==
  /\ NewRequest(r) /\ id \in DOMAIN state.tasks
  /\ ChangeAndSave(r, DeleteTask(id))
  /\ UNCHANGED <<item, task>>

SettingsSave(r, interval) ==
  /\ NewRequest(r)
  /\ ChangeAndSave(r, SetSettings(interval))
  /\ UNCHANGED <<item, task>>

\* Save, and for a request the answer, whatever becomes of the save: the file
\* has the state now, or stays as it was when the save fails or an older copy
\* is renamed over it.
Save(th, next) ==
  /\ at[th] = "save"
  /\ file' \in {state, file}
  /\ Goto(th, next)
  /\ UNCHANGED <<state, running, locals, snapshot, up, bounds>>

-----------------------------------------------------------------------------
(* RunTask, called by a request or by the scheduler.                       *)

\* r.store.Task(id)
FindTask(th, id) ==
  /\ id \in DOMAIN state.tasks
  /\ item' = [item EXCEPT ![th] = id]
  /\ task' = [task EXCEPT ![th] = {state.tasks[id]}]
  /\ Goto(th, "start")

TaskRun(r, id) ==
  /\ NewRequest(r)
  /\ FindTask(r, id)
  /\ UNCHANGED state

\* The caller goes on: the request is answered, the scheduler looks at the
\* next task.
Caller(th) == IF th = Scheduler THEN "look" ELSE "idle"

\* A goroutine takes the task over from th.
Spawn(th) ==
  \E s \in Slots :
    /\ at[s] = "idle"
    /\ at' = [at EXCEPT ![th] = Caller(th), ![s] = "connect"]
    /\ item' = [item EXCEPT ![th] = "none", ![s] = item[th]]
    /\ task' = [task EXCEPT ![th] = {}, ![s] = task[th]]

\* Mutant of StartRun: the mark is set without a look at it.
StartRunAnyway(th) ==
  /\ at[th] = "start"
  /\ running' = running \cup {item[th]}
  /\ Spawn(th)
  /\ UNCHANGED <<state, file, outcome, snapshot, up, bounds>>

\* Under r.mu: a task that is marked is refused, else it is marked and gets a
\* goroutine.
StartRun(th) ==
  /\ at[th] = "start"
  /\ \/ /\ item[th] \in running
        /\ Goto(th, Caller(th))
        /\ item' = [item EXCEPT ![th] = "none"] /\ task' = [task EXCEPT ![th] = {}]
        /\ UNCHANGED running
     \/ /\ item[th] \notin running
        /\ running' = running \cup {item[th]}
        /\ Spawn(th)
  /\ UNCHANGED <<state, file, outcome, snapshot, up, bounds>>

-----------------------------------------------------------------------------
(* execute, in a goroutine of its own. *)

\* A connection that is not there any more is reported after the mark.
FindConnection(s) ==
  /\ at[s] = "connect"
  /\ \E t \in task[s] :
       outcome' = [outcome EXCEPT ![s] =
                     IF t.connection \in state.connections THEN "none" ELSE "error"]
  /\ task' = [task EXCEPT ![s] = {}]
  /\ Goto(s, "mark")
  /\ UNCHANGED <<state, file, running, item, snapshot, up, bounds>>

MarkRunning(s) ==
  /\ at[s] = "mark"
  /\ state' = UpdateTaskStatus(item[s], "running", now)
  /\ Goto(s, IF outcome[s] = "error" THEN "report" ELSE "sync")
  /\ UNCHANGED <<file, running, locals, snapshot, up, bounds>>

\* s.Run(ctx), for as long as it takes.
RunPass(s) ==
  /\ at[s] = "sync"
  /\ \E o \in {"ok", "error"} : outcome' = [outcome EXCEPT ![s] = o]
  /\ Goto(s, "report")
  /\ UNCHANGED <<state, file, running, item, task, snapshot, up, bounds>>

\* Mutant of Report: a failed run leaves the status alone.
ReportSuccess(s) ==
  /\ at[s] = "report"
  /\ state' = IF outcome[s] = "ok" THEN UpdateTaskStatus(item[s], "ok", now) ELSE state
  /\ Goto(s, "save")
  /\ UNCHANGED <<file, running, locals, snapshot, up, bounds>>

Report(s) ==
  /\ at[s] = "report"
  /\ state' = UpdateTaskStatus(item[s], outcome[s], now)
  /\ Goto(s, "save")
  /\ UNCHANGED <<file, running, locals, snapshot, up, bounds>>

\* Mutant of Unmark: the mark stays.
EndUnmarked(s) ==
  /\ at[s] = "unmark"
  /\ Goto(s, "idle")
  /\ item' = [item EXCEPT ![s] = "none"] /\ outcome' = [outcome EXCEPT ![s] = "none"]
  /\ UNCHANGED <<state, file, running, task, snapshot, up, bounds>>

\* The deferred delete(r.running, id).
Unmark(s) ==
  /\ at[s] = "unmark"
  /\ running' = running \ {item[s]}
  /\ Goto(s, "idle")
  /\ item' = [item EXCEPT ![s] = "none"] /\ outcome' = [outcome EXCEPT ![s] = "none"]
  /\ UNCHANGED <<state, file, task, snapshot, up, bounds>>

-----------------------------------------------------------------------------
(* ScheduleLoop. *)
scheduleInterval(t, default) == IF t.interval = 0 THEN default ELSE t.interval

IsDue(t, default) ==
  /\ t.enabled
  /\ t.last_run = Never \/ now - t.last_run >= scheduleInterval(t, default)

\* The ticker fires: a snapshot of all tasks.
TickerFires ==
  /\ up /\ at[Scheduler] = "idle"
  /\ snapshot' = state
  /\ Goto(Scheduler, "look")
  /\ UNCHANGED <<state, file, running, locals, up, bounds>>

\* One task of the snapshot, against what is running now.
LookAtTask(id) ==
  /\ at[Scheduler] = "look" /\ id \in DOMAIN snapshot.tasks
  /\ snapshot' = [snapshot EXCEPT !.tasks = Restrict(@, DOMAIN @ \ {id})]
  /\ \/ /\ IsDue(snapshot.tasks[id], snapshot.interval) /\ id \notin running
        /\ \/ FindTask(Scheduler, id)
           \/ id \notin DOMAIN state.tasks /\ UNCHANGED <<at, item, task>>
     \/ /\ ~IsDue(snapshot.tasks[id], snapshot.interval) \/ id \in running
        /\ UNCHANGED <<at, item, task>>
  /\ UNCHANGED <<state, file, running, outcome, up, bounds>>

EndRound ==
  /\ at[Scheduler] = "look" /\ DOMAIN snapshot.tasks = {}
  /\ snapshot' = defaultState
  /\ Goto(Scheduler, "idle")
  /\ UNCHANGED <<state, file, running, locals, up, bounds>>

-----------------------------------------------------------------------------
(* The process and its time.  Run does not wait for the task goroutines, so *)
(* an orderly stop interrupts them where they are, like a crash.           *)
TimePasses ==
  /\ now < MaxTime
  /\ now' = now + 1
  /\ UNCHANGED <<state, file, running, at, locals, snapshot, up, requests, stops>>

Stop ==
  /\ up /\ stops < MaxStops
  /\ stops' = stops + 1
  /\ up' = FALSE
  /\ state' = defaultState
  /\ at' = Each(Threads, "idle")
  /\ item' = Each(Threads, "none") /\ task' = Each(Threads, {}) /\ outcome' = Each(Slots, "none")
  /\ running' = {} /\ snapshot' = defaultState
  /\ UNCHANGED <<file, now, requests>>

\* Run, with LoadStore.
Start ==
  /\ ~up
  /\ up' = TRUE /\ state' = file
  /\ UNCHANGED <<file, running, at, locals, snapshot, bounds>>

Request(r) ==
  \/ \E c \in Connections : ConnectionSave(r, c) \/ ConnectionDelete(r, c)
  \/ \E id \in TaskIds :
       \/ \E c \in Connections, e \in Edits : TaskSave(r, id, c, e)
       \/ TaskDelete(r, id) \/ TaskRun(r, id)
  \/ \E i \in Intervals : SettingsSave(r, i)
  \/ TaskUpsert(r) \/ StartRun(r) \/ Save(r, "idle")

Execute(s) ==
  FindConnection(s) \/ MarkRunning(s) \/ Report(s) \/ Save(s, "unmark") \/ Unmark(s)

Schedule == \/ TickerFires \/ EndRound \/ StartRun(Scheduler)
            \/ \E id \in TaskIds : LookAtTask(id)

Next ==
  \/ \E r \in Requests : Request(r)
  \/ \E s \in Slots : Execute(s) \/ RunPass(s)
  \/ Schedule \/ TimePasses \/ Stop \/ Start

Spec == Init /\ [][Next]_vars

\* The ticker keeps firing and goroutines are scheduled.  That a pass returns
\* is not assumed.
FairSpec == Spec /\ WF_vars(Schedule) /\ \A s \in Slots : WF_vars(Execute(s))

-----------------------------------------------------------------------------
Points == {"idle", "upsert", "start", "connect", "mark", "sync", "report", "save", "unmark",
           "look"}

TypeOK ==
  /\ {state, file, snapshot} \subseteq States
  /\ running \subseteq TaskIds
  /\ at \in [Threads -> Points]
  /\ item \in [Threads -> TaskIds \cup {"none"}]
  /\ task \in [Threads -> SUBSET Tasks]
  /\ outcome \in [Slots -> {"none", "ok", "error"}]
  /\ up \in BOOLEAN
  /\ now \in 0..MaxTime /\ requests \in 0..MaxRequests /\ stops \in 0..MaxStops

Runs(id) == {s \in Slots : at[s] # "idle" /\ item[s] = id}

(* runner.go:121-126.  However requests and the scheduler race, a task has *)
(* one run at a time, and the mark is there exactly as long.               *)
OneRunPerTask ==
  \A id \in TaskIds : /\ \A s, o \in Runs(id) : s = o
                      /\ id \in running <=> Runs(id) # {}

(* A task that says "running" is being run by a goroutine that will say    *)
(* otherwise, whatever is deleted, replaced or asked for meanwhile, as     *)
(* long as the process has not been restarted.                             *)
RunningIsReal ==
  stops = 0 =>
    \A id \in DOMAIN state.tasks :
      state.tasks[id].last_status = "running" =>
        \E s \in Runs(id) : at[s] \in {"sync", "report"}

(* Who may be where, and what a thread holds there. *)
PlaceInv ==
  /\ \A r \in Requests : at[r] \in {"idle", "upsert", "start", "save"}
  /\ \A s \in Slots : at[s] \in {"idle", "connect", "mark", "sync", "report", "save", "unmark"}
  /\ at[Scheduler] \in {"idle", "look", "start"}
  /\ \A th \in Threads : at[th] \in {"start", "upsert"} => item[th] \in TaskIds
  /\ \A s \in Slots : at[s] # "idle" => item[s] \in TaskIds
  /\ \A r \in Requests :
       at[r] = "upsert" => \A t \in task[r] : t.last_status # "running"
  /\ stops = 0 => up

Inv == TypeOK /\ PlaceInv /\ OneRunPerTask /\ RunningIsReal

Due(id) ==
  up /\ id \in DOMAIN state.tasks /\ IsDue(state.tasks[id], state.interval)

(* A due task does not stay due: it is run, changed or deleted, unless a   *)
(* pass never returns.  No race leaves it marked or overlooked for ever.   *)
DueTasksRun ==
  (\A s \in Slots : []<>(at[s] # "sync")) => \A id \in TaskIds : Due(id) ~> ~Due(id)
=============================================================================
