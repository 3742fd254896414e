-------------------------------- MODULE Daemon --------------------------------
(***************************************************************************)
(* The daemon loop (internal/daemon/daemon.go) around Syncer.Run           *)
(* (internal/syncer/syncer.go), whose tasks' transfers share a rate        *)
(* limiter; the sync subcommand (cmd/openlist-sync/main.go) is one pass of *)
(* it.  A task is its two transfer phases: WorkerPool and SyncTask have    *)
(* the rest of it.                                                         *)
(***************************************************************************)
EXTENDS RateLimiter

CONSTANTS T,         \* len(cfg.Tasks)
          Jobs,      \* the transfers of a phase, each with a goroutine
          Cuts,      \* request bodies still read after their request is over
          Size,      \* bound: the chunks of a transfer
          MaxRuns    \* bound on passes

ASSUME TAssumption == T \in Nat
ASSUME BoundsAssumption == Size \in Nat /\ MaxRuns \in Nat
ASSUME StreamsAssumption == Streams = Jobs \cup Cuts /\ Jobs \cap Cuts = {}

Tasks == 1..T

VARIABLES
  sub,        \* the subcommand, sync or daemon
  main,       \* begin, tasks, down, up, record, select or returned
  ctxErr,     \* the process was told to stop
  ticked,     \* the ticker's channel holds a tick
  task,       \* how many tasks of this pass were begun
  failed,     \* how many of them failed
  bad,        \* a download of this task failed
  job,        \* transfer -> running, ok, failed or skipped
  left,       \* transfer -> chunks to move
  result,     \* task -> what became of it in this pass
  running, lastErr, runCount    \* status, or the exit of sync in lastErr
status   == <<running, lastErr, runCount>>
passVars == <<task, failed, bad, result>>
jobVars  == <<job, left>>
vars     == <<limiterVars, sub, main, ctxErr, ticked, passVars, jobVars, status>>

Init ==
  /\ LimiterInit
  /\ sub \in {"sync", "daemon"}
  /\ main = "begin" /\ ctxErr = FALSE /\ ticked = FALSE
  /\ task = 0 /\ failed = 0 /\ bad = FALSE
  /\ job = [j \in Jobs |-> "ok"] /\ left = [j \in Jobs |-> 0]
  /\ result = [t \in Tasks |-> "untried"]
  /\ running = FALSE /\ lastErr = FALSE /\ runCount = 0

-----------------------------------------------------------------------------
(* The loop and Syncer.Run, one goroutine. *)

\* run() and syncer.New. running is never found set: the loop has one goroutine.
Begin ==
  /\ main = "begin"
  /\ main' = "tasks" /\ running' = TRUE
  /\ NewRateLimiter
  /\ task' = 0 /\ failed' = 0 /\ bad' = FALSE
  /\ result' = [t \in Tasks |-> "untried"]
  /\ UNCHANGED <<sub, ctxErr, ticked, jobVars, lastErr, runCount>>

\* A phase's transfers begin, some of them with nothing to move.
StartPhase(phase) ==
  /\ main' = phase
  /\ job' = [j \in Jobs |-> "running"]
  /\ left' \in [Jobs -> 0..Size]

\* A task whose trees cannot be listed fails before its transfers.
ListFails ==
  /\ main = "tasks" /\ task < T /\ ~ctxErr
  /\ task' = task + 1 /\ failed' = failed + 1
  /\ result' = [result EXCEPT ![task + 1] = "failed"]
  /\ UNCHANGED <<limiterVars, sub, main, ctxErr, ticked, bad, jobVars, status>>

Downloads ==
  /\ main = "tasks" /\ task < T /\ ~ctxErr
  /\ task' = task + 1 /\ bad' = FALSE
  /\ StartPhase("down")
  /\ UNCHANGED <<limiterVars, sub, ctxErr, ticked, failed, result, status>>

PhaseOver == \A j \in Jobs : job[j] # "running"
Failures  == \E j \in Jobs : job[j] = "failed"

Uploads ==
  /\ main = "down" /\ PhaseOver
  /\ bad' = Failures
  /\ StartPhase("up")
  /\ UNCHANGED <<limiterVars, sub, ctxErr, ticked, task, failed, result, status>>

\* Mutant of EndTask: the last task decides.
EndTaskAlone ==
  /\ main = "up" /\ PhaseOver
  /\ main' = "tasks"
  /\ failed' = IF bad \/ Failures THEN 1 ELSE 0
  /\ result' = [result EXCEPT ![task] = IF bad \/ Failures THEN "failed" ELSE "ok"]
  /\ UNCHANGED <<limiterVars, sub, ctxErr, ticked, task, bad, jobVars, status>>

\* syncTask returns an error when a transfer of either phase failed.
EndTask ==
  /\ main = "up" /\ PhaseOver
  /\ main' = "tasks"
  /\ failed' = IF bad \/ Failures THEN failed + 1 ELSE failed
  /\ result' = [result EXCEPT ![task] = IF bad \/ Failures THEN "failed" ELSE "ok"]
  /\ UNCHANGED <<limiterVars, sub, ctxErr, ticked, task, bad, jobVars, status>>

\* The loop over the tasks ends or breaks; the deferred Stop.
EndPass ==
  /\ main = "tasks" /\ (task = T \/ ctxErr)
  /\ main' = "record"
  /\ Stop
  /\ UNCHANGED <<sub, ctxErr, ticked, passVars, jobVars, status>>

\* The end of run(), or of main.
Record ==
  /\ main = "record"
  /\ main' = IF sub = "sync" THEN "returned" ELSE "select"
  /\ running' = FALSE /\ lastErr' = (failed > 0) /\ runCount' = runCount + 1
  /\ UNCHANGED <<limiterVars, sub, ctxErr, ticked, passVars, jobVars>>

\* select takes either case when both are ready.
TakeTick ==
  /\ main = "select" /\ ticked /\ runCount < MaxRuns
  /\ main' = "begin" /\ ticked' = FALSE
  /\ UNCHANGED <<limiterVars, sub, ctxErr, passVars, jobVars, status>>

Leave ==
  /\ main = "select" /\ ctxErr
  /\ main' = "returned"
  /\ UNCHANGED <<limiterVars, sub, ctxErr, ticked, passVars, jobVars, status>>

\* The ticker starts after the first pass and drops ticks nobody takes.
Tick ==
  /\ sub = "daemon" /\ runCount > 0 /\ main # "returned"
  /\ ~ticked /\ ticked' = TRUE
  /\ UNCHANGED <<limiterVars, sub, main, ctxErr, passVars, jobVars, status>>

\* Mutant of Interrupt: the limiter is stopped with the context.
InterruptStopsLimiter ==
  /\ ~ctxErr /\ ctxErr' = TRUE
  /\ Stop
  /\ UNCHANGED <<sub, main, ticked, passVars, jobVars, status>>

\* A signal cancels the context.  A download notices when it is through with the
\* buffer it holds, which rateWriter charges chunk by chunk (pool.go:84-95).
Interrupt ==
  /\ ~ctxErr /\ ctxErr' = TRUE
  /\ UNCHANGED <<limiterVars, sub, main, ticked, passVars, jobVars, status>>

-----------------------------------------------------------------------------
(* The transfers. *)

End(j, outcome) == job' = [job EXCEPT ![j] = outcome]

\* rateWriter and rateReader: each chunk waits for its tokens.
Copy(j) ==
  /\ job[j] = "running" /\ left[j] > 0
  /\ Enter(j)
  /\ left' = [left EXCEPT ![j] = @ - 1]
  /\ UNCHANGED <<sub, main, ctxErr, ticked, passVars, job, status>>

Take(s) ==
  /\ Grant(s)
  /\ UNCHANGED <<sub, main, ctxErr, ticked, passVars, jobVars, status>>

Succeed(j) ==
  /\ job[j] = "running" /\ left[j] = 0 /\ need[j] = 0
  /\ End(j, "ok")
  /\ UNCHANGED <<limiterVars, sub, main, ctxErr, ticked, passVars, left, status>>

\* A transfer that is not inside Wait fails, or its function is not called.
Fail(j) ==
  /\ job[j] = "running" /\ need[j] = 0
  /\ \/ End(j, "failed")
     \/ ctxErr /\ End(j, "skipped")
  /\ UNCHANGED <<limiterVars, sub, main, ctxErr, ticked, passVars, left, status>>

\* An upload's request ends while the HTTP client's own goroutine, which reads
\* the body, is inside Wait: the worker goes on and the reader stays.
CutUpload(j) ==
  /\ main = "up" /\ job[j] = "running" /\ need[j] > 0
  /\ \E c \in Cuts : /\ need[c] = 0
                     /\ need' = [need EXCEPT ![c] = need[j], ![j] = 0]
  /\ End(j, "failed")
  /\ UNCHANGED <<refilling, tokens, meter, sub, main, ctxErr, ticked, passVars, left, status>>

RefillTick == Refill /\ UNCHANGED <<sub, main, ctxErr, ticked, passVars, jobVars, status>>

Loop == Begin \/ ListFails \/ Downloads \/ Uploads \/ EndTask \/ EndPass \/ Record
          \/ TakeTick \/ Leave

Next == \/ Loop \/ Tick \/ Interrupt \/ RefillTick
        \/ \E s \in Streams : Take(s)
        \/ \E j \in Jobs : Copy(j) \/ Succeed(j) \/ Fail(j) \/ CutUpload(j)

Spec == Init /\ [][Next]_vars

\* Goroutines are scheduled and the ticker of the limiter ticks. Only a
\* cancelled transfer is sure to go on, with the chunks it still has to charge or
\* to its end: until then its peer may stall. When a
\* tick and a cancellation are both ready select may take either, each time
\* anew, so it takes the cancellation in the end.
Fairness ==
  /\ WF_vars(Loop) /\ SF_vars(Leave) /\ WF_vars(RefillTick)
  /\ \A s \in Streams : WF_vars(Take(s))
  /\ \A j \in Jobs : WF_vars(ctxErr /\ (Copy(j) \/ Fail(j)))

FairSpec == Spec /\ Fairness

-----------------------------------------------------------------------------
TypeOK ==
  /\ refilling \in BOOLEAN /\ tokens \in 0..Limit /\ meter \in Nat
  /\ need \in [Streams -> 0..Chunk]
  /\ sub \in {"sync", "daemon"}
  /\ main \in {"begin", "tasks", "down", "up", "record", "select", "returned"}
  /\ ctxErr \in BOOLEAN /\ ticked \in BOOLEAN
  /\ task \in 0..T /\ failed \in Nat /\ bad \in BOOLEAN
  /\ job \in [Jobs -> {"running", "ok", "failed", "skipped"}]
  /\ left \in [Jobs -> Nat]
  /\ result \in [Tasks -> {"untried", "ok", "failed"}]
  /\ running \in BOOLEAN /\ lastErr \in BOOLEAN /\ runCount \in Nat

(* The transfers of a pass, whoever they are and however they interleave,  *)
(* never send more in any stretch of time than one second's worth and what *)
(* the limit allows for its length: a meter that every granted byte fills  *)
(* and that drains at the limit's rate never exceeds one second's worth    *)
(* (--rate-limit, pool.go:33-65).                                          *)
RateBound == meter + tokens <= Limit

(* What /healthz answers between passes (and how sync exits): an error     *)
(* exactly when some task of the last pass failed, whichever it was and    *)
(* whatever later ones did; and unless the process is being stopped every  *)
(* task was tried (daemon.go:38, syncer.go:37-54).                         *)
HealthIsHonest ==
  ~running /\ runCount > 0 =>
    /\ lastErr <=> \E t \in Tasks : result[t] = "failed"
    /\ ~ctxErr => \A t \in Tasks : result[t] # "untried"

\* What holds in the course of a pass: the counter and the results agree, and
\* the tasks before the current one were tried, the ones after it not.
PassInv ==
  /\ running <=> main \in {"tasks", "down", "up", "record"}
  /\ running => (failed > 0 <=> \E t \in Tasks : result[t] = "failed")
  /\ running => \A t \in Tasks : t > task => result[t] = "untried"
  /\ running => \A t \in Tasks : t < task => result[t] # "untried"
  /\ main \in {"tasks", "record"} /\ task > 0 => result[task] # "untried"
  /\ main \in {"down", "up"} => task > 0 /\ result[task] = "untried"
  /\ main = "record" => task = T \/ ctxErr

(* A signal ends the program although Wait ignores the context: whoever    *)
(* sleeps in Wait is granted its chunk, because the bucket is refilled     *)
(* until the last transfer of the pass is over, and then notices           *)
(* (pool.go:49, syncer.go:38).                                             *)
StopReturns == ctxErr ~> main = "returned"
=============================================================================
