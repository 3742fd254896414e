# OpenlistSync in TLA+

A verification project kept beside OpenlistSync, the program that keeps local
directories and directories of an OpenList server in step. It has models of the
program's own logic, TLC configurations that check them on small instances,
theorems about them that TLAPS proves for every instance, and this file. Paths
are relative to the repository; line numbers are those of the commit modelled.

## 1. Inventory

| Part (source) | State | Operations | Talks to |
|---|---|---|---|
| Planner (`internal/syncer/planner.go`) | none: settings and two scans in, jobs out | `plan`, `planPull`, `planPush`, `planCleanupLocal`, `planCleanupRemote` | filter; called by a pass |
| File filter (`filter.go`) | patterns, types | `NewFilter`, `Match`, `MatchLocal` | planner |
| Tree scans (`tree.go`) | the tree being built | `remoteTree`, `localTree` | client, file system |
| Worker pool (`pool.go`) | channel, failure counter, first error | `runPool` | a pass, its transfer functions, the context |
| Rate limiter (`pool.go`) | tokens, refill goroutine | `Wait`, `Stop` | every transfer |
| Sync pass (`syncer.go`) | plan, directory cache, the two trees | `syncTask`, `withRetry`, `downloadOne`, `uploadOne`, `finalizeDownload`, `Ensure` | all of the above |
| OpenList client (`internal/client/client.go`) | token | `ListAll`, `GetInfo`, `Mkdir`, `Remove`, `Upload`, `OpenDownload`, login | server |
| Task store (`internal/web/store.go`) | connections, tasks, settings; a JSON file | load, save, upsert, delete, status | API, runner |
| Runner and scheduler (`runner.go`, `server.go`) | set of running tasks | `RunTask`, `execute`, `ScheduleLoop` | store, a pass |
| Web API (`api.go`), log buffer (`logs.go`) | none; the last lines | handlers; `Add`, `Snapshot`, `Clear` | store, runner |
| Daemon (`internal/daemon`), configuration (`internal/config`), command line (`cmd`) | last run, its error, a running flag | tick, health; parse; dispatch | a pass |
| Web interface (`internal/web/static`), container files | – | presentation, packaging | API |

How they work together: the command line, the daemon's ticker or the web
runner builds a configuration and calls `Syncer.Run`, which runs `syncTask` for
each task. A pass lists the remote tree, scans the local one, plans, makes
directories, downloads and uploads in two pools of goroutines, and last removes.
Everything it knows about earlier passes is what is in the two trees and in
`.part` files: sizes, times and names. That is where the difficulty lies:

* **concurrency**: pools of goroutines over an unbuffered channel, with
  cancellation at any moment; users who edit both trees while a pass runs;
* **failure**: every request may fail, before or after it took effect; bodies
  break off; the process dies between any two steps; directories that could not
  be made are only logged;
* **order**: plan, transfers and removals work on scans that are out of date;
* **repetition**: what a pass leaves behind (times, `.part` files, empty
  directories) is the next pass's input, and two-way sync feeds on itself.

What makes each part correct:

* planner: nothing is both transferred and removed; files are removed on the
  receiving side only; an empty plan means the trees mirror each other; the
  older copy never replaces the newer one against the policy;
* pool: each function once, none after cancellation, an exact report, and an
  end;
* pass: removal only after every transfer; no file disappears from a side that
  is read; the newest content survives; "ok" and "up to date" mean what they
  say; passes settle;
* download: what gets the final name and the listed time is the listed file;
* client: one login at a time, no login over a good token, a retry that does not
  repeat what was refused, calls that end;
* scans: whatever was there all the time is in the tree, nothing else but what was
  there at some time;
* limiter: all streams together keep the limit, and cancellation is not stuck in
  it;
* configuration: what is accepted can be run, by whichever front end, and means
  the same after a restart;
* daemon: its health says whether a task of the last pass failed; a signal ends
  it;
* store and runner: a save publishes a state that was current, a file that can
  be loaded again, one run per task, no run of a deleted task, no task without
  its connection, a status that is true after a restart.

`PROJECT.json` lists the hazards one by one at the lines where they bite.

## 2. Modules

    Filter <- Planner <- PlannerSpec    one call of plan
                      <- SyncTask       passes over two trees
                      <- Download       one file, block by block
    Batch  <- WorkerPool                runPool, and what it promises
    Client                              the token that goroutines share
    Listing                             scans of a tree that changes
    RateLimiter <- Daemon               passes, their transfers and the loop
    Config                              both front ends' settings
    DurableStore <- Store               how the web store gets to disk
    Runner                              requests, task runs, the scheduler
    PlannerLemmas, PlannerProofs, WorkerPoolProofs, SyncTaskProofs,
    ClientProofs (Listing and Client), RunnerProofs,
    DiskProofs (Download and Store),
    FrontEndProofs (Config and Daemon)  theorems
    MCPlanner, MCWorkerPool, MCSyncTask, MCDownload, MCClient, MCListing,
    MCDaemon, MCConfig, MCStore, MCRunner
                                        instances for TLC

**Filter, Planner.** Operators with the names of the Go functions. A tree is a
function from paths (sequences of names) to entries; a plan is a set of jobs. A
glob is the set of names it matches. Times are integers, `NoTime` is a missing
one, `Tolerance` is `mtimeTolerance`. `wantsDownload` and `wantsUpload` are the
branches of `planPull` and `planPush` for a file both sides have.

**PlannerSpec.** One plan of arbitrary settings and scans. `Closed` is what the
recursion of `remoteTree` guarantees; the local scan does not (it records no
directory named `*.part` and yet walks it), so nothing of the kind is assumed of
local trees.

**WorkerPool** has the producer and the workers, one action per channel
operation, check, call and critical section. `ctx.Err()` is read where the code
reads it. A function ends with success, an error or a context error. **Batch** is
what `syncTask` relies on: functions that start at most once and not after
cancellation, and one exact report. `ImplementsBatch` is the refinement.

**SyncTask** has passes of one task. State: the two trees, the scans of the
pass, the jobs to do, running, done and failed, `ctx.Err()`, the last result.

| Action | Code |
|---|---|
| `Begin`, `ListRemote`, `ListFails`, `ScanAndPlan` | `syncer.go:57-96`, up to the two early returns; `ListFails` is a failing listing or local walk |
| `MkdirRemote`, `MkdirLocal`, `EndMkdir` | phase 1, `syncer.go:98-115`; `PartlyMade` is an `Ensure` that fails on its way |
| `StartJob`, `Aborted`, `FailAttempt`, `Succeed` | the pool and `withRetry` |
| `DownloadFetch`, `DownloadFault`, `RenamePart`, `SetListedTime` | `downloadOne`, `finalizeDownload`; `os.Chtimes` may fail, which nobody notices |
| `UploadOpen`, `UploadPut`, `UploadFault`, `AlignTime` | `uploadOne`; a request may fail after the server stored the file; the time is that of whatever entry `GetInfo` finds, and setting it may fail |
| `EndDownloads`, `EndUploads` | the pools return; failures end the pass |
| `RmLocalFile`, `RmLocalDir`, `RmRemote`, `EndPass` | phase 4 |
| `Cancel`, `Crash`, `UserWrites`, ... | the environment |

A file's content is the time a user wrote it, so "newer" is a fact the model
knows and the program has to guess from times and sizes. Abstractions, each on
purpose: a listing is one step; a download takes the remote file of one moment
(interrupted bodies and `.part` files are Download's subject); users replace a
file in one step and write further apart than the tolerance; the server dates an
upload with its own clock, which is also the local one, and refuses to replace a
file without the `Overwrite` header; `Ensure`'s cache of created directories is
left out, and a `PUT` makes the parents.

`UsersChangeKinds` says whether users make directories where files were and the
other way round; `EditsDuringPass` whether they touch the trees while a pass runs.

**Download** has one file over many passes: `.part`, the final file, the body
being copied, the server's current version. A file is the sequence of its
blocks and each block knows its version and place, so a mixture shows. The body
of a 206 answer is written where the code writes it: at the start of `.part`.
A crash leaves what is on disk; a change of the remote file may come between any
two steps.

**Client** has the token of one `Client` and the goroutines that use it. `c.token`
is read without the mutex by `ensureAuth` and by every request, so each read and
each of the two writes (`loginLocked`, `invalidateToken`) is a step; a token is the
number of the login that gave it, 0 is none. A Go string is two words and the
reads race with the writes: `Tear` has one of the words written, and whoever takes
a header from a torn string ends the process (`died`).

| Action | Code |
|---|---|
| `EnsureAuth`, `TakeLock`, `Login`, `LoginFails` | `ensureAuth`, `loginLocked` (`client.go:104-152`): a look at the token, the lock, a second look, the login |
| `ReadHeader`, `Serve`, `ServeFails`, `End` | a request of `doJSON`, `openDownload` or `Upload` and its answer |
| `LockToWipe`, `Wipe` | a 401 on the first attempt: `invalidateToken`, whatever token is there by then |
| `AskSign`, `UseSign` | `openDownload` after a second 401: `GetInfo` for a fresh sign, up to three times (`client.go:388-394`) |
| `Expire` | the server lets a token expire |

`Upload` begins at `ReadHeader`: it neither makes sure of a token nor logs in again.

**Listing** is one scan, remote or local, of a tree that users change meanwhile. The
remote walk asks for pages of `per` names by number, and the names slide when one
is deleted before the page; the local walk reads a directory at once and looks at
each file when it gets there (`d.Info`). What existed all the time, what existed at
some time, what a deletion slid onto a page already read (`shifted`) and what a
server without `has_more` never offers (`cut`) are history variables, in which the
property is stated. Users do not create again what they deleted during the scan.
A tree is a set of numbered entries with a parent each; an entry's `Ancestors` are what
every whole tree with it has, and its `Place` in a listing is its rank among the names
of its directory.

**RateLimiter** is the bucket: the tick, `Wait` with its polls, the chunk a reader or
writer asks for, `Stop`. Time is counted in ticks of 100 ms. **Daemon** composes it
with everything around a pass: the loop with its ticker and `select`, `Syncer.Run`
over several tasks, and their transfers, which enter `Wait` for each chunk and do not
notice a cancellation inside it. The subcommand `sync` is one round of the loop. An
upload whose request is over leaves the goroutine of the HTTP client that reads the
body in `Wait` (`CutUpload`): it still takes its tokens. A task is its two transfer
phases here, since what a pass does is SyncTask's subject and how a pool works is
WorkerPool's. The limit is positive (without one there is no limiter), and so is the
interval.

**Config** has the two ways settings come to a pass: `Parse` for the command line and
the records of the web server, with the handlers that validate and replace them,
`LoadStore`, and `buildConfig` for a run. The operators have the names of the Go
functions. A text is a member of a small set (empty, blank, a value the code knows,
another one), a number is itself or one that does not parse, a task line is well
formed, lacks a part or lacks its leading slash: what the code tells apart. The
extension lists and switches that only change the output are left out.

**Store** is `Save` step by step: the copy under the read lock, `os.WriteFile` as
open-and-empty and write, `os.Rename`. All saves share one `.tmp`; a thread that
has it open keeps writing to the same file after another thread renamed it
(`fd`). A state is the number of changes that made it, and a file is missing,
empty, whole or torn; when a text is written over another one that was not
emptied, the rest of a longer one may show through (`Over`). `Stop` is the end of
the process anywhere; `LoadStore` reads what is there or refuses. `SaveFails` is any
failing step: the directory, opening `.tmp`, the write (which leaves a torn file) or the
rename. A file that is there and cannot be read, which `LoadStore`
takes for a missing one (`store.go:89`), is left out. **DurableStore** is
what callers of `Save` and a restart rely on: a state in memory, the state a start would
load, and what was answered. `Save` publishes some state between the one that is there
and the present one, `Answer` answers only what is published unless a save has
failed, `Start` continues from it. Once two saves overlap nothing is promised.

**Runner** has the state itself. The operations of the store are operators on it,
the threads are requests, task goroutines and the scheduler.

| Action | Code |
|---|---|
| `ConnectionSave`, `ConnectionDelete`, `TaskSave` with `TaskUpsert`, `TaskDelete`, `SettingsSave` | the handlers of `api.go:221-369`; `TaskSave` looks the connection up, `TaskUpsert` stores the task, under two locks |
| `TaskRun`, `FindTask`, `StartRun` | `RunTask` (`runner.go:115-138`): the task is read, then the mark is taken under `r.mu` |
| `FindConnection`, `MarkRunning`, `RunPass`, `Report`, `Unmark` | `execute` and the deferred delete (`runner.go:141-178`) |
| `TickerFires`, `LookAtTask`, `EndRound` | `ScheduleLoop`: a snapshot, then one task after the other against what is running now |
| `Save` | `store.go:109`, see below |
| `Stop`, `Start`, `TimePasses` | `server.go`, the clock |

`Save` is one step in Runner: the file becomes the current state, or stays as it
was. The second case stands for a failed write and for an older copy renamed over
a newer one: a slow save that publishes what it copied long ago is the trace in
which it saved at once and the saves after it left the file alone, for nobody
reads the file while the process is up. Saves that leave a file `LoadStore`
refuses are Store's subject; after one there is no start. `newID` returns any ID,
so a new task and an edited one are the same action. What the editor sends has no
`last_run` (`static/app.js:777-791`), and the record replaces the stored one. A
pass is one step with either outcome, at some time or never.

## 3. Runs

Passing runs (`cfg` of the same name; states are distinct states):

| Run | Bounds | States | Shows |
|---|---|---|---|
| `MCPlanner` | 3 × 4 × 4 settings, 4 filters, all pairs of 40 remote and 29 local trees over `a.mp4`, `d`, `d/x.txt` | 460,800 | nothing is both transferred and removed, an empty plan mirrors, removals stay on the receiving side, the winner's copy goes over the loser's |
| `MCWorkerPool` | 4 functions, 3 workers | 532,726 | each function once, an exact report, the refinement of Batch; it returns, and cancellation ends it |
| `MCSyncTask` | 49 settings (one with a filter), one file and an empty directory, 2 edits between passes, 1 failure, 1 stop or crash | 727,773 | times order the contents of the copies, "up to date" is true, the newest content survives, an older one replaces a newer one only by the policy, the task settles |
| `MCSyncTaskKinds` | two-way, mirrors, cleanup of the source, dry run; files against directories, users who turn one into the other during passes | 1,410,091 | sources are left alone, removal after all transfers, the inductive invariant, "ok" among it |
| `MCDownload` | 4 versions, 3 changes, 2 failures, 1 crash, with and without Range | 105,860 | "unchanged" means exact, `.part` never mixes without Range, the file is exact in the end, downloads come to an end |
| `MCClient` | 2 callers, 3 calls, 1 failure, stale sign or expired token; with and without a login, a token, a valid one | 285,041 | retries, anonymous requests, no login over a token, calls end |
| `MCListing` | 8 names, 2 directories, 2 names named `.part`, pages of 2, at most 2 of them, 2 changes | 298,895 | a scan lies between what always was and what ever was; scans end |
| `MCDaemon` | 2 tasks, 2 transfers a phase, 2 chunks each, a bucket of 3, 2 passes, 1 signal | 525,312 | the limit holds, health is honest, a signal ends the program |
| `MCConfig` | flags and environment one group of settings at a time; 54 settings, 128 connections, all tasks with at most two odd fields | 10,668 | what is accepted can be run, flags shadow the environment, restarts change nothing |
| `MCStore` | 3 threads (symmetric), 4 changes, 1 failing save, 2 stops | 806,373 | a save that is alone is durable; the refinement of DurableStore |
| `MCRunner` | one connection, one task, 2 requests, 2 goroutines, the scheduler, 2 instants, 1 restart | 639,017 | one run per task, "running" is true, what is due is run |

Why these bounds are enough to be worth something. The planner decides about a path from
the entries of that path and, for directories, of what is below it: two sizes, times on
either side of the tolerance and exactly on it, and one level of nesting give every
branch. In the pool a third worker is the first that can run between two others. A pass is
interesting when one job fails, one is skipped and one is carried out, hence two workers,
two or three paths, and one failure, stop and edit or two; more edits only repeat passes
from states a first pass can already begin with (`StartRemote`, `StartLocal`). Contents
four ticks apart have equal sizes, so that a size alone never gives a change away. In the
Download run sizes repeat among versions for the same reason. Of three saves one can
rename what the second emptied while the third still writes. In Runner tasks meet only in
the store, so one task shows what its editing, deletion, run and schedule do to each
other; a second request comes while the first one's run is under way, and the scheduler is
the other caller of `RunTask`. Two goroutines would be enough to run the task twice. In
Client one caller's late 401 meets another's login, and a third call begins with what the
two left; one expiry or stale sign is enough to refuse a token a login has just brought.
In Listing two names make a page and the third page is one too many, so that a name can
slide over a page boundary and the runaway limit is met. In Daemon a chunk is up to two
thirds of the bucket: two streams that want one have to share, and a cut upload competes
with both; the second pass finds what the first one left behind. In Config a refusal or a
default depends on one setting, or on the three of the credentials, or on the four sources
of tasks, each of which is varied as a whole. The theorems cover any number of each, where
there are any.

Some properties are stated of quiet circumstances because the code keeps them only there,
and say so themselves or by a constant of their run: `UnchangedMeansExact` of transfers
that were not interrupted, `PartIsPrefix` (in Download's `Inv`) of servers without Range,
`NewestSurvives`, `OlderOnlyByPolicy` and `UpToDateMeansSameContent` of users who edit
between passes, `Settles` of users who do not turn files into directories,
`SourceKeepsEveryFile` but for directories that became files, `AnsweredIsDurable` of saves
that do not overlap, `RunningIsReal` until the process stops, `DueTasksRun` of passes that
return, `ScanIsBetween` but for what slid or was not offered, `AnonymousOnlyIfDiscarded`
of requests other than uploads, `HealthIsHonest` of passes that no signal cut short, as
far as untried tasks go, `AcceptedIsUsable` of the numbers only of what the web server
builds. `EventuallyExact` is checked with `conflict=remote`: under `newest` a crash
between the rename and `os.Chtimes` of a resumed download leaves a damaged file that looks
newer than its source.

One run expects a violation: `MCDownload_Resume`, `RenamedWhenComplete`. `README.md:20`
says that a download continues from `.part` and is renamed when complete; the tail a 206
answer brings is written over the beginning (`syncer.go:242` opens without `O_APPEND` and
nothing seeks), the byte count matches, and the wrong bytes get the final name.

More differences between code and documents, or surprises without a document, met
while modelling. They have no run of their own:

* conflict policies (`README.md:114`): `skip` does not skip a file whose copies differ, and
  `local` and `remote` do not make their side authoritative, because each half of the plan
  asks the policy only where the copy it would replace is the newer one (`planner.go:122`,
  `171`). A two-way pass with `local` downloads a newer remote file over the local one,
  and the upload planned for it sends back what was downloaded: the local content is lost.
  What does remain of the policies is `WinnerReplacesLoser` for one plan and
  `OlderOnlyByPolicy` for whole passes; neither asks for a transfer that the README rules
  out;
* an excluded media type does not protect a local file from cleanup (`README.md:115`): the
  cleanup asks `MatchLocal` (`planner.go:202`), which knows names only (`filter.go:122`);
* the green badge (`syncer.go:149`, "otherwise the green badge would lie"): a stopped
  pass skips transfers without an error and ends "ok" (`pool.go:135`, `153`);
* the store (`store.go:80`, "persists State to a JSON file with a mutex"): two saves share
  one `.tmp` that no lock protects, so an empty or torn file can get the store's name,
  and the server does not start again (`store.go:89`); `AnsweredIsDurable` is stated of
  saves that do not overlap;
* a store file that cannot be read (permissions, an I/O error) counts as none: the server
  starts empty, and its first save replaces the file (`store.go:89`);
* without a remote time, equal sizes are downloaded in every pass
  (`planner.go:136`), while the push skips them (`planner.go:166`); `UpToDateIffMirrored`
  counts such a file as never mirrored;
* under `conflict=remote` the push still plans an upload the pull decided against
  (`planner.go:171`); it sends back what was downloaded, and where the download failed
  the local copy goes over the remote one that should have won;
* the rename replaces an edit made after the scan (`syncer.go:283`), and the
  aligned time hides an edit of equal size made after the `PUT` (`syncer.go:326`);
* the "rmdir" deletes a file that took the directory's place (`syncer.go:169`);
* a `.part` of another version with the right size is taken as complete
  (`syncer.go:225`);
* uploads do not log in again after a 401 (`client.go:274`, against `README.md:118`);
  a late 401 discards the token another goroutine has just obtained, and a stale sign
  makes a download discard a good one (`client.go:381`), whence requests without a
  token;
* a file that slides over a page boundary, or that a server without `has_more` does not
  offer, is missing from the scan, and a cleanup takes it for deleted
  (`client.go:242`);
* each task of the web server has a limiter of its own, so tasks that run together
  exceed the limit that `README.md:21` calls global (`runner.go:163`); the body reader
  of an upload that was cut off polls a stopped limiter for ever (`pool.go:53`);
* `--dry-run=false` does not win over `SYNC_DRY_RUN=1`, and `OPENLIST_TASKS` wins over
  `--remote-path` (`config.go:142`, `149`, against "flags win" at `config.go:55`);
  `FlagsShadowEnvironment` is about the flags that have a value;
* the command line accepts negative `Retries`, with which nothing is tried and all
  succeeds (`syncer.go:189`), and an interval of zero, with which the daemon panics
  after its first pass (`daemon.go:89`);
* the web server saves `retries=0` and runs with 3 (`runner.go:109`); it checks neither
  types nor download mode, and a task's negative rate means no limit; a blank task
  interval is accepted and means one hour, not the interval of the settings
  (`api.go:455`, `runner.go:195`);
* a signal between two tasks makes `sync` exit 0 with tasks untried
  (`syncer.go:43`); "previous sync still running" (`daemon.go:57`) cannot happen, the
  loop being one goroutine;
* saving a task forgets when it last ran, so it is due at the next tick, and its
  status while it runs (`api.go:308`);
* a connection deleted between look-up and store leaves a task without one, whose
  runs end with an error (`api.go:304`);
* a status "running" that was saved before the process ended stays in the
  file, and nothing corrects it until the task runs again (`runner.go:144`).

**Deadlock.** Download's configurations switch the check off: an idle task with
an up-to-date file stops. So do Store's: with a file that cannot be loaded, or
with all its changes made, the system stops. A client whose calls are used up, a
command line that was parsed and a program that returned have nothing more to do
either (Client, Config, Daemon). Everywhere else TLC looks for deadlocks; the
scheduler alone keeps Runner going while the process is up, and a scan that is over
stutters by an action of its own (`Ended`).

**Fairness.** `SyncTask!FairSpec`: passes are begun again and again (the daemon's
ticker, `ScheduleLoop`), and a pass goes on, because timers fire and every request ends:
the transport waits a bounded time for the headers (`client.go:84-97`), and that a body
arrives or breaks off once they are there (`client.go:121`, `185`) is an assumption
about the network, which no code enforces. Failures, stops and edits are bounded by
constants, not by fairness: `Settles` is a promise for when they are over.
`Download!FairSpec` is the same for one file. In `WorkerPool` goroutines are scheduled,
receivers are fair only as a group, and a function is *not* assumed to return, for a
body has no read timeout: `Returns` has that as its premise, and `StopsOnCancel` does
without, since a request ends when its context does. `Runner!FairSpec`: the ticker fires
and the scheduler's loop goes on, task goroutines are scheduled; neither requests nor
restarts are fair, and `RunPass` is not: `DueTasksRun` has "no goroutine stays in its
pass" as its premise. `Client!FairSpec`: every caller goes on, since the mutex of Go
does not starve a waiter, headers have a timeout and bodies are assumed to arrive, the
one of a login (`client.go:121`, under the mutex) too; expiry and failures are not fair.
`Listing!FairSpec`: the scan goes on, users need not. `Daemon!FairSpec`: the loop, the
limiter's tick and the polls in `Wait` go on; a transfer is sure to go on only once it
is cancelled, for until then its peer may stall; it may still charge the rest of its
buffer before it ends (`pool.go:84-95`); `select` takes the cancellation in the end
though ticks keep coming (strong fairness of `Leave`: it chooses at random when both are
ready).

**Mutants.** For every property of a passing run there is a mutant, a
plausible mistake in the code, as an operator before the one it replaces, under
which the run fails. `PROJECT.json` pairs them.

## 4. Theorems

TLAPS proves these for every value of the constants that meets the modules'
assumptions (which TLC evaluates on each instance).

* **PlannerProofs**: `TypeCorrect`, `RemovalsOnReceivingSide`,
  `CleanupAndTransfersDisjoint`, `UpToDateIsMirrored`, `WinnerWins`.
  The invariant `PlanInv`
  says that the plan is `plan` of the scans; the rest is about that operator and
  rests on lemmas that say what each part of a plan contains (PlannerLemmas). That
  no directory being removed is a download's target needs `Closed` remote trees:
  a download's ancestors are in the remote tree, a removed directory is not.
* **WorkerPoolProofs**: `TypeCorrect`, `Invariance`, `NoSharing`,
  `ReportIsExact`, `PoolImplementsBatch`, `WorkShrinks`, `PoolNeverStuck`. `ExactReport` speaks of the end only;
  the inductive `Inv` adds who holds which function (`HeldInv`, `StateInv`), what
  a closed channel means (`CloseInv`), and that the counter is the number of
  failures whose worker has passed `fail.Add` (`ReportInv`). The refinement maps
  steps of the program counters to stutters.
  The last two are what `Returns` and `StopsOnCancel` need besides fairness: a step
  uses up one of the `N` indices or brings a goroutine nearer to its end, and until
  `runPool` returns somebody has a step to make. `NeverStuck` is about the guards of the
  steps, written out in `CanStep`, because `ENABLED` cannot be expanded in a proof; that a
  worker leaves only after `close(jobs)` (`CloseInv`) is why no send waits for ever.
* **SyncTaskProofs**: `OkIsTransferred`, `RemovalsComeLast`, `SourceIsKept`,
  `SourceIsLeftAlone`, `TypeCorrect`, `TimesOrderContents`, `UpToDateIsTrue`,
  `NewestIsKept`, `OlderIsByPolicy`. The
  inductive `Inv`: every planned transfer is to do, done or failed (`PlanInv`),
  jobs run in the transfer phases only (`PoolInv`), and a phase leaves nothing
  behind but for a cancellation (`BarrierInv`). `RemovalsComeLast` needs the
  barrier and the guard `~cancelled` of the removals together: a cancelled pool
  leaves jobs out without an error. `SourceIsKept` adds the planner's lemma that
  removals are planned on the receiving side; its exception, a local directory of
  the scan that has become a file, is the one the code has. `SourceIsLeftAlone` needs
  that a dry run enters no phase (`DryRunInv`) and the lemma that the jobs of a one-way
  plan go one way. `TypedInv` adds the types: trees and scans are functions from paths
  to entries, and entries carry contents the clock has reached.

  The last four are about users who edit between passes only, and about first trees
  that are dated truly (`OrderedStart`); together these are `Quiet`, which TLC finds true
  of the instance `MCSyncTask` (`QuietInstance`). Under it `OrderInv` is inductive. Of
  two copies the clearly newer one has the newer content and copies of one age are the
  same (`AgesInv`): that is what makes it right to compare times at all. It holds at
  every point of a pass because a transfer carries its source's content to the end
  (`CarriesInv`), although between a rename and `os.Chtimes`, or between a `PUT` and
  the aligned time, the copy is dated too young: the other side then has the same content,
  and if the pass ends there the next one plans from a copy that looks newer and is no
  older. `ScansInv` says that a quiet pass acts on scans that are still true but for
  what it did itself, and `PolicyInv` that no job still to do replaces a newer content but
  by the policy that names its side, which is where the planner's comparison and the order
  of the trees meet. `NewestIsKept` and `OlderIsByPolicy` are then statements about single
  steps, and `UpToDateIsTrue` about the step that finds an empty plan.
* **ClientProofs** has what the client answers from: the pages of its listings, and its token.
  For Listing `ListingInvariance` and `ScanHolds`, for every tree, page size and
  number of changes. `CoveredInv` carries the argument: what is there all the time, and is
  not hidden, is seen already, or it or a directory above it is still before the walk
  (`Pending`: in a list the loop has not reached, among the items of the pages read, or on a
  page to come), or slid or was not offered. `SeenInv` says that the walk got to
  everything through directories it returns. That each deletion slides at most one entry
  (`SlidInv`) is arithmetic on places: a deletion moves the later entries of its directory by
  one, places are unique, and only one place is the first of the next page. A listing has
  every entry once because an injection of a finite set into as many places is onto
  (`ListingPlaces`), which needs no induction.
  For Client `Invariance`, `AnonymousIsDiscarded`, `TokenKept`,
  `CallsTakeFewSteps`, `CallersNeverStuck`. The mutex is held by
  whoever is in `loginLocked` or `invalidateToken` (`LockInv`), so there is no token while
  a login is under way (`LoginInv`): that is `TokenKept`. A retry differs from what was
  refused because a token that is there was issued after every refusal whose caller
  has not returned (`NewerInv`).
  `CallsTakeFewSteps` and `CallersNeverStuck` are the same two halves for `CallsEnd`: other
  goroutines may take a call's token away at any moment, and still each step of its own
  brings it nearer to its end (at most `MostSteps` = 440, a bound that counts every
  retry's second login and is not tight), and whoever waits for the mutex waits for a
  caller who does not. The measure is the attempts left, then the place in the attempt;
  it needs that a `GetInfo` inside a call starts no call in turn and that only a first
  attempt wipes (`FitInv`).
* **FrontEndProofs** has what surrounds a pass: its settings and the loop that repeats it.
  For Config `AcceptedCanRun`, `FlagsWin` and `RestartKeepsSettings`, for every set of
  command lines, environments and requests of the right shape (`ConfigAssumption`),
  where TLC varies one group of settings at a time. Nothing validates
  what `buildConfig` makes; that it is usable all the same rests on `KeptInv`, what the
  handlers let into the store and every later one leaves true, with the defaults of
  `normalizeConfig` for what they let through. A restart turns no retries into three
  (`LoadStoreKeeps`), and so does `normalizeConfig`: that is why no run notices.
  For the daemon `TypeCorrect`, `RateHolds`, `HealthHolds`. `RateBound` is inductive as it
  stands: a refill adds at most what the meter drains, a grant moves bytes from one
  to the other. Health rests on `PassInv`: the counter, the results and the number of
  tasks begun agree at every point of the loop.
* **DiskProofs** has what is written under another name first and renamed when it is
  complete: downloads and the web store's file.
  For Download `DownloadInvariance` and `UnchangedIsExact`. Neither `PartIsPrefix` nor
  `UnchangedMeansExact` says anything of a body under way; `StreamInv` does: a whole body
  writes behind exactly the blocks it has put into `.part`, so those begin its version, and
  with a server that ignores Range every body is whole. `CleanInv` follows a download
  without interruptions: the size check lets through only all blocks of one version, at
  least as new as the listed one whose time it gets. A local file with the time of
  the current version is then that version, since versions are dated further apart than
  the tolerance. Sizes are arbitrary, 0 and repeated ones included.
  For Store `StoreInvariance`, `StoreTypeCorrect`, `AnswersAreDurable`, `StoreIsDurable`.
  The file alone does not carry the argument: `AloneInv` follows a
  lone save through `.tmp` (empty when it writes, its own copy when it renames) and orders
  file, copy and state; `DurableInv` says where each change is that is not yet
  answered. The rename publishes a copy that is at least as new as both the file
  and the change behind it. In the refinement of DurableStore the rename is its `Save`, the
  steps before it are stutters, and a file that `LoadStore` would refuse maps to a state
  the abstract store never has: loading is part of the promise.
* **RunnerProofs**: `Invariance`, `TypeCorrect`, `TaskHasOneRun`,
  `RunningIsTrue`. `OneRunPerTask` is inductive because it is an equivalence: a
  mark without a goroutine or the reverse would break it in the next step.
  `RunningIsReal` rests on it (a report is about the one run of its task) and on
  `PlaceInv` (what a handler is about to store never says "running").

The theorems with `Quiet` are the only ones with a hypothesis beyond the modules' named
assumptions.

Only model-checked: all liveness (`Settles`, `EventuallyExact`, `Returns`,
`StopsOnCancel`, `CallsEnd`, `ScanEnds`, `StopReturns`, `DueTasksRun`; fairness and
`ENABLED` are out of the prover's reach), and `RenamedWhenComplete`, which is false.
Of the liveness of the pool and of the calls the proofs hold the part without fairness:
only that a goroutine with a step to make makes it, and a function or a request in flight
ends, is left to the runs.

## 5. Not modelled, and the plan

What is left, in this order:

1. **RemoteDirs**: `Ensure` with its cache, shared by the upload goroutines. It matters
   only for servers whose `PUT` does not make parents.
2. **Two tasks in one directory**, which would share `.part` files: nothing keeps them
   apart (`syncer.go:217`), and nothing promises anything.

The instances above are kept few, one for each question; a new module brings one
instance, or joins one that is there when its questions are about the same
interleavings.

Left out for good: the browser interface, listing and browsing handlers, log and
error texts, container files, `config/web.go` (three texts). They keep no state the
rest depends on. The log buffer is a list under one mutex: every method is one
critical section. The health endpoint's server and the one of the web interface are
`net/http`'s. The connection test, which writes defaults into a stored connection without
the lock (`api.go:277`), is a data race on fields no model tells apart.
