------------------------------ MODULE SyncTask -------------------------------
(***************************************************************************)
(* Passes of one task (Syncer.syncTask, internal/syncer/syncer.go) over a  *)
(* remote and a local tree that users edit: list, scan, plan, make         *)
(* directories, download, upload, remove.  Requests fail, passes are       *)
(* cancelled, and the next pass starts from what the last one left.        *)
(*                                                                         *)
(* A file's content is the time it was written by a user, so later content *)
(* is newer.  Transfers run as a pool of at most Concurrency jobs (see     *)
(* WorkerPool for how); a download fetches the remote file of one moment   *)
(* and DownloadFault is a request that fails before a byte is stored (see  *)
(* Download for interrupted bodies and .part files).                       *)
(***************************************************************************)
EXTENDS Planner

CONSTANTS
  Configs,          \* settings: [direction, cleanup, conflict, filter, dryRun]
  StartRemote,      \* the trees the first pass may meet
  StartLocal,
  StartTime,        \* no entry of them is younger
  UserFiles,        \* the paths users write and delete
  SizeOf,           \* function: content -> size
  Concurrency,      \* cfg.Concurrency
  Retries,          \* cfg.Retries
  EditsDuringPass,  \* whether users may edit while a pass runs
  UsersChangeKinds, \* whether users may put a directory where a file was, a file
                    \* where an empty directory was
  MaxEdits, MaxFaults, MaxStops     \* bounds on the environment

\* The entries of a tree; the content of a directory is 0.
Contents == DOMAIN SizeOf
Entries  == [isDir : BOOLEAN, size : Nat, mtime : Int, type : MediaTypes \cup {"unknown"},
             content : Contents]
Paths    == Seq(STRING) \ {<< >>}
IsTree(tree) == \A rel \in DOMAIN tree : rel \in Paths /\ tree[rel] \in Entries

ASSUME SyncAssumption ==
  /\ Concurrency \in Nat \ {0}
  /\ Retries \in Nat
  /\ {MaxEdits, MaxFaults, MaxStops, StartTime} \subseteq Nat
  /\ {EditsDuringPass, UsersChangeKinds} \subseteq BOOLEAN
  /\ \A c \in Configs : c.direction \in Directions
ASSUME TreesAssumption ==
  /\ SizeOf \in [Contents -> Nat] /\ 0 \in Contents
  /\ \A n \in 0..MaxEdits : StartTime + n * (Tolerance + 1) \in Contents
  /\ UserFiles \subseteq Paths
  /\ \A tree \in StartRemote \cup StartLocal : IsTree(tree)

VARIABLES
  cfg,          \* the task's settings
  remote,       \* the trees as they are
  local,
  now,          \* the clock of both sides
  pc,           \* idle, list, scan, mkdir, download, upload or remove
  seenRemote,   \* the scans of the current pass
  seenLocal,
  todo,         \* plan.Jobs not carried out yet
  running,      \* job in the pool -> [at, tries, content]
  done,         \* transfers that returned nil
  failed,       \* transfers that returned an error (dlFails + upFails)
  cancelled,    \* ctx.Err() # nil
  result,       \* how the last pass ended: see Results
  edits, faults, stops     \* how much of each bound is used

trees   == <<remote, local>>
seen    == <<seenRemote, seenLocal>>
pool    == <<todo, running, done, failed>>
bounds  == <<edits, faults, stops>>
vars    == <<cfg, trees, now, pc, seen, pool, cancelled, result, bounds>>

-----------------------------------------------------------------------------
(* Trees. *)
Entry(e, c)    == [isDir |-> e.isDir, size |-> e.size, mtime |-> e.mtime,
                   type |-> e.type, content |-> c]
Dir            == Entry(DirEntry(0), 0)
File(c, mtime) == Entry(FileEntry(SizeOf[c], mtime, "unknown"), c)

Put(f, x, y)    == [z \in DOMAIN f \cup {x} |-> IF z = x THEN y ELSE f[z]]
Without(f, xs)  == [z \in DOMAIN f \ xs |-> f[z]]

Ancestors(rel)         == {SubSeq(rel, 1, n) : n \in 1..(Len(rel) - 1)}
Blocked(tree, rel)     == \E p \in Ancestors(rel) : IsFile(tree, p)
Descendants(tree, rel) == {r \in DOMAIN tree : IsStrictPrefix(rel, r)}

\* MkdirAll of some paths; a file that is in the way stays.
WithDirs(tree, dirs) ==
  [r \in DOMAIN tree \cup dirs |-> IF r \in DOMAIN tree THEN tree[r] ELSE Dir]

\* What dirs.Ensure may leave when it fails on the way: some leading ancestors.
PartlyMade(tree, rel) ==
  {WithDirs(tree, {p \in Ancestors(rel) : Len(p) <= n}) : n \in 0..(Len(rel) - 1)}

IsTransfer(j) == j.kind \in {"download", "upload"}
Idle          == pc = "idle"

\* Consumes one of the failures the environment may cause.
Fault == faults < MaxFaults /\ faults' = faults + 1

\* A request under way fails, of itself or because the context ended.
RequestBreaks == Fault \/ (cancelled /\ UNCHANGED faults)

Init ==
  /\ cfg \in Configs
  /\ remote \in StartRemote /\ local \in StartLocal
  /\ now = StartTime
  /\ pc = "idle" /\ result = "never" /\ cancelled = FALSE
  /\ seenRemote = << >> /\ seenLocal = << >>
  /\ todo = {} /\ running = << >> /\ done = {} /\ failed = {}
  /\ edits = 0 /\ faults = 0 /\ stops = 0

-----------------------------------------------------------------------------
(* The pass up to the plan. *)

\* A scheduled or manual run calls syncTask with a fresh context.
Begin ==
  /\ Idle
  /\ pc' = "list" /\ result' = "running" /\ cancelled' = FALSE
  /\ seenRemote' = << >> /\ seenLocal' = << >>
  /\ todo' = {} /\ done' = {} /\ failed' = {}
  /\ UNCHANGED <<cfg, trees, now, running, bounds>>

ListRemote ==
  /\ pc = "list" /\ ~cancelled
  /\ seenRemote' = remote
  /\ pc' = "scan"
  /\ UNCHANGED <<cfg, trees, now, seenLocal, pool, cancelled, result, bounds>>

\* LocalDir cannot be made, the listing fails or was cancelled, localTree fails.
ListFails ==
  /\ pc \in {"list", "scan"}
  /\ \/ pc = "list" /\ cancelled /\ UNCHANGED faults
     \/ Fault
  /\ pc' = "idle" /\ result' = "error"
  /\ UNCHANGED <<cfg, trees, now, seen, pool, cancelled, edits, stops>>

\* Mutant of ScanAndPlan: a dry run does not return early.
ScanAndPlanInEarnest ==
  /\ pc = "scan"
  /\ seenLocal' = local
  /\ LET jobs == plan(cfg, seenRemote, local)
     IN  \/ /\ jobs = {}
            /\ pc' = "idle" /\ result' = "uptodate" /\ UNCHANGED todo
         \/ /\ jobs # {}
            /\ pc' = "mkdir" /\ todo' = jobs /\ UNCHANGED result
  /\ UNCHANGED <<cfg, trees, now, seenRemote, running, done, failed, cancelled, bounds>>

\* localTree, plan, and the two early returns that follow.
ScanAndPlan ==
  /\ pc = "scan"
  /\ seenLocal' = local
  /\ LET jobs == plan(cfg, seenRemote, local)
     IN  \/ /\ jobs = {}
            /\ pc' = "idle" /\ result' = "uptodate" /\ UNCHANGED todo
         \/ /\ jobs # {} /\ cfg.dryRun
            /\ pc' = "idle" /\ result' = "dryrun" /\ UNCHANGED todo
         \/ /\ jobs # {} /\ ~cfg.dryRun
            /\ pc' = "mkdir" /\ todo' = jobs /\ UNCHANGED result
  /\ UNCHANGED <<cfg, trees, now, seenRemote, running, done, failed, cancelled, bounds>>

-----------------------------------------------------------------------------
(* Phase 1: directories, the remote ones first.  Errors are only logged.   *)

\* dirs.Ensure: the directory and its ancestors, unless a file is in the way.
MkdirRemote(j) ==
  /\ pc = "mkdir" /\ j \in todo /\ j.kind = "mkdir_remote"
  /\ todo' = todo \ {j}
  /\ \/ /\ ~cancelled /\ ~Blocked(remote, j.rel)
        /\ remote' = WithDirs(remote, Ancestors(j.rel) \cup {j.rel})
        /\ UNCHANGED faults
     \/ Blocked(remote, j.rel) /\ UNCHANGED <<remote, faults>>
     \/ ~Blocked(remote, j.rel) /\ RequestBreaks /\ remote' \in PartlyMade(remote, j.rel)
  /\ UNCHANGED <<cfg, local, now, pc, seen, running, done, failed, cancelled,
                 result, edits, stops>>

MkdirLocal(j) ==
  /\ pc = "mkdir" /\ j \in todo /\ j.kind = "mkdir_local"
  /\ \A k \in todo : k.kind # "mkdir_remote"
  /\ todo' = todo \ {j}
  /\ local' = IF Blocked(local, j.rel) THEN local
              ELSE WithDirs(local, Ancestors(j.rel) \cup {j.rel})
  /\ UNCHANGED <<cfg, remote, now, pc, seen, running, done, failed, cancelled,
                 result, bounds>>

EndMkdir ==
  /\ pc = "mkdir"
  /\ \A k \in todo : k.kind \notin {"mkdir_remote", "mkdir_local"}
  /\ pc' = "download"
  /\ UNCHANGED <<cfg, trees, now, seen, pool, cancelled, result, bounds>>

-----------------------------------------------------------------------------
(* Phases 2 and 3: the pool and withRetry.                                 *)

\* runPool starts a function while the context is alive and a worker is free.
StartJob(j) ==
  /\ pc = j.kind /\ j \in todo \ DOMAIN running /\ IsTransfer(j)
  /\ ~cancelled /\ Cardinality(DOMAIN running) < Concurrency
  /\ running' = Put(running, j, [at |-> "try", tries |-> 0, content |-> 0])
  /\ UNCHANGED <<cfg, trees, now, pc, seen, todo, done, failed, cancelled, result, bounds>>

At(j, point) == j \in DOMAIN running /\ running[j].at = point

Advance(j, point, c) ==
  /\ running' = [running EXCEPT ![j].at = point, ![j].content = c]
  /\ UNCHANGED <<todo, done, failed>>

Succeed(j) ==
  /\ running' = Without(running, {j})
  /\ todo' = todo \ {j} /\ done' = done \cup {j} /\ UNCHANGED failed

\* An attempt returned an error: wait and try again, unless it was the last
\* one or the context ends the wait.
FailAttempt(j) ==
  \/ /\ running[j].tries < Retries /\ ~cancelled
     /\ running' = [running EXCEPT ![j] =
                      [at |-> "try", tries |-> running[j].tries + 1, content |-> 0]]
     /\ UNCHANGED <<todo, done, failed>>
  \/ /\ running[j].tries = Retries \/ cancelled
     /\ running' = Without(running, {j})
     /\ todo' = todo \ {j} /\ failed' = failed \cup {j} /\ UNCHANGED done

\* withRetry checks the context before every attempt.
Aborted(j) ==
  /\ cancelled /\ At(j, "try")
  /\ FailAttempt(j)
  /\ UNCHANGED <<cfg, trees, now, pc, seen, cancelled, result, bounds>>

-----------------------------------------------------------------------------
(* downloadOne and finalizeDownload.                                       *)

\* The server answers with a file of the expected size (any, if the listing
\* said 0).
Expected(j) ==
  /\ IsFile(remote, j.rel)
  /\ seenRemote[j.rel].size \in {0, remote[j.rel].size}

DownloadFetch(j) ==
  /\ j.kind = "download" /\ At(j, "try") /\ ~cancelled
  /\ \/ /\ Blocked(local, j.rel)          \* os.MkdirAll fails
        /\ FailAttempt(j)
        /\ UNCHANGED local
     \/ /\ ~Blocked(local, j.rel)
        /\ local' = WithDirs(local, Ancestors(j.rel))
        /\ \/ j.rel \notin DOMAIN remote /\ Succeed(j)     \* vanished remotely
           \/ Expected(j) /\ Advance(j, "fetched", remote[j.rel].content)
           \/ j.rel \in DOMAIN remote /\ ~Expected(j) /\ FailAttempt(j)
  /\ UNCHANGED <<cfg, remote, now, pc, seen, cancelled, result, bounds>>

DownloadFault(j) ==
  /\ j.kind = "download" /\ At(j, "try") /\ ~Blocked(local, j.rel)
  /\ RequestBreaks /\ FailAttempt(j)
  /\ local' = WithDirs(local, Ancestors(j.rel))
  /\ UNCHANGED <<cfg, remote, now, pc, seen, cancelled, result, edits, stops>>

\* finalizeDownload: os.Rename over whatever file is there now ...
RenamePart(j) ==
  /\ j.kind = "download" /\ At(j, "fetched")
  /\ \/ IsDir(local, j.rel) /\ FailAttempt(j) /\ UNCHANGED local
     \/ /\ ~IsDir(local, j.rel)
        /\ local' = Put(local, j.rel, File(running[j].content, now))
        /\ Advance(j, "renamed", running[j].content)
  /\ UNCHANGED <<cfg, remote, now, pc, seen, cancelled, result, bounds>>

SetTime(tree, rel, mtime) ==
  IF IsFile(tree, rel) /\ mtime # NoTime THEN [tree EXCEPT ![rel].mtime = mtime] ELSE tree

\* Mutant of SetListedTime: the file keeps the time of the rename.
KeepRenameTime(j) ==
  /\ j.kind = "download" /\ At(j, "renamed")
  /\ Succeed(j)
  /\ UNCHANGED <<cfg, trees, now, pc, seen, cancelled, result, bounds>>

\* ... and os.Chtimes to the time the listing gave, an error of which is ignored.
SetListedTime(j) ==
  /\ j.kind = "download" /\ At(j, "renamed")
  /\ Succeed(j)
  /\ \/ local' = SetTime(local, j.rel, seenRemote[j.rel].mtime) /\ UNCHANGED faults
     \/ Fault /\ UNCHANGED local
  /\ UNCHANGED <<cfg, remote, now, pc, seen, cancelled, result, edits, stops>>

-----------------------------------------------------------------------------
(* uploadOne. *)
UploadOpen(j) ==
  /\ j.kind = "upload" /\ At(j, "try") /\ ~cancelled
  /\ \/ j.rel \notin DOMAIN local /\ FailAttempt(j)
     \/ IsDir(local, j.rel) /\ Succeed(j)
     \/ IsFile(local, j.rel) /\ Advance(j, "opened", local[j.rel].content)
  /\ UNCHANGED <<cfg, trees, now, pc, seen, cancelled, result, bounds>>

\* Ensure of the parent, then PUT with the Overwrite header: without it the
\* server refuses to replace a file.
Accepts(j) ==
  /\ ~Blocked(remote, j.rel) /\ ~IsDir(remote, j.rel)
  /\ IsFile(remote, j.rel) => j.overwrite

Stored(j) ==
  Put(WithDirs(remote, Ancestors(j.rel)), j.rel, File(running[j].content, now))

UploadPut(j) ==
  /\ j.kind = "upload" /\ At(j, "opened") /\ ~cancelled
  /\ \/ Accepts(j) /\ remote' = Stored(j) /\ Advance(j, "put", running[j].content)
     \/ ~Accepts(j) /\ FailAttempt(j) /\ UNCHANGED remote
  /\ UNCHANGED <<cfg, local, now, pc, seen, cancelled, result, bounds>>

\* The request fails, before or after the server stored the file.
UploadFault(j) ==
  /\ j.kind = "upload" /\ At(j, "opened")
  /\ RequestBreaks /\ FailAttempt(j)
  /\ \/ Blocked(remote, j.rel) /\ UNCHANGED remote
     \/ ~Blocked(remote, j.rel) /\ remote' \in PartlyMade(remote, j.rel)
     \/ Accepts(j) /\ remote' = Stored(j)
  /\ UNCHANGED <<cfg, local, now, pc, seen, cancelled, result, edits, stops>>

\* GetInfo, and on success the local file takes the time of what the server has
\* there, a directory's too; errors of GetInfo and os.Chtimes are ignored.
AlignTime(j) ==
  /\ j.kind = "upload" /\ At(j, "put")
  /\ Succeed(j)
  /\ \/ /\ ~cancelled /\ j.rel \in DOMAIN remote
        /\ local' = SetTime(local, j.rel, remote[j.rel].mtime)
        /\ UNCHANGED faults
     \/ j.rel \notin DOMAIN remote /\ UNCHANGED <<local, faults>>
     \/ RequestBreaks /\ UNCHANGED local
  /\ UNCHANGED <<cfg, remote, now, pc, seen, cancelled, result, edits, stops>>

-----------------------------------------------------------------------------
\* runPool has returned: nothing runs, and only cancellation leaves jobs out.
PoolDone(kind) ==
  /\ DOMAIN running = {}
  /\ cancelled \/ \A j \in todo : j.kind # kind

EndDownloads ==
  /\ pc = "download" /\ PoolDone("download")
  /\ pc' = "upload"
  /\ UNCHANGED <<cfg, trees, now, seen, pool, cancelled, result, bounds>>

\* Mutant of EndUploads: failed downloads do not end the pass.
EndUploadsLightly ==
  /\ pc = "upload" /\ PoolDone("upload")
  /\ IF \E j \in failed : j.kind = "upload"
     THEN pc' = "idle" /\ result' = "error"
     ELSE pc' = "remove" /\ UNCHANGED result
  /\ UNCHANGED <<cfg, trees, now, seen, pool, cancelled, bounds>>

\* A failed transfer ends the pass before the removals.
EndUploads ==
  /\ pc = "upload" /\ PoolDone("upload")
  /\ IF failed # {} THEN pc' = "idle" /\ result' = "error"
                    ELSE pc' = "remove" /\ UNCHANGED result
  /\ UNCHANGED <<cfg, trees, now, seen, pool, cancelled, bounds>>

-----------------------------------------------------------------------------
(* Phase 4: removals, in the plan's order: files, directories deepest      *)
(* first, then the remote batches.  Errors are only logged.                *)

\* os.Remove fails on a directory that is not empty.
OsRemove(rel) ==
  IF Descendants(local, rel) = {} THEN Without(local, {rel}) ELSE local

RmLocalFile(j) ==
  /\ pc = "remove" /\ ~cancelled /\ j \in todo /\ j.kind = "rm_local_file"
  /\ todo' = todo \ {j}
  /\ local' = OsRemove(j.rel)
  /\ UNCHANGED <<cfg, remote, now, pc, seen, running, done, failed, cancelled,
                 result, bounds>>

RmLocalDir(j) ==
  /\ pc = "remove" /\ ~cancelled /\ j \in todo /\ j.kind = "rm_local_dir"
  /\ \A k \in todo : /\ k.kind # "rm_local_file"
                     /\ k.kind = "rm_local_dir" => Len(k.rel) <= Len(j.rel)
  /\ todo' = todo \ {j}
  /\ local' = OsRemove(j.rel)
  /\ UNCHANGED <<cfg, remote, now, pc, seen, running, done, failed, cancelled,
                 result, bounds>>

\* The server removes the names with all that is under them.
RemovedRemotely(j) ==
  LET targets == {Append(j.parent, n) : n \in j.names}
  IN  targets \cup UNION {Descendants(remote, r) : r \in targets}

\* Mutant of RmRemote: the context is not looked at between removals.
RmRemoteAnyway(j) ==
  /\ pc = "remove" /\ j \in todo /\ j.kind = "rm_remote"
  /\ \A k \in todo : k.kind \notin {"rm_local_file", "rm_local_dir"}
  /\ todo' = todo \ {j}
  /\ remote' = Without(remote, RemovedRemotely(j))
  /\ UNCHANGED <<cfg, local, now, pc, seen, running, done, failed, cancelled,
                 result, bounds>>

RmRemote(j) ==
  /\ pc = "remove" /\ ~cancelled /\ j \in todo /\ j.kind = "rm_remote"
  /\ \A k \in todo : k.kind \notin {"rm_local_file", "rm_local_dir"}
  /\ todo' = todo \ {j}
  /\ \/ remote' = Without(remote, RemovedRemotely(j)) /\ UNCHANGED faults
     \/ Fault /\ UNCHANGED remote
  /\ UNCHANGED <<cfg, local, now, pc, seen, running, done, failed, cancelled,
                 result, edits, stops>>

EndPass ==
  /\ pc = "remove"
  /\ cancelled \/ \A j \in todo : j.kind \notin {"rm_local_file", "rm_local_dir", "rm_remote"}
  /\ pc' = "idle" /\ result' = "ok"
  /\ UNCHANGED <<cfg, trees, now, seen, pool, cancelled, bounds>>

-----------------------------------------------------------------------------
(* The environment: the operator stops a pass, the process dies and is     *)
(* restarted; users write and delete files.  Two writes are further apart  *)
(* than the tolerance.                                                     *)
Cancel ==
  /\ ~Idle /\ ~cancelled /\ stops < MaxStops
  /\ cancelled' = TRUE /\ stops' = stops + 1
  /\ UNCHANGED <<cfg, trees, now, pc, seen, pool, result, edits, faults>>

Crash ==
  /\ ~Idle /\ stops < MaxStops
  /\ stops' = stops + 1
  /\ pc' = "idle" /\ result' = "crashed"
  /\ todo' = {} /\ running' = << >> /\ done' = {} /\ failed' = {}
  /\ UNCHANGED <<cfg, trees, now, seen, cancelled, edits, faults>>

UserMayEdit == (Idle \/ EditsDuringPass) /\ edits < MaxEdits
Writable(tree, rel) == ~IsDir(tree, rel) /\ \A p \in Ancestors(rel) : IsDir(tree, p)

UserWrites(rel) ==
  /\ UserMayEdit /\ edits' = edits + 1
  /\ now' = now + Tolerance + 1
  /\ \/ /\ Writable(remote, rel)
        /\ remote' = Put(remote, rel, File(now', now')) /\ UNCHANGED local
     \/ /\ Writable(local, rel)
        /\ local' = Put(local, rel, File(now', now')) /\ UNCHANGED remote
  /\ UNCHANGED <<cfg, pc, seen, pool, cancelled, result, faults, stops>>

UserDeletes(rel) ==
  /\ UserMayEdit /\ edits' = edits + 1
  /\ \/ IsFile(remote, rel) /\ remote' = Without(remote, {rel}) /\ UNCHANGED local
     \/ IsFile(local, rel) /\ local' = Without(local, {rel}) /\ UNCHANGED remote
  /\ UNCHANGED <<cfg, now, pc, seen, pool, cancelled, result, faults, stops>>

UserMakesDir(rel) ==
  /\ UsersChangeKinds /\ UserMayEdit /\ edits' = edits + 1
  /\ \/ Writable(remote, rel) /\ remote' = Put(remote, rel, Dir) /\ UNCHANGED local
     \/ Writable(local, rel) /\ local' = Put(local, rel, Dir) /\ UNCHANGED remote
  /\ UNCHANGED <<cfg, now, pc, seen, pool, cancelled, result, faults, stops>>

UserReplacesDir ==
  /\ UsersChangeKinds /\ UserMayEdit /\ edits' = edits + 1
  /\ now' = now + Tolerance + 1
  /\ \/ \E rel \in DOMAIN remote :
          /\ IsDir(remote, rel) /\ Descendants(remote, rel) = {}
          /\ remote' = Put(remote, rel, File(now', now')) /\ UNCHANGED local
     \/ \E rel \in DOMAIN local :
          /\ IsDir(local, rel) /\ Descendants(local, rel) = {}
          /\ local' = Put(local, rel, File(now', now')) /\ UNCHANGED remote
  /\ UNCHANGED <<cfg, pc, seen, pool, cancelled, result, faults, stops>>

JobStep(j) ==
  \/ StartJob(j) \/ Aborted(j)
  \/ DownloadFetch(j) \/ DownloadFault(j) \/ RenamePart(j) \/ SetListedTime(j)
  \/ UploadOpen(j) \/ UploadPut(j) \/ UploadFault(j) \/ AlignTime(j)

RemoveStep(j) == RmLocalFile(j) \/ RmLocalDir(j) \/ RmRemote(j)

\* The steps of a pass.
Progress ==
  \/ ListRemote \/ ListFails \/ ScanAndPlan
  \/ EndMkdir \/ EndDownloads \/ EndUploads \/ EndPass
  \/ \E j \in todo : MkdirRemote(j) \/ MkdirLocal(j) \/ JobStep(j) \/ RemoveStep(j)

System == Begin \/ Progress
Users  == \/ UserReplacesDir
          \/ \E rel \in UserFiles : UserWrites(rel) \/ UserDeletes(rel) \/ UserMakesDir(rel)

Next == System \/ Users \/ Cancel \/ Crash
Spec == Init /\ [][Next]_vars

\* The task is scheduled again and again, and a pass that runs goes on:
\* requests end, timers fire (see WorkerPool for the goroutines).
FairSpec == Spec /\ WF_vars(Begin) /\ WF_vars(Progress)

-----------------------------------------------------------------------------
Points  == {"try", "fetched", "renamed", "opened", "put"}
Runs    == [at : Points, tries : 0..Retries, content : Contents]
Results == {"never", "running", "uptodate", "dryrun", "ok", "error", "crashed"}

TypeOK ==
  /\ IsTree(remote) /\ IsTree(local) /\ IsTree(seenRemote) /\ IsTree(seenLocal)
  /\ \E n \in 0..edits : now = StartTime + n * (Tolerance + 1)
  /\ pc \in {"idle", "list", "scan", "mkdir", "download", "upload", "remove"}
  /\ \A j \in DOMAIN running : running[j] \in Runs
  /\ cancelled \in BOOLEAN /\ result \in Results
  /\ edits \in 0..MaxEdits /\ faults \in 0..MaxFaults /\ stops \in 0..MaxStops

-----------------------------------------------------------------------------
Files(tree)   == {r \in DOMAIN tree : ~tree[r].isDir}
Planned       == {j \in plan(cfg, seenRemote, seenLocal) : IsTransfer(j)}
Removes(tree, next) == Files(tree) \ DOMAIN next # {}

(* syncer.go:149-181.  The pass removes a file only after every transfer   *)
(* of its plan, not merely those it got round to, has succeeded.           *)
RemovalOnlyAfterAllTransfers ==
  [][ System /\ (Removes(remote, remote') \/ Removes(local, local'))
        => Planned \subseteq done ]_vars

(* A two-way pass never makes a file disappear from either side, a pull    *)
(* never from the remote, a push never from the local side: not after any  *)
(* sequence of failures, cancellations and edits under way, but for a      *)
(* local directory that a user turned into a file since the scan.          *)
SourceKeepsEveryFile ==
  [][ System =>
        /\ cfg.direction # "push" => ~Removes(remote, remote')
        /\ cfg.direction # "pull" =>
             \A r \in Files(local) \ DOMAIN local' : IsDir(seenLocal, r)
    ]_vars

(* A one-way pass writes nothing to the side it reads from, whatever the   *)
(* cleanup setting: a pull leaves the remote tree as it is, a push changes *)
(* the content of no local file (SourceKeepsEveryFile: nor removes any).   *)
(* A dry run leaves both trees.                                            *)
OneWayLeavesSourceAlone ==
  [][ System =>
        /\ cfg.dryRun => UNCHANGED trees
        /\ cfg.direction = "pull" => remote' = remote
        /\ cfg.direction = "push" =>
             \A r \in Files(local) \cap DOMAIN local' : local'[r].content = local[r].content
    ]_vars

\* The newest content of a file on either side.
Copies(r) == {tree[r].content : tree \in {t \in {remote, local} : IsFile(t, r)}}
Newest(r) == Max({-1} \cup Copies(r))

(* conflict=newest, README.md:114 "newest keeps the newer one": a pass     *)
(* never loses the newest content of a file, whatever fails, is retried or *)
(* cancelled, when users leave the trees alone while it runs.              *)
NewestSurvives ==
  [][ System /\ cfg.conflict = "newest" /\ cfg.direction = "both"
        => \A r \in Files(remote) \cup Files(local) : Newest(r)' >= Newest(r) ]_vars

(* src/README.md:114, in every direction: a file is replaced by an older   *)
(* content only where the policy names the other side.  newest and skip    *)
(* never lose the newer of two contents on either side, remote not on the  *)
(* remote side, local not on the local one; whatever fails, is retried or  *)
(* cancelled, and though the upload phase sends what the download phase    *)
(* has just replaced, when users leave the trees alone while a pass runs.  *)
OlderOnlyByPolicy ==
  [][ System =>
        /\ cfg.conflict # "remote" =>
             \A r \in Files(local) \cap Files(local') : local'[r].content >= local[r].content
        /\ cfg.conflict # "local" =>
             \A r \in Files(remote) \cap Files(remote') : remote'[r].content >= remote[r].content
    ]_vars

(* A two-way pass that reports "up to date" has seen the same content on   *)
(* both sides of every file the name filter lets through: equal sizes and  *)
(* aligned times never hide a difference.                                  *)
UpToDateMeansSameContent ==
  Idle /\ result = "uptodate" /\ cfg.direction = "both" /\ cfg.filter.types = {} =>
    \A r \in Files(seenRemote) \cup Files(seenLocal) : MatchLocal(cfg.filter, r) =>
      /\ r \in DOMAIN seenRemote /\ r \in DOMAIN seenLocal
      /\ seenRemote[r].content = seenLocal[r].content

(* A pass that was not cancelled and reports "ok" has carried out every    *)
(* transfer it planned.                                                    *)
OkMeansTransferred ==
  Idle /\ result = "ok" /\ ~cancelled => Planned \subseteq done

-----------------------------------------------------------------------------
(* The inductive invariant behind the safety properties.                   *)
Phases         == {"mkdir", "download", "upload", "remove"}
NoneLeft(kind) == \A j \in todo : j.kind # kind

\* What is left to do comes from the plan, and the plan is accounted for:
\* every transfer is still to do, done or failed.
PlanInv ==
  /\ todo \subseteq plan(cfg, seenRemote, seenLocal)
  /\ pc \in {"list", "scan"} => todo = {} /\ done = {} /\ failed = {}
  /\ pc \in Phases => Planned \subseteq todo \cup done \cup failed

\* Jobs run only in the two transfer phases, each in its own.
PoolInv ==
  /\ DOMAIN running \subseteq todo
  /\ pc \notin {"download", "upload"} => DOMAIN running = {}
  /\ \A j \in DOMAIN running : j.kind = pc

\* A phase leaves nothing behind but for a cancellation, and failures end a
\* pass before the removals.
BarrierInv ==
  /\ ~cancelled /\ pc \in {"upload", "remove"} => NoneLeft("download")
  /\ ~cancelled /\ pc = "remove" => NoneLeft("upload")
  /\ pc = "remove" => failed = {}

(* What the steps of a pass rely on: the plan is accounted for, jobs run   *)
(* only in their phases, and the phases are barriers.                      *)
Inv == cfg \in Configs /\ PlanInv /\ PoolInv /\ BarrierInv /\ OkMeansTransferred

\* A dry run returns before its plan is carried out.
DryRunInv == cfg.dryRun => pc \notin Phases

(* The same with the types of all variables, among them that no job is     *)
(* tried more often than its retries allow (syncer.go:189), and with what  *)
(* keeps a dry run from doing anything.                                    *)
TypedInv == TypeOK /\ Inv /\ DryRunInv

-----------------------------------------------------------------------------
(* Why times can stand for contents: the invariant behind NewestSurvives,  *)
(* OlderOnlyByPolicy and UpToDateMeansSameContent, for users who edit      *)
(* between passes.                                                         *)

\* No file is younger than a time, nor is its content.
DatedUpTo(tree, time) ==
  \A r \in Files(tree) : tree[r].mtime \in 0..time /\ tree[r].content \in 0..time

\* Of two files, the newer one has the newer content or the same, and files of
\* the same age have the same content.
Ordered(re, le) ==
  /\ After(re.mtime, le.mtime) => re.content >= le.content
  /\ After(le.mtime, re.mtime) => le.content >= re.content
  /\ timesEq(le.mtime, re.mtime) => le.content = re.content

InBoth(r) == IsFile(remote, r) /\ IsFile(local, r)

OrderedStart ==
  /\ \A tree \in StartRemote \cup StartLocal : DatedUpTo(tree, StartTime)
  /\ \A from \in StartRemote, to \in StartLocal :
       \A r \in Files(from) \cap Files(to) : Ordered(from[r], to[r])

Quiet == ~EditsDuringPass /\ OrderedStart

AgesInv ==
  /\ DatedUpTo(remote, now) /\ DatedUpTo(local, now) /\ DatedUpTo(seenRemote, now)
  /\ \A r \in Files(remote) \cap Files(local) : Ordered(remote[r], local[r])

\* What a pass has seen is still there, but for what it did itself: a directory
\* goes away only in the last phase.
ScansInv ==
  /\ pc = "scan" => seenRemote = remote
  /\ pc \in Phases => \A r \in DOMAIN seenLocal : IsDir(seenLocal, r) =>
                        IsDir(local, r) \/ (pc = "remove" /\ r \notin DOMAIN local)

\* A transfer under way carries the content of its source, and has left it where
\* it says.
Holds(tree, j) == IsFile(tree, j.rel) /\ tree[j.rel].content = running[j].content

Carries(j) ==
  /\ running[j].at \in {"fetched", "renamed"} => j.kind = "download" /\ Holds(remote, j)
  /\ running[j].at = "renamed"                => Holds(local, j)
  /\ running[j].at \in {"opened", "put"}      => j.kind = "upload" /\ Holds(local, j)
  /\ running[j].at = "put"                    => Holds(remote, j)

CarriesInv == \A j \in DOMAIN running : Carries(j)

\* Only a policy that names the source lets a transfer still to do replace a newer
\* content.
PolicyInv ==
  \A j \in todo :
    /\ /\ cfg.conflict # "remote" /\ j.kind = "download"
       /\ pc \in {"mkdir", "download"} /\ InBoth(j.rel)
       => local[j.rel].content <= remote[j.rel].content
    /\ /\ cfg.conflict # "local" /\ j.kind = "upload"
       /\ pc \in {"mkdir", "download", "upload"} /\ InBoth(j.rel)
       => remote[j.rel].content <= local[j.rel].content

Orderly == AgesInv /\ ScansInv /\ CarriesInv /\ PolicyInv

(* Times order the contents of the two copies of a file, in every state of *)
(* every pass, however it fails or is cut short: a transfer carries the    *)
(* content of its source to the end, and replaces a newer content only     *)
(* where the policy names its side.                                        *)
OrderInv == Quiet => Orderly

-----------------------------------------------------------------------------
(* Once failures, stops and edits are over, the task settles: from some    *)
(* pass on every pass finds nothing to do.  No two policies or phases undo *)
(* each other's work for ever.                                             *)
Settles == <>[](Idle => result = "uptodate")
=============================================================================
