---------------------------- MODULE SyncTaskProofs ----------------------------
(***************************************************************************)
(* Proofs about the passes of a task, for all settings, trees, users and   *)
(* bounds on the environment.                                              *)
(***************************************************************************)
EXTENDS SyncTask, PlannerLemmas

(* The operations on trees add to them, except Without, and change no      *)
(* directory into something else unless told to.                           *)
LEMMA PutGrows ==
  ASSUME NEW f, NEW x, NEW y
  PROVE  /\ DOMAIN f \subseteq DOMAIN Put(f, x, y)
         /\ \A r \in DOMAIN f : r # x => Put(f, x, y)[r] = f[r]
  BY DEF Put

LEMMA WithDirsGrows ==
  ASSUME NEW tree, NEW dirs
  PROVE  /\ DOMAIN tree \subseteq DOMAIN WithDirs(tree, dirs)
         /\ \A r \in DOMAIN tree : WithDirs(tree, dirs)[r] = tree[r]
  BY DEF WithDirs

LEMMA SetTimeKeeps ==
  ASSUME NEW tree, NEW rel, NEW mtime
  PROVE  /\ DOMAIN SetTime(tree, rel, mtime) = DOMAIN tree
         /\ \A r \in DOMAIN tree : r # rel => SetTime(tree, rel, mtime)[r] = tree[r]
         /\ IsDir(tree, rel) => SetTime(tree, rel, mtime) = tree
  BY DEF SetTime, IsFile, IsDir

\* The step takes nothing away from a tree, and its directories stay.
Keeps(tree, next) ==
  /\ DOMAIN tree \subseteq DOMAIN next
  /\ \A r \in DOMAIN tree : IsDir(tree, r) => IsDir(next, r)

LEMMA KeepsSame == \A tree : Keeps(tree, tree)
  BY DEF Keeps

LEMMA KeepsPut ==
  ASSUME NEW tree, NEW x, NEW y, ~IsDir(tree, x)
  PROVE  Keeps(tree, Put(tree, x, y))
  BY PutGrows DEF Keeps, IsDir

LEMMA KeepsWithDirs ==
  ASSUME NEW tree, NEW dirs
  PROVE  Keeps(tree, WithDirs(tree, dirs))
  BY WithDirsGrows DEF Keeps, IsDir

LEMMA KeepsPartlyMade ==
  ASSUME NEW tree, NEW rel, NEW next \in PartlyMade(tree, rel)
  PROVE  Keeps(tree, next)
  BY KeepsWithDirs DEF PartlyMade

LEMMA KeepsSetTime ==
  ASSUME NEW tree, NEW rel, NEW mtime
  PROVE  Keeps(tree, SetTime(tree, rel, mtime))
  BY SetTimeKeeps DEF Keeps, IsDir, IsFile

LEMMA KeepsStored ==
  ASSUME NEW j, Accepts(j)
  PROVE  Keeps(remote, Stored(j))
<1> DEFINE made == WithDirs(remote, Ancestors(j.rel))
<1>1. Keeps(remote, made)
  BY KeepsWithDirs
<1>2. DOMAIN made \subseteq DOMAIN Stored(j)
  BY PutGrows DEF Stored
<1>3. ASSUME NEW r \in DOMAIN remote, IsDir(remote, r) PROVE IsDir(Stored(j), r)
  <2>1. r # j.rel /\ r \in DOMAIN made /\ made[r] = remote[r]
    BY <1>3, WithDirsGrows DEF Accepts
  <2> HIDE DEF made
  <2>2. Stored(j) = Put(made, j.rel, File(running[j].content, now))
    BY DEF Stored, made
  <2>3. r \in DOMAIN Stored(j) /\ Stored(j)[r] = remote[r]
    BY <2>1, <2>2, PutGrows
  <2> QED
    BY <1>3, <2>3 DEF IsDir
<1> QED
  BY <1>1, <1>2, <1>3 DEF Keeps

-----------------------------------------------------------------------------
(* Of a pass's steps only those of the removal phase take anything away.   *)
LEMMA StepsKeep ==
  ASSUME NEW j,
         \/ Begin \/ ListRemote \/ ListFails \/ ScanAndPlan
         \/ EndMkdir \/ EndDownloads \/ EndUploads \/ EndPass
         \/ MkdirRemote(j) \/ MkdirLocal(j) \/ JobStep(j)
  PROVE  Keeps(remote, remote') /\ Keeps(local, local')
<1>1. CASE UNCHANGED trees
  BY <1>1, KeepsSame DEF trees
<1>2. CASE MkdirRemote(j)
  <2>1. local' = local
    BY <1>2 DEF MkdirRemote
  <2>2. \/ remote' = remote
        \/ remote' = WithDirs(remote, Ancestors(j.rel) \cup {j.rel})
        \/ remote' \in PartlyMade(remote, j.rel)
    BY <1>2 DEF MkdirRemote
  <2> QED
    BY <2>1, <2>2, KeepsSame, KeepsWithDirs, KeepsPartlyMade
<1>3. CASE MkdirLocal(j)
  BY <1>3, KeepsSame, KeepsWithDirs DEF MkdirLocal
<1>4. CASE DownloadFetch(j) \/ DownloadFault(j)
  BY <1>4, KeepsSame, KeepsWithDirs DEF DownloadFetch, DownloadFault
<1>5. CASE RenamePart(j)
  BY <1>5, KeepsSame, KeepsPut DEF RenamePart
<1>6. CASE SetListedTime(j)
  BY <1>6, KeepsSame, KeepsSetTime DEF SetListedTime
<1>7. CASE UploadPut(j)
  BY <1>7, KeepsSame, KeepsStored DEF UploadPut
<1>8. CASE UploadFault(j)
  <2>1. local' = local
    BY <1>8 DEF UploadFault
  <2>2. \/ remote' = remote
        \/ remote' \in PartlyMade(remote, j.rel)
        \/ Accepts(j) /\ remote' = Stored(j)
    BY <1>8 DEF UploadFault
  <2> QED
    BY <2>1, <2>2, KeepsSame, KeepsPartlyMade, KeepsStored
<1>9. CASE AlignTime(j)
  BY <1>9, KeepsSame, KeepsSetTime DEF AlignTime
<1>10. CASE \/ Begin \/ ListRemote \/ ListFails \/ ScanAndPlan
            \/ EndMkdir \/ EndDownloads \/ EndUploads \/ EndPass
            \/ StartJob(j) \/ Aborted(j) \/ UploadOpen(j)
  <2>1. UNCHANGED trees
    BY <1>10 DEF Begin, ListRemote, ListFails, ScanAndPlan, EndMkdir, EndDownloads,
                 EndUploads, EndPass, StartJob, Aborted, UploadOpen, trees
  <2> QED
    BY <1>1, <2>1
<1> QED
  BY <1>2, <1>3, <1>4, <1>5, <1>6, <1>7, <1>8, <1>9, <1>10 DEF JobStep

-----------------------------------------------------------------------------
(* A job that advances, fails or succeeds stays accounted for.             *)
Accounted ==
  /\ todo' \subseteq todo /\ todo \subseteq todo' \cup done' \cup failed'
  /\ done \subseteq done' /\ failed \subseteq failed'
  /\ DOMAIN running' \subseteq todo'
  /\ \A k \in DOMAIN running' : k \in DOMAIN running \/ k.kind = pc

LEMMA OutcomesAccounted ==
  ASSUME NEW j \in DOMAIN running, DOMAIN running \subseteq todo,
         Succeed(j) \/ FailAttempt(j) \/ \E point, c : Advance(j, point, c)
  PROVE  Accounted
<1>1. CASE \E point, c : Advance(j, point, c)
  <2>1. PICK point, c : Advance(j, point, c)
    BY <1>1
  <2>2. DOMAIN running' = DOMAIN running
    BY <2>1 DEF Advance
  <2> QED
    BY <2>1, <2>2 DEF Advance, Accounted
<1>2. CASE running' = Without(running, {j}) /\ todo' = todo \ {j}
  <2>1. DOMAIN running' = DOMAIN running \ {j}
    BY <1>2 DEF Without
  <2>2. \/ done' = done \cup {j} /\ failed' = failed
        \/ failed' = failed \cup {j} /\ done' = done
        \/ \E point, c : Advance(j, point, c)
        \/ todo' = todo
    BY DEF Succeed, FailAttempt
  <2>3. todo' # todo
    BY <1>2
  <2> QED
    BY <1>1, <1>2, <2>1, <2>2, <2>3 DEF Accounted
<1>3. CASE /\ \E rec : running' = [running EXCEPT ![j] = rec]
           /\ UNCHANGED <<todo, done, failed>>
  <2>1. DOMAIN running' = DOMAIN running
    BY <1>3
  <2> QED
    BY <1>3, <2>1 DEF Accounted
<1> QED
  BY <1>1, <1>2, <1>3 DEF Succeed, FailAttempt

\* What a pass keeps while one of its jobs takes a step.
InPhase == UNCHANGED <<cfg, pc, seen, cancelled, result>>

LEMMA JobsAccounted ==
  ASSUME PoolInv, NEW j \in todo, JobStep(j)
  PROVE  Accounted /\ InPhase /\ pc \in {"download", "upload"}
<1>1. InPhase
  BY DEF JobStep, StartJob, Aborted, DownloadFetch, DownloadFault, RenamePart,
         SetListedTime, UploadOpen, UploadPut, UploadFault, AlignTime, InPhase
<1>2. CASE StartJob(j)
  <2>1. DOMAIN running' = DOMAIN running \cup {j}
    BY <1>2 DEF StartJob, Put
  <2>2. UNCHANGED <<todo, done, failed>> /\ pc \in {"download", "upload"} /\ pc = j.kind
    BY <1>2 DEF StartJob, IsTransfer
  <2> QED
    BY <1>1, <2>1, <2>2 DEF Accounted, PoolInv
<1>3. CASE ~StartJob(j)
  <2>1. j \in DOMAIN running
    BY <1>3 DEF JobStep, Aborted, DownloadFetch, DownloadFault, RenamePart, SetListedTime,
                UploadOpen, UploadPut, UploadFault, AlignTime, At
  <2>2. Succeed(j) \/ FailAttempt(j) \/ \E point, c : Advance(j, point, c)
    BY <1>3 DEF JobStep, Aborted, DownloadFetch, DownloadFault, RenamePart, SetListedTime,
                UploadOpen, UploadPut, UploadFault, AlignTime
  <2>3. DOMAIN running \subseteq todo /\ pc \in {"download", "upload"}
    BY <2>1 DEF PoolInv
  <2> QED
    BY <1>1, <2>1, <2>2, <2>3, OutcomesAccounted
<1> QED
  BY <1>2, <1>3

-----------------------------------------------------------------------------
\* The removals planned for the local tree are told apart by what was scanned.
LEMMA PlannedRemovals ==
  ASSUME NEW j \in plan(cfg, seenRemote, seenLocal),
         j.kind \in {"rm_local_file", "rm_local_dir"}
  PROVE  /\ j = Job(j.kind, j.rel)
         /\ j.rel \in DOMAIN seenLocal
         /\ j.kind = "rm_local_file" <=> ~seenLocal[j.rel].isDir
<1>1. j \in planCleanupLocal(cfg, seenRemote, seenLocal,
                             Rels(transferJobs(cfg, seenRemote, seenLocal), "upload"))
  BY PlanParts
<1> QED
  BY <1>1, CleanupLocalJobs

-----------------------------------------------------------------------------
(* Every transfer of the plan is done once the removals may begin.         *)
LEMMA BarrierHolds ==
  ASSUME PlanInv, BarrierInv, pc = "remove", ~cancelled
  PROVE  Planned \subseteq done
  BY DEF PlanInv, BarrierInv, Phases, Planned, IsTransfer, NoneLeft

LEMMA InitInv == Init => Inv
  BY DEF Init, Inv, PlanInv, PoolInv, BarrierInv, OkMeansTransferred, Phases, Idle

LEMMA JobInv ==
  ASSUME Inv, NEW j \in todo, JobStep(j)
  PROVE  Inv'
<1>1. Accounted /\ InPhase /\ pc \in {"download", "upload"}
  BY JobsAccounted DEF Inv
<1>2. PlanInv'
  BY <1>1 DEF Inv, PlanInv, Accounted, InPhase, seen, Planned, Phases
<1>3. PoolInv'
  BY <1>1 DEF Inv, PoolInv, Accounted, InPhase
<1>4. BarrierInv'
  BY <1>1 DEF Inv, BarrierInv, NoneLeft, Accounted, InPhase
<1>5. OkMeansTransferred'
  BY <1>1 DEF OkMeansTransferred, Idle, InPhase
<1> QED
  BY <1>1, <1>2, <1>3, <1>4, <1>5 DEF Inv, InPhase

LEMMA ScanInv ==
  ASSUME Inv, ScanAndPlan
  PROVE  Inv'
<1> DEFINE jobs == plan(cfg, seenRemote, local)
<1>1. /\ pc = "scan" /\ seenLocal' = local
      /\ UNCHANGED <<cfg, trees, seenRemote, running, done, failed, cancelled>>
      /\ todo = {} /\ done = {} /\ failed = {} /\ DOMAIN running = {}
  BY DEF Inv, PlanInv, PoolInv, ScanAndPlan
<1>2. \/ pc' = "idle" /\ todo' = {} /\ result' \in {"uptodate", "dryrun"}
      \/ pc' = "mkdir" /\ todo' = jobs
  BY <1>1 DEF ScanAndPlan
<1>3. plan(cfg, seenRemote, seenLocal)' = jobs
  BY <1>1
<1> HIDE DEF jobs
<1>4. PlanInv'
  BY <1>1, <1>2, <1>3 DEF PlanInv, Planned, Phases
<1>5. PoolInv'
  BY <1>1, <1>2 DEF PoolInv
<1>6. BarrierInv'
  BY <1>1, <1>2 DEF BarrierInv
<1>7. OkMeansTransferred'
  BY <1>2 DEF OkMeansTransferred, Idle
<1> QED
  BY <1>1, <1>4, <1>5, <1>6, <1>7 DEF Inv

\* A step that takes jobs off the list which are not transfers.
LEMMA OtherJobInv ==
  ASSUME Inv, NEW j \in todo, ~IsTransfer(j), todo' = todo \ {j},
         UNCHANGED <<cfg, pc, seen, running, done, failed, cancelled, result>>,
         pc \in {"mkdir", "remove"}
  PROVE  Inv'
<1>1. PlanInv'
  BY DEF Inv, PlanInv, seen, Planned, Phases
<1>2. PoolInv'
  BY DEF Inv, PoolInv
<1>3. BarrierInv'
  BY DEF Inv, BarrierInv, NoneLeft
<1>4. OkMeansTransferred'
  BY DEF OkMeansTransferred, Idle
<1> QED
  BY <1>1, <1>2, <1>3, <1>4 DEF Inv

LEMMA MkdirInv ==
  ASSUME Inv, NEW j \in todo, MkdirRemote(j) \/ MkdirLocal(j)
  PROVE  Inv'
<1>1. /\ ~IsTransfer(j) /\ todo' = todo \ {j} /\ pc = "mkdir"
      /\ UNCHANGED <<cfg, pc, seen, running, done, failed, cancelled, result>>
  BY DEF MkdirRemote, MkdirLocal, IsTransfer
<1> QED
  BY <1>1, OtherJobInv

LEMMA RemoveInv ==
  ASSUME Inv, NEW j \in todo, RemoveStep(j)
  PROVE  Inv'
<1>1. /\ ~IsTransfer(j) /\ todo' = todo \ {j} /\ pc = "remove"
      /\ UNCHANGED <<cfg, pc, seen, running, done, failed, cancelled, result>>
  BY DEF RemoveStep, RmLocalFile, RmLocalDir, RmRemote, IsTransfer
<1> QED
  BY <1>1, OtherJobInv

\* The steps from one phase to the next.
LEMMA PhaseInv ==
  ASSUME Inv,
         Begin \/ ListRemote \/ ListFails \/ EndMkdir \/ EndDownloads \/ EndUploads \/ EndPass
  PROVE  Inv'
<1>1. UNCHANGED <<cfg, running, local>>
  BY DEF Begin, ListRemote, ListFails, EndMkdir, EndDownloads, EndUploads, EndPass, pool, trees
<1>2. CASE Begin
  <2>1. /\ pc = "idle" /\ pc' = "list" /\ todo' = {} /\ done' = {} /\ failed' = {}
    BY <1>2 DEF Begin, Idle
  <2> QED
    BY <1>1, <2>1
    DEF Inv, PlanInv, PoolInv, BarrierInv, OkMeansTransferred, Phases, Idle
<1>3. CASE ListRemote \/ ListFails
  <2>1. /\ pc \in {"list", "scan"} /\ pc' \in {"scan", "idle"}
        /\ UNCHANGED <<todo, done, failed, cancelled>>
        /\ pc' = "idle" => result' = "error"
    BY <1>3 DEF ListRemote, ListFails, pool
  <2> QED
    BY <1>1, <2>1
    DEF Inv, PlanInv, PoolInv, BarrierInv, OkMeansTransferred, Phases, Idle
<1>4. CASE EndMkdir \/ EndDownloads \/ EndUploads \/ EndPass
  <2>1. UNCHANGED <<todo, done, failed, cancelled, seen, cfg>>
    BY <1>4 DEF EndMkdir, EndDownloads, EndUploads, EndPass, pool
  <2>2. /\ pc \in Phases /\ pc' \in {"download", "upload", "remove", "idle"}
        /\ pc' = "upload" => pc = "download" /\ PoolDone("download")
        /\ pc' = "remove" => pc = "upload" /\ PoolDone("upload") /\ failed = {}
        /\ pc' = "idle" =>
             \/ pc = "remove" /\ result' = "ok"
             \/ pc = "upload" /\ PoolDone("upload") /\ result' = "error"
    BY <1>4 DEF EndMkdir, EndDownloads, EndUploads, EndPass, Phases
  <2>3. PlanInv'
    BY <2>1, <2>2 DEF Inv, PlanInv, Planned, seen, Phases
  <2>4. PoolInv'
    <3>1. DOMAIN running = {}
      BY <1>4 DEF Inv, PoolInv, EndMkdir, EndDownloads, EndUploads, EndPass, PoolDone
    <3> QED
      BY <1>1, <3>1 DEF PoolInv
  <2>5. BarrierInv'
    BY <2>1, <2>2 DEF Inv, BarrierInv, PoolDone, NoneLeft
  <2>6. OkMeansTransferred'
    <3>1. (pc = "remove" /\ ~cancelled) => Planned \subseteq done
      BY BarrierHolds DEF Inv
    <3> QED
      BY <2>1, <2>2, <3>1 DEF OkMeansTransferred, Idle, Planned, seen
  <2> QED
    BY <1>1, <2>3, <2>4, <2>5, <2>6 DEF Inv
<1> QED
  BY <1>2, <1>3, <1>4

LEMMA EnvironmentInv ==
  ASSUME Inv, Users \/ Cancel \/ Crash \/ UNCHANGED vars
  PROVE  Inv'
<1>1. CASE Users
  <2>1. UNCHANGED <<cfg, pc, seen, pool, cancelled, result>>
    BY <1>1 DEF Users, UserReplacesDir, UserWrites, UserDeletes, UserMakesDir
  <2> QED
    BY <2>1
    DEF Inv, PlanInv, PoolInv, BarrierInv, OkMeansTransferred,
        seen, pool, Planned, NoneLeft, Idle
<1>2. CASE Cancel
  BY <1>2
  DEF Cancel, Inv, PlanInv, PoolInv, BarrierInv, OkMeansTransferred,
      trees, seen, pool, Planned, NoneLeft, Idle
<1>3. CASE Crash
  <2>1. DOMAIN running' = {}
    BY <1>3 DEF Crash
  <2> QED
    BY <1>3, <2>1
    DEF Crash, Inv, PlanInv, PoolInv, BarrierInv, OkMeansTransferred, Phases, Idle
<1>4. CASE UNCHANGED vars
  BY <1>4
  DEF vars, Inv, PlanInv, PoolInv, BarrierInv, OkMeansTransferred,
      trees, seen, pool, Planned, NoneLeft, Idle
<1> QED
  BY <1>1, <1>2, <1>3, <1>4

LEMMA NextInv == Inv /\ [Next]_vars => Inv'
<1> SUFFICES ASSUME Inv, [Next]_vars PROVE Inv'
  OBVIOUS
<1>1. CASE System
  BY <1>1, PhaseInv, ScanInv, MkdirInv, JobInv, RemoveInv DEF System, Progress
<1>2. CASE ~System
  BY <1>2, EnvironmentInv DEF Next
<1> QED
  BY <1>1, <1>2

LEMMA Invariance == Spec => []Inv
  BY InitInv, NextInv, PTL DEF Spec

(* For all settings and trees, and whatever fails or is edited: a pass     *)
(* that was not cancelled and says "ok" carried out its transfers.         *)
THEOREM OkIsTransferred == Spec => []OkMeansTransferred
<1>1. Inv => OkMeansTransferred
  BY DEF Inv
<1> QED
  BY <1>1, Invariance, PTL

\* Which steps of a pass can take something away.
LEMMA OnlyRemovalsRemove ==
  ASSUME System, Removes(remote, remote') \/ Removes(local, local')
  PROVE  \E j \in todo : RemoveStep(j)
<1>1. CASE Begin \/ ListRemote \/ ListFails \/ ScanAndPlan
           \/ EndMkdir \/ EndDownloads \/ EndUploads \/ EndPass
           \/ \E j \in todo : MkdirRemote(j) \/ MkdirLocal(j) \/ JobStep(j)
  <2>1. Keeps(remote, remote') /\ Keeps(local, local')
    BY <1>1, StepsKeep
  <2> QED
    BY <2>1 DEF Keeps, Removes, Files
<1> QED
  BY <1>1 DEF System, Progress

(* For all settings and trees, and whatever fails, is cancelled or edited: *)
(* nothing is removed before every planned transfer has succeeded.         *)
THEOREM RemovalsComeLast == Spec => RemovalOnlyAfterAllTransfers
<1>1. ASSUME Inv, System, Removes(remote, remote') \/ Removes(local, local')
      PROVE  Planned \subseteq done
  <2>1. PICK j \in todo : RemoveStep(j)
    BY <1>1, OnlyRemovalsRemove
  <2>2. pc = "remove" /\ ~cancelled
    BY <2>1 DEF RemoveStep, RmLocalFile, RmLocalDir, RmRemote
  <2> QED
    BY <1>1, <2>2, BarrierHolds DEF Inv
<1>2. Inv => [System /\ (Removes(remote, remote') \/ Removes(local, local'))
                => Planned \subseteq done]_vars
  BY <1>1
<1> QED
  BY <1>2, Invariance, PTL DEF RemovalOnlyAfterAllTransfers

(* For all settings and trees, and whatever fails, is cancelled or edited: *)
(* the sending side of a pass loses no file, but for local directories     *)
(* turned into files under way.                                            *)
THEOREM SourceIsKept == Spec => SourceKeepsEveryFile
<1>1. ASSUME Inv, System
      PROVE  /\ cfg.direction # "push" => ~Removes(remote, remote')
             /\ cfg.direction # "pull" =>
                  \A r \in Files(local) \ DOMAIN local' : IsDir(seenLocal, r)
  <2>1. CASE ~Removes(remote, remote') /\ ~Removes(local, local')
    BY <2>1 DEF Removes
  <2>2. ASSUME NEW j \in todo, RemoveStep(j)
        PROVE  /\ Removes(remote, remote') => cfg.direction = "push"
               /\ \A r \in Files(local) \ DOMAIN local' :
                    cfg.direction = "pull" \/ IsDir(seenLocal, r)
    <3>1. j \in plan(cfg, seenRemote, seenLocal) /\ cfg.direction \in Directions
      BY <1>1, SyncAssumption DEF Inv, PlanInv
    <3>2. /\ j.kind = "rm_local_file" => cfg.direction = "pull"
          /\ j.kind = "rm_remote" => cfg.direction = "push"
      BY <3>1, PlanRemovals
    <3>3. CASE RmRemote(j)
      BY <3>2, <3>3 DEF RmRemote, Files
    <3>4. CASE RmLocalFile(j)
      BY <3>2, <3>4 DEF RmLocalFile, Removes, Files
    <3>5. CASE RmLocalDir(j)
      <4>1. j.rel \in DOMAIN seenLocal /\ seenLocal[j.rel].isDir
        BY <3>1, <3>5, PlannedRemovals DEF RmLocalDir
      <4>2. remote' = remote /\ DOMAIN local \ DOMAIN local' \subseteq {j.rel}
        BY <3>5 DEF RmLocalDir, OsRemove, Without
      <4> QED
        BY <4>1, <4>2 DEF Removes, Files, IsDir
    <3> QED
      BY <2>2, <3>3, <3>4, <3>5 DEF RemoveStep
  <2> QED
    BY <1>1, <2>1, <2>2, OnlyRemovalsRemove
<1>2. Inv => [System => /\ cfg.direction # "push" => ~Removes(remote, remote')
                        /\ cfg.direction # "pull" =>
                             \A r \in Files(local) \ DOMAIN local' : IsDir(seenLocal, r)]_vars
  BY <1>1
<1> QED
  BY <1>2, Invariance, PTL DEF SourceKeepsEveryFile

-----------------------------------------------------------------------------
(* A dry run never enters a phase.                                         *)
LEMMA DryRunNext ==
  ASSUME Inv, DryRunInv, [Next]_vars
  PROVE  DryRunInv'
<1>1. CASE UNCHANGED <<cfg, pc>> \/ (UNCHANGED cfg /\ pc' \notin Phases)
  BY <1>1 DEF DryRunInv, Phases
<1>2. CASE ScanAndPlan
  BY <1>2 DEF ScanAndPlan, DryRunInv, Phases
<1>3. CASE Begin \/ ListRemote \/ ListFails
  <2>1. UNCHANGED cfg /\ pc' \notin Phases
    BY <1>3 DEF Begin, ListRemote, ListFails, Phases
  <2> QED
    BY <1>1, <2>1
<1>4. CASE EndMkdir \/ EndDownloads \/ EndUploads \/ EndPass
  <2>1. UNCHANGED cfg /\ pc \in Phases
    BY <1>4 DEF EndMkdir, EndDownloads, EndUploads, EndPass, Phases
  <2> QED
    BY <2>1 DEF DryRunInv
<1>5. ASSUME NEW j \in todo, MkdirRemote(j) \/ MkdirLocal(j) \/ JobStep(j) \/ RemoveStep(j)
      PROVE  UNCHANGED <<cfg, pc>>
  <2>1. CASE JobStep(j)
    BY <2>1, JobsAccounted DEF Inv, InPhase
  <2>2. CASE ~JobStep(j)
    BY <1>5, <2>2 DEF MkdirRemote, MkdirLocal, RemoveStep, RmLocalFile, RmLocalDir, RmRemote
  <2> QED
    BY <2>1, <2>2
<1>6. CASE Users \/ Cancel \/ UNCHANGED vars
  <2>1. UNCHANGED <<cfg, pc>>
    BY <1>6 DEF Users, UserReplacesDir, UserWrites, UserDeletes, UserMakesDir, Cancel, vars
  <2> QED
    BY <1>1, <2>1
<1>7. CASE Crash
  BY <1>1, <1>7 DEF Crash, Phases
<1> QED
  BY <1>1, <1>2, <1>3, <1>4, <1>5, <1>6, <1>7 DEF Next, System, Progress

LEMMA DryRunHolds == Spec => []DryRunInv
<1>1. Init => DryRunInv
  BY DEF Init, DryRunInv, Phases
<1> QED
  BY <1>1, DryRunNext, Invariance, PTL DEF Spec

-----------------------------------------------------------------------------
(* The operations on trees make trees of trees.                            *)
LEMMA NewEntries ==
  /\ Dir \in Entries /\ Dir.isDir
  /\ \A c \in Contents, t \in Int :
       /\ File(c, t) \in Entries /\ ~File(c, t).isDir
       /\ File(c, t).content = c /\ File(c, t).mtime = t
<1>1. ASSUME NEW isDir \in BOOLEAN, NEW size \in Nat, NEW t \in Int, NEW c \in Contents
      PROVE  [isDir |-> isDir, size |-> size, mtime |-> t, type |-> "unknown", content |-> c]
               \in Entries
  BY DEF Entries
<1>2. Dir \in Entries /\ Dir.isDir
  <2>1. Dir = [isDir |-> TRUE, size |-> 0, mtime |-> 0, type |-> "unknown", content |-> 0]
    BY DEF Dir, Entry, DirEntry
  <2>2. Dir.isDir
    BY <2>1
  <2>3. 0 \in Contents /\ 0 \in Nat /\ 0 \in Int /\ TRUE \in BOOLEAN
    BY TreesAssumption
  <2>4. [isDir |-> TRUE, size |-> 0, mtime |-> 0, type |-> "unknown", content |-> 0] \in Entries
    BY <1>1, <2>3 DEF Entries
  <2> QED
    BY <2>1, <2>2, <2>4
<1>3. ASSUME NEW c \in Contents, NEW t \in Int
      PROVE  /\ File(c, t) \in Entries /\ ~File(c, t).isDir
             /\ File(c, t).content = c /\ File(c, t).mtime = t
  <2>1. SizeOf[c] \in Nat
    BY TreesAssumption
  <2>2. File(c, t) = [isDir |-> FALSE, size |-> SizeOf[c], mtime |-> t,
                      type |-> "unknown", content |-> c]
    BY DEF File, Entry, FileEntry
  <2>3. ~File(c, t).isDir /\ File(c, t).content = c /\ File(c, t).mtime = t
    BY <2>2
  <2> QED
    BY <1>1, <2>1, <2>2, <2>3
<1> QED
  BY <1>2, <1>3

LEMMA AncestorsArePaths ==
  ASSUME NEW rel \in Paths
  PROVE  Ancestors(rel) \subseteq Paths
<1>1. ASSUME NEW n \in 1..(Len(rel) - 1)
      PROVE  SubSeq(rel, 1, n) \in Seq(STRING) /\ Len(SubSeq(rel, 1, n)) = n
  BY DEF Paths
<1> QED
  BY <1>1 DEF Ancestors, Paths

LEMMA TreePut ==
  ASSUME NEW tree, IsTree(tree), NEW x \in Paths, NEW y \in Entries
  PROVE  IsTree(Put(tree, x, y))
  BY DEF IsTree, Put

LEMMA TreeWithDirs ==
  ASSUME NEW tree, IsTree(tree), NEW dirs \in SUBSET Paths
  PROVE  IsTree(WithDirs(tree, dirs))
  BY NewEntries DEF IsTree, WithDirs

LEMMA TreePartlyMade ==
  ASSUME NEW tree, IsTree(tree), NEW rel \in Paths, NEW next \in PartlyMade(tree, rel)
  PROVE  IsTree(next)
<1>1. PICK n : next = WithDirs(tree, {p \in Ancestors(rel) : Len(p) <= n})
  BY DEF PartlyMade
<1>2. {p \in Ancestors(rel) : Len(p) <= n} \in SUBSET Paths
  BY AncestorsArePaths
<1> QED
  BY <1>1, <1>2, TreeWithDirs

LEMMA TreeWithout ==
  ASSUME NEW tree, IsTree(tree), NEW xs
  PROVE  IsTree(Without(tree, xs))
  BY DEF IsTree, Without

\* What SetTime changes, and that it is only the time.
LEMMA TreeSetTime ==
  ASSUME NEW tree, IsTree(tree), NEW rel, NEW mtime \in Int
  PROVE  LET next == SetTime(tree, rel, mtime) IN
           /\ IsTree(next) /\ DOMAIN next = DOMAIN tree
           /\ \A r \in DOMAIN tree :
                /\ next[r].isDir = tree[r].isDir /\ next[r].content = tree[r].content
                /\ next[r] = tree[r] \/ (r = rel /\ next[r].mtime = mtime /\ mtime # NoTime)
<1> DEFINE next == SetTime(tree, rel, mtime)
<1>1. CASE next = tree
  BY <1>1
<1>2. CASE /\ next = [tree EXCEPT ![rel].mtime = mtime]
           /\ rel \in DOMAIN tree /\ mtime # NoTime
  <2> DEFINE e == [tree[rel] EXCEPT !.mtime = mtime]
  <2>1. tree[rel] \in Entries
    BY <1>2 DEF IsTree
  <2>2. /\ e \in Entries /\ e.isDir = tree[rel].isDir
        /\ e.content = tree[rel].content /\ e.mtime = mtime
    BY <2>1 DEF Entries
  <2>3. next = [tree EXCEPT ![rel] = e]
    BY <1>2
  <2> HIDE DEF e, next
  <2>4. /\ DOMAIN next = DOMAIN tree /\ next[rel] = e
        /\ \A r \in DOMAIN tree : r # rel => next[r] = tree[r]
    BY <1>2, <2>3
  <2> QED
    BY <1>2, <2>2, <2>4 DEF IsTree, next
<1> QED
  BY <1>1, <1>2 DEF SetTime, IsFile

LEMMA TreeOsRemove ==
  ASSUME IsTree(local), NEW rel
  PROVE  IsTree(OsRemove(rel))
  BY TreeWithout DEF OsRemove

\* What a plan is about are the paths of the trees it was made from.
LEMMA JobsHavePaths ==
  ASSUME NEW c, NEW R, NEW L, IsTree(R), IsTree(L),
         NEW j \in plan(c, R, L), j.kind # "rm_remote"
  PROVE  j.rel \in Paths
<1>1. CASE j.kind \in {"rm_local_file", "rm_local_dir"}
  BY <1>1, PlanParts, CleanupLocalJobs DEF IsTree
<1>2. CASE j.kind \notin {"rm_local_file", "rm_local_dir"}
  <2>1. j \in transferJobs(c, R, L)
    BY <1>2, PlanParts
  <2> QED
    BY <2>1, PullJobs, PushJobs DEF transferJobs, IsTree
<1> QED
  BY <1>1, <1>2

-----------------------------------------------------------------------------
(* Every variable has its type.                                            *)
LEMMA TypeInit == Init => TypeOK
<1> SUFFICES ASSUME Init PROVE TypeOK
  OBVIOUS
<1>1. IsTree(remote) /\ IsTree(local)
  BY TreesAssumption DEF Init
<1>2. DOMAIN seenRemote = {} /\ DOMAIN seenLocal = {} /\ DOMAIN running = {}
  BY DEF Init
<1>3. 0 \in 0..edits /\ now = StartTime + 0 * (Tolerance + 1)
  BY SyncAssumption, ToleranceAssumption DEF Init
<1>4. edits \in 0..MaxEdits /\ faults \in 0..MaxFaults /\ stops \in 0..MaxStops
  BY SyncAssumption DEF Init
<1>5. IsTree(seenRemote) /\ IsTree(seenLocal)
  BY <1>2 DEF IsTree
<1>6. \A j \in DOMAIN running : running[j] \in Runs
  BY <1>2
<1>7. /\ pc \in {"idle", "list", "scan", "mkdir", "download", "upload", "remove"}
      /\ cancelled \in BOOLEAN /\ result \in Results
  BY DEF Init, Results
<1> QED
  BY <1>1, <1>3, <1>4, <1>5, <1>6, <1>7 DEF TypeOK

\* How far a step may take the clock and the bounds.
LEMMA ClockNow ==
  ASSUME TypeOK
  PROVE  now \in Contents /\ now \in Nat
<1>1. Tolerance + 1 \in Nat /\ StartTime \in Nat /\ MaxEdits \in Nat
  BY SyncAssumption, ToleranceAssumption
<1>2. PICK n \in 0..edits : now = StartTime + n * (Tolerance + 1)
  BY DEF TypeOK
<1>3. n \in 0..MaxEdits /\ n \in Nat
  BY <1>1, <1>2 DEF TypeOK
<1>4. n * (Tolerance + 1) \in Nat
  BY <1>1, <1>3
<1> QED
  BY <1>1, <1>2, <1>3, <1>4, TreesAssumption

LEMMA ClockNext ==
  ASSUME TypeOK, [Next]_vars
  PROVE  /\ now' \in Contents \cap Nat /\ now \in Contents \cap Nat /\ now <= now'
         /\ (\E n \in 0..edits : now = StartTime + n * (Tolerance + 1))'
         /\ edits' \in 0..MaxEdits /\ faults' \in 0..MaxFaults /\ stops' \in 0..MaxStops
<1> DEFINE T == Tolerance + 1
<1>1. T \in Nat /\ StartTime \in Nat /\ MaxEdits \in Nat /\ MaxFaults \in Nat /\ MaxStops \in Nat
  BY SyncAssumption, ToleranceAssumption
<1>2. PICK n \in 0..edits : now = StartTime + n * T
  BY DEF TypeOK
<1>3. edits \in 0..MaxEdits /\ faults \in 0..MaxFaults /\ stops \in 0..MaxStops
  BY DEF TypeOK
<1>4. faults' \in 0..MaxFaults /\ stops' \in 0..MaxStops
  <2>1. faults' = faults \/ (faults < MaxFaults /\ faults' = faults + 1)
    BY
    DEF Next, System, Progress, JobStep, RemoveStep, Users, Begin, ListRemote, ListFails,
        ScanAndPlan, MkdirRemote, MkdirLocal, EndMkdir, StartJob, Aborted, DownloadFetch,
        DownloadFault, RenamePart, SetListedTime, UploadOpen, UploadPut, UploadFault,
        AlignTime, EndDownloads, EndUploads, RmLocalFile, RmLocalDir, RmRemote, EndPass,
        Cancel, Crash, UserReplacesDir, UserWrites, UserDeletes, UserMakesDir,
        Fault, RequestBreaks, bounds, vars
  <2>2. stops' = stops \/ (stops < MaxStops /\ stops' = stops + 1)
    BY
    DEF Next, System, Progress, JobStep, RemoveStep, Users, Begin, ListRemote, ListFails,
        ScanAndPlan, MkdirRemote, MkdirLocal, EndMkdir, StartJob, Aborted, DownloadFetch,
        DownloadFault, RenamePart, SetListedTime, UploadOpen, UploadPut, UploadFault,
        AlignTime, EndDownloads, EndUploads, RmLocalFile, RmLocalDir, RmRemote, EndPass,
        Cancel, Crash, UserReplacesDir, UserWrites, UserDeletes, UserMakesDir, bounds, vars
  <2> QED
    BY <1>1, <1>3, <2>1, <2>2
<1>5. \/ UNCHANGED <<now, edits>>
      \/ edits < MaxEdits /\ edits' = edits + 1 /\ now' \in {now, now + Tolerance + 1}
  BY
  DEF Next, System, Progress, JobStep, RemoveStep, Users, Begin, ListRemote, ListFails,
      ScanAndPlan, MkdirRemote, MkdirLocal, EndMkdir, StartJob, Aborted, DownloadFetch,
      DownloadFault, RenamePart, SetListedTime, UploadOpen, UploadPut, UploadFault,
      AlignTime, EndDownloads, EndUploads, RmLocalFile, RmLocalDir, RmRemote, EndPass,
      Cancel, Crash, UserReplacesDir, UserWrites, UserDeletes, UserMakesDir, UserMayEdit,
      bounds, vars
<1>6. edits' \in 0..MaxEdits /\ edits \in Nat /\ edits' \in Nat /\ edits <= edits'
  BY <1>1, <1>3, <1>5
<1>7. n * T \in Nat /\ (n + 1) * T = n * T + T
  BY <1>1, <1>2, <1>6
<1>8. \E m \in 0..edits' : now' = StartTime + m * T
  <2>1. CASE now' = now
    BY <1>2, <1>6, <2>1
  <2>2. CASE now' = now + Tolerance + 1 /\ edits' = edits + 1
    <3>1. now' = StartTime + (n + 1) * T
      BY <1>1, <1>2, <1>7, <2>2, SyncAssumption, ToleranceAssumption
    <3>2. n + 1 \in 0..edits'
      BY <1>2, <1>6, <2>2
    <3> QED
      BY <3>1, <3>2
  <2> QED
    BY <1>5, <2>1, <2>2
<1>9. now \in Nat /\ now \in Contents
  BY ClockNow
<1>10. now' \in Nat /\ now' \in Contents
  <2>1. PICK m \in 0..edits' : now' = StartTime + m * T
    BY <1>8
  <2>2. m \in 0..MaxEdits /\ m * T \in Nat
    BY <1>1, <1>6, <2>1
  <2> QED
    BY <1>1, <2>1, <2>2, TreesAssumption
<1>11. now <= now'
  BY <1>1, <1>5, <1>9, ToleranceAssumption
<1> QED
  BY <1>4, <1>6, <1>8, <1>9, <1>10, <1>11

\* What the outcome of an attempt does to the job.
LEMMA OutcomesTyped ==
  ASSUME TypeOK, NEW j \in DOMAIN running,
         \/ Succeed(j) \/ FailAttempt(j)
         \/ \E point \in Points, c \in Contents : Advance(j, point, c)
  PROVE  \A k \in DOMAIN running' : running'[k] \in Runs
<1>1. \A k \in DOMAIN running : running[k] \in Runs
  BY DEF TypeOK
<1>2. CASE running' = Without(running, {j})
  BY <1>1, <1>2 DEF Without
<1>3. ASSUME NEW r \in Runs, running' = [running EXCEPT ![j] = r]
      PROVE  \A k \in DOMAIN running' : running'[k] \in Runs
  BY <1>1, <1>3
<1>4. CASE \E point \in Points, c \in Contents : Advance(j, point, c)
  <2>1. PICK point \in Points, c \in Contents : Advance(j, point, c)
    BY <1>4
  <2> DEFINE r == [running[j] EXCEPT !.at = point, !.content = c]
  <2>2. r \in Runs
    BY <1>1 DEF Runs
  <2>3. running' = [running EXCEPT ![j] = r]
    BY <2>1 DEF Advance
  <2> HIDE DEF r
  <2> QED
    BY <1>3, <2>2, <2>3
<1>5. CASE running[j].tries < Retries /\ running' = [running EXCEPT ![j] =
             [at |-> "try", tries |-> running[j].tries + 1, content |-> 0]]
  <2>1. [at |-> "try", tries |-> running[j].tries + 1, content |-> 0] \in Runs
    BY <1>1, <1>5, SyncAssumption, TreesAssumption DEF Runs, Points
  <2> QED
    BY <1>3, <1>5, <2>1
<1> QED
  BY <1>2, <1>4, <1>5 DEF Succeed, FailAttempt

LEMMA RunningNext ==
  ASSUME TypeOK, Inv, [Next]_vars
  PROVE  \A k \in DOMAIN running' : running'[k] \in Runs
<1>1. \A k \in DOMAIN running : running[k] \in Runs
  BY DEF TypeOK
<1>2. CASE running' = running \/ DOMAIN running' = {}
  BY <1>1, <1>2
<1>3. ASSUME NEW j \in todo, JobStep(j)
      PROVE  \A k \in DOMAIN running' : running'[k] \in Runs
  <2>1. CASE StartJob(j)
    <3>1. [at |-> "try", tries |-> 0, content |-> 0] \in Runs
      BY SyncAssumption, TreesAssumption DEF Runs, Points
    <3> QED
      BY <1>1, <2>1, <3>1 DEF StartJob, Put
  <2>2. CASE ~StartJob(j)
    <3>1. j \in DOMAIN running
      BY <1>3, <2>2
      DEF JobStep, Aborted, DownloadFetch, DownloadFault, RenamePart, SetListedTime,
          UploadOpen, UploadPut, UploadFault, AlignTime, At
    <3>2. /\ running[j].content \in Contents
          /\ IsFile(remote, j.rel) => remote[j.rel].content \in Contents
          /\ IsFile(local, j.rel) => local[j.rel].content \in Contents
      BY <1>1, <3>1 DEF TypeOK, IsTree, IsFile, Entries, Runs
    <3>3. \/ Succeed(j) \/ FailAttempt(j)
          \/ \E point \in Points, c \in Contents : Advance(j, point, c)
      BY <1>3, <2>2, <3>2
      DEF JobStep, Aborted, DownloadFetch, DownloadFault, RenamePart, SetListedTime,
          UploadOpen, UploadPut, UploadFault, AlignTime, Expected, Points
    <3> QED
      BY <3>1, <3>3, OutcomesTyped
  <2> QED
    BY <2>1, <2>2
<1>4. CASE ~\E j \in todo : JobStep(j)
  <2>1. CASE \/ Begin \/ ListRemote \/ ListFails \/ ScanAndPlan
             \/ EndMkdir \/ EndDownloads \/ EndUploads \/ EndPass \/ Cancel \/ UNCHANGED vars
    <3>1. running' = running
      BY <2>1 DEF Begin, ListRemote, ListFails, ScanAndPlan, EndMkdir, EndDownloads,
                  EndUploads, EndPass, Cancel, pool, vars
    <3> QED
      BY <1>2, <3>1
  <2>2. CASE Users
    <3>1. running' = running
      BY <2>2 DEF Users, UserReplacesDir, UserWrites, UserDeletes, UserMakesDir, pool
    <3> QED
      BY <1>2, <3>1
  <2>3. CASE Crash
    <3>1. DOMAIN running' = {}
      BY <2>3 DEF Crash
    <3> QED
      BY <1>2, <3>1
  <2>4. ASSUME NEW j \in todo, MkdirRemote(j) \/ MkdirLocal(j) \/ RemoveStep(j)
        PROVE  running' = running
    BY <2>4 DEF MkdirRemote, MkdirLocal, RemoveStep, RmLocalFile, RmLocalDir, RmRemote
  <2> QED
    BY <1>2, <1>4, <2>1, <2>2, <2>3, <2>4 DEF Next, System, Progress
<1> QED
  BY <1>3, <1>4

\* What a step of a job does to the trees, entry by entry.
LEMMA JobTrees ==
  ASSUME TypeOK, Inv, NEW j \in todo, MkdirRemote(j) \/ MkdirLocal(j) \/ JobStep(j)
  PROVE  IsTree(remote') /\ IsTree(local')
<1>1. now \in Int /\ now \in Contents
  BY ClockNow
<1>9. IsTree(remote) /\ IsTree(local) /\ IsTree(seenRemote) /\ IsTree(seenLocal)
  BY DEF TypeOK
<1>2. CASE UNCHANGED trees
  BY <1>9, <1>2 DEF trees
<1>3. CASE j.kind # "rm_remote"
  <2>1. j.rel \in Paths /\ Ancestors(j.rel) \in SUBSET Paths
    BY <1>9, <1>3, JobsHavePaths, AncestorsArePaths DEF Inv, PlanInv
  <2>2. CASE MkdirRemote(j)
    <3>1. \/ remote' = remote
          \/ remote' = WithDirs(remote, Ancestors(j.rel) \cup {j.rel})
          \/ remote' \in PartlyMade(remote, j.rel)
      BY <2>2 DEF MkdirRemote
    <3>2. local' = local
      BY <2>2 DEF MkdirRemote
    <3> QED
      BY <1>9, <2>1, <3>1, <3>2, TreeWithDirs, TreePartlyMade
  <2>3. CASE MkdirLocal(j)
    <3>1. /\ remote' = remote
          /\ local' = local \/ local' = WithDirs(local, Ancestors(j.rel) \cup {j.rel})
      BY <2>3 DEF MkdirLocal
    <3> QED
      BY <1>9, <2>1, <3>1, TreeWithDirs
  <2>4. CASE DownloadFetch(j) \/ DownloadFault(j)
    <3>1. remote' = remote /\ (local' = local \/ local' = WithDirs(local, Ancestors(j.rel)))
      BY <2>4 DEF DownloadFetch, DownloadFault
    <3> QED
      BY <1>9, <2>1, <3>1, TreeWithDirs
  <2>5. CASE RenamePart(j)
    <3>1. running[j].content \in Contents
      BY <2>5 DEF TypeOK, RenamePart, At, Runs
    <3>2. /\ remote' = remote
          /\ local' = local \/ local' = Put(local, j.rel, File(running[j].content, now))
      BY <2>5 DEF RenamePart
    <3>3. File(running[j].content, now) \in Entries
      BY <1>1, <3>1, NewEntries
    <3> QED
      BY <1>9, <2>1, <3>2, <3>3, TreePut
  <2>6. CASE SetListedTime(j)
    <3>1. j.kind = "download" /\ remote' = remote
          /\ local' \in {local, SetTime(local, j.rel, seenRemote[j.rel].mtime)}
      BY <2>6 DEF SetListedTime
    <3>2. j.rel \in DOMAIN seenRemote
      BY <3>1, PlanParts DEF Inv, PlanInv, Rels
    <3>3. seenRemote[j.rel].mtime \in Int
      BY <1>9, <3>2 DEF IsTree, Entries
    <3> QED
      BY <1>9, <3>1, <3>3, TreeSetTime
  <2>7. CASE UploadPut(j) \/ UploadFault(j)
    <3>1. running[j].content \in Contents
      BY <2>7 DEF TypeOK, UploadPut, UploadFault, At, Runs
    <3>2. /\ local' = local
          /\ \/ remote' = remote \/ remote' = Stored(j)
             \/ remote' \in PartlyMade(remote, j.rel)
      BY <2>7 DEF UploadPut, UploadFault
    <3>3. IsTree(Stored(j))
      <4>1. File(running[j].content, now) \in Entries
        BY <1>1, <3>1, NewEntries
      <4>2. IsTree(WithDirs(remote, Ancestors(j.rel)))
        BY <1>9, <2>1, TreeWithDirs
      <4> QED
        BY <2>1, <4>1, <4>2, TreePut DEF Stored
    <3> QED
      BY <1>9, <2>1, <3>2, <3>3, TreePartlyMade
  <2>8. CASE AlignTime(j)
    <3>1. /\ remote' = remote
          /\ \/ local' = local
             \/ /\ j.rel \in DOMAIN remote
                /\ local' = SetTime(local, j.rel, remote[j.rel].mtime)
      BY <2>8 DEF AlignTime
    <3>2. j.rel \in DOMAIN remote => remote[j.rel].mtime \in Int
      BY <1>9 DEF IsTree, Entries
    <3> QED
      BY <1>9, <3>1, <3>2, TreeSetTime
  <2>9. CASE StartJob(j) \/ Aborted(j) \/ UploadOpen(j)
    BY <1>2, <2>9 DEF StartJob, Aborted, UploadOpen
  <2> QED
    BY <2>2, <2>3, <2>4, <2>5, <2>6, <2>7, <2>8, <2>9 DEF JobStep
<1>4. j.kind # "rm_remote"
  BY DEF MkdirRemote, MkdirLocal, JobStep, StartJob, Aborted, DownloadFetch, DownloadFault,
         RenamePart, SetListedTime, UploadOpen, UploadPut, UploadFault, AlignTime,
         IsTransfer, At, Inv, PoolInv
<1> QED
  BY <1>3, <1>4

LEMMA UserTrees ==
  ASSUME TypeOK, Users
  PROVE  IsTree(remote') /\ IsTree(local')
<1>9. IsTree(remote) /\ IsTree(local)
  BY DEF TypeOK
<1>1. now' \in Int /\ now' \in Contents
  BY ClockNext DEF Next
<1>2. File(now', now') \in Entries /\ Dir \in Entries
  BY <1>1, NewEntries
<1>3. \E rel \in Paths :
        /\ remote' \in {remote, Put(remote, rel, File(now', now')), Put(remote, rel, Dir),
                       Without(remote, {rel})}
        /\ local' \in {local, Put(local, rel, File(now', now')), Put(local, rel, Dir),
                      Without(local, {rel})}
  <2>1. CASE UserReplacesDir
    BY <1>9, <2>1 DEF UserReplacesDir, IsTree
  <2>2. ASSUME NEW rel \in UserFiles, UserWrites(rel) \/ UserDeletes(rel) \/ UserMakesDir(rel)
        PROVE  /\ rel \in Paths
               /\ remote' \in {remote, Put(remote, rel, File(now', now')), Put(remote, rel, Dir),
                              Without(remote, {rel})}
               /\ local' \in {local, Put(local, rel, File(now', now')), Put(local, rel, Dir),
                             Without(local, {rel})}
    BY <2>2, TreesAssumption DEF UserWrites, UserDeletes, UserMakesDir
  <2> QED
    BY <2>1, <2>2 DEF Users
<1> QED
  BY <1>2, <1>3, <1>9, TreePut, TreeWithout

LEMMA TypeNext ==
  ASSUME TypeOK, Inv, [Next]_vars
  PROVE  TypeOK'
<1>1. IsTree(remote') /\ IsTree(local')
  <2>1. CASE UNCHANGED trees
    BY <2>1 DEF trees, TypeOK
  <2>2. ASSUME NEW j \in todo, MkdirRemote(j) \/ MkdirLocal(j) \/ JobStep(j)
        PROVE  IsTree(remote') /\ IsTree(local')
    BY <2>2, JobTrees
  <2>3. ASSUME NEW j \in todo, RemoveStep(j)
        PROVE  IsTree(remote') /\ IsTree(local')
    BY <2>3, TreeOsRemove, TreeWithout
    DEF TypeOK, RemoveStep, RmLocalFile, RmLocalDir, RmRemote
  <2>4. CASE Users
    BY <2>4, UserTrees
  <2>5. CASE ~Users /\ ~\E j \in todo : \/ MkdirRemote(j) \/ MkdirLocal(j) \/ JobStep(j)
                                       \/ RemoveStep(j)
    BY <2>1, <2>5
    DEF Next, System, Progress, Begin, ListRemote, ListFails, ScanAndPlan, EndMkdir,
        EndDownloads, EndUploads, EndPass, Cancel, Crash, trees, vars
  <2> QED
    BY <2>2, <2>3, <2>4, <2>5
<1>2. IsTree(seenRemote') /\ IsTree(seenLocal')
  <2>1. /\ seenRemote' \in {seenRemote, remote, << >>}
        /\ seenLocal' \in {seenLocal, local, << >>}
    BY
    DEF Next, System, Progress, JobStep, RemoveStep, Users, Begin, ListRemote, ListFails,
        ScanAndPlan, MkdirRemote, MkdirLocal, EndMkdir, StartJob, Aborted, DownloadFetch,
        DownloadFault, RenamePart, SetListedTime, UploadOpen, UploadPut, UploadFault,
        AlignTime, EndDownloads, EndUploads, RmLocalFile, RmLocalDir, RmRemote, EndPass,
        Cancel, Crash, UserReplacesDir, UserWrites, UserDeletes, UserMakesDir, seen, vars
  <2>2. IsTree(<< >>)
    BY DEF IsTree
  <2> QED
    BY <2>1, <2>2 DEF TypeOK
<1>3. /\ pc' \in {"idle", "list", "scan", "mkdir", "download", "upload", "remove"}
      /\ cancelled' \in BOOLEAN /\ result' \in Results
  <2>1. /\ pc \in {"idle", "list", "scan", "mkdir", "download", "upload", "remove"}
        /\ cancelled \in BOOLEAN /\ result \in Results
    BY DEF TypeOK
  <2>2. CASE UNCHANGED <<pc, cancelled, result>>
    BY <2>1, <2>2
  <2>3. ASSUME NEW j \in todo,
               MkdirRemote(j) \/ MkdirLocal(j) \/ JobStep(j) \/ RemoveStep(j)
        PROVE  UNCHANGED <<pc, cancelled, result>>
    <3>1. CASE JobStep(j)
      BY <3>1, JobsAccounted DEF Inv, InPhase
    <3> QED
      BY <2>3, <3>1 DEF MkdirRemote, MkdirLocal, RemoveStep, RmLocalFile, RmLocalDir, RmRemote
  <2>4. CASE Users \/ UNCHANGED vars
    BY <2>2, <2>4 DEF Users, UserReplacesDir, UserWrites, UserDeletes, UserMakesDir, vars
  <2>5. CASE Begin \/ ListRemote \/ ListFails \/ ScanAndPlan \/ Cancel \/ Crash
    BY <2>1, <2>5
    DEF Begin, ListRemote, ListFails, ScanAndPlan, Cancel, Crash, Results
  <2>6. CASE EndMkdir \/ EndDownloads \/ EndUploads \/ EndPass
    BY <2>1, <2>6 DEF EndMkdir, EndDownloads, EndUploads, EndPass, Results
  <2> QED
    BY <2>2, <2>3, <2>4, <2>5, <2>6 DEF Next, System, Progress
<1> QED
  BY <1>1, <1>2, <1>3, ClockNext, RunningNext DEF TypeOK

LEMMA TypeHolds == Spec => []TypeOK
  BY TypeInit, TypeNext, Invariance, PTL DEF Spec

(* For all settings and trees, and whatever fails, is cancelled or edited: *)
(* all variables have their types, no job is tried more often than its     *)
(* retries allow, the plan is accounted for, phases are barriers, and a    *)
(* dry run carries nothing out.                                            *)
THEOREM TypeCorrect == Spec => []TypedInv
  BY TypeHolds, Invariance, DryRunHolds, PTL DEF TypedInv

-----------------------------------------------------------------------------
(* The jobs of a one-way plan go one way.                                  *)
LEMMA OneWayJobs ==
  ASSUME NEW c, c.direction \in Directions, NEW R, NEW L, NEW j \in plan(c, R, L)
  PROVE  /\ c.direction = "pull" => j.kind \notin {"mkdir_remote", "upload", "rm_remote"}
         /\ c.direction = "push" => j.kind \notin {"mkdir_local", "download"}
<1>1. ASSUME j.kind \in {"mkdir_remote", "upload"} PROVE c.direction # "pull"
  <2>1. j \in transferJobs(c, R, L)
    BY <1>1, PlanParts
  <2>2. j \notin planPull(c, R, L)
    BY <1>1, PullJobs
  <2> QED
    BY <2>1, <2>2 DEF transferJobs, wantsPush
<1>2. ASSUME j.kind \in {"mkdir_local", "download"} PROVE c.direction # "push"
  <2>1. j \in transferJobs(c, R, L)
    BY <1>2, PlanParts
  <2>2. j \notin planPush(c, R, L)
    BY <1>2, PushJobs
  <2> QED
    BY <2>1, <2>2 DEF transferJobs, wantsPull
<1>3. j.kind = "rm_remote" => c.direction # "pull"
  BY PlanRemovals
<1> QED
  BY <1>1, <1>2, <1>3

\* Files that stay keep their contents.
KeepsContents(tree, next) ==
  \A r \in Files(tree) \cap DOMAIN next : next[r].content = tree[r].content

(* For all settings and trees, and whatever fails, is cancelled or edited: *)
(* a pull never writes to the remote tree, a push changes the content of   *)
(* no local file, and a dry run touches neither tree.                      *)
THEOREM SourceIsLeftAlone == Spec => OneWayLeavesSourceAlone
<1> DEFINE Alone == /\ cfg.dryRun => UNCHANGED trees
                    /\ cfg.direction = "pull" => remote' = remote
                    /\ cfg.direction = "push" =>
                         \A r \in Files(local) \cap DOMAIN local' :
                           local'[r].content = local[r].content
<1>1. ASSUME Inv, DryRunInv, TypeOK, System
      PROVE  Alone
  <2>1. CASE UNCHANGED trees
    BY <2>1 DEF trees, Files
  <2>2. CASE Begin \/ ListRemote \/ ListFails \/ ScanAndPlan
             \/ EndMkdir \/ EndDownloads \/ EndUploads \/ EndPass
    <3>1. UNCHANGED trees
      BY <2>2 DEF Begin, ListRemote, ListFails, ScanAndPlan, EndMkdir, EndDownloads,
                  EndUploads, EndPass
    <3> QED
      BY <2>1, <3>1
  <2>3. ASSUME NEW j \in todo,
               MkdirRemote(j) \/ MkdirLocal(j) \/ JobStep(j) \/ RemoveStep(j)
        PROVE  Alone
    <3>1. ~cfg.dryRun
      <4>1. JobStep(j) => pc \in Phases
        BY JobsAccounted, <1>1 DEF Inv, Phases
      <4>2. pc \in Phases
        BY <2>3, <4>1 DEF MkdirRemote, MkdirLocal, RemoveStep, RmLocalFile, RmLocalDir,
                          RmRemote, Phases
      <4> QED
        BY <1>1, <4>2 DEF DryRunInv
    <3>2. /\ cfg.direction = "pull" => j.kind \notin {"mkdir_remote", "upload", "rm_remote"}
          /\ cfg.direction = "push" => j.kind \notin {"mkdir_local", "download"}
      BY <1>1, OneWayJobs, SyncAssumption DEF Inv, PlanInv
    <3>3. ASSUME cfg.direction = "pull" PROVE remote' = remote
      BY <2>3, <3>2, <3>3
      DEF MkdirRemote, MkdirLocal, JobStep, StartJob, Aborted, DownloadFetch, DownloadFault,
          RenamePart, SetListedTime, UploadOpen, UploadPut, UploadFault, AlignTime,
          RemoveStep, RmLocalFile, RmLocalDir, RmRemote, trees
    <3>4. ASSUME cfg.direction = "push" PROVE KeepsContents(local, local')
      <4>1. /\ IsTree(local) /\ IsTree(remote)
        BY <1>1 DEF TypeOK
      <4>2. CASE local' = local
        BY <4>2 DEF KeepsContents
      <4>3. CASE AlignTime(j) /\ local' # local
        <5>1. /\ j.rel \in DOMAIN remote
              /\ local' = SetTime(local, j.rel, remote[j.rel].mtime)
          BY <4>3 DEF AlignTime
        <5>2. remote[j.rel].mtime \in Int
          BY <4>1, <5>1 DEF IsTree, Entries
        <5> QED
          BY <4>1, <5>1, <5>2, TreeSetTime DEF KeepsContents, Files
      <4>4. CASE local' = OsRemove(j.rel)
        BY <4>4 DEF KeepsContents, OsRemove, Without, Files
      <4>5. \/ local' = local
            \/ AlignTime(j)
            \/ local' = OsRemove(j.rel)
        BY <2>3, <3>2, <3>4
        DEF MkdirRemote, MkdirLocal, JobStep, StartJob, Aborted, DownloadFetch,
            DownloadFault, RenamePart, SetListedTime, UploadOpen, UploadPut, UploadFault,
            RemoveStep, RmLocalFile, RmLocalDir, RmRemote, trees
      <4> QED
        BY <4>2, <4>3, <4>4, <4>5
    <3> QED
      BY <3>1, <3>3, <3>4 DEF KeepsContents
  <2> QED
    BY <1>1, <2>2, <2>3 DEF System, Progress
<1>2. Inv /\ DryRunInv /\ TypeOK => [System => Alone]_vars
  BY <1>1
<1> QED
  BY <1>2, Invariance, DryRunHolds, TypeHolds, PTL DEF OneWayLeavesSourceAlone
-----------------------------------------------------------------------------
(* What the steps of a pass do to the files of the trees, whatever they    *)
(* do to the directories.                                                  *)
SameFiles(tree, next) ==
  Files(next) = Files(tree) /\ \A r \in Files(tree) : next[r] = tree[r]

\* The file of that name and no other was written.
FileWritten(tree, next, rel) ==
  /\ Files(next) = Files(tree) \cup {rel}
  /\ \A r \in Files(tree) \ {rel} : next[r] = tree[r]

\* It is a copy of the other side's, with a time that has been.
IsCopy(from, to, next, rel) ==
  /\ FileWritten(to, next, rel) /\ rel \in Files(from)
  /\ next[rel].content = from[rel].content /\ next[rel].mtime \in 0..now

LEMMA FilesAre == \A tree, r : IsFile(tree, r) <=> r \in Files(tree)
  BY DEF IsFile, Files

LEMMA FilesWithDirs ==
  ASSUME NEW tree, NEW dirs
  PROVE  SameFiles(tree, WithDirs(tree, dirs))
<1> DEFINE next == WithDirs(tree, dirs)
<1>1. DOMAIN next = DOMAIN tree \cup dirs
  BY DEF WithDirs
<1>2. \A r \in DOMAIN next : next[r] = IF r \in DOMAIN tree THEN tree[r] ELSE Dir
  BY DEF WithDirs
<1>3. Dir.isDir
  BY NewEntries
<1> HIDE DEF next
<1> QED
  BY <1>1, <1>2, <1>3 DEF SameFiles, Files, next

LEMMA FilesPartlyMade ==
  ASSUME NEW tree, NEW rel, NEW next \in PartlyMade(tree, rel)
  PROVE  SameFiles(tree, next)
  BY FilesWithDirs DEF PartlyMade

LEMMA FilesPut ==
  ASSUME NEW tree, NEW rel, NEW c \in Contents, NEW t \in Int
  PROVE  LET next == Put(tree, rel, File(c, t)) IN
           FileWritten(tree, next, rel) /\ next[rel].content = c /\ next[rel].mtime = t
<1> DEFINE next == Put(tree, rel, File(c, t))
<1>1. /\ DOMAIN next = DOMAIN tree \cup {rel}
      /\ next[rel] = File(c, t) /\ \A r \in DOMAIN tree : r # rel => next[r] = tree[r]
  BY DEF Put
<1>2. ~File(c, t).isDir /\ File(c, t).content = c /\ File(c, t).mtime = t
  BY NewEntries
<1> HIDE DEF next
<1> QED
  BY <1>1, <1>2 DEF FileWritten, Files, next

LEMMA FilesStored ==
  ASSUME NEW j, running[j].content \in Contents, now \in Int
  PROVE  /\ FileWritten(remote, Stored(j), j.rel)
         /\ Stored(j)[j.rel].content = running[j].content /\ Stored(j)[j.rel].mtime = now
<1> DEFINE made == WithDirs(remote, Ancestors(j.rel))
<1>1. SameFiles(remote, made)
  BY FilesWithDirs
<1> HIDE DEF made
<1>2. Stored(j) = Put(made, j.rel, File(running[j].content, now))
  BY DEF Stored, made
<1>3. /\ FileWritten(made, Stored(j), j.rel)
      /\ Stored(j)[j.rel].content = running[j].content /\ Stored(j)[j.rel].mtime = now
  BY <1>2, FilesPut
<1> QED
  BY <1>1, <1>3 DEF SameFiles, FileWritten

LEMMA FilesSetTime ==
  ASSUME NEW tree, IsTree(tree), NEW rel, NEW mtime \in Int
  PROVE  LET next == SetTime(tree, rel, mtime) IN
           \/ SameFiles(tree, next)
           \/ /\ FileWritten(tree, next, rel) /\ rel \in Files(tree)
              /\ next[rel].content = tree[rel].content /\ next[rel].mtime = mtime
<1> DEFINE next == SetTime(tree, rel, mtime)
<1>1. /\ DOMAIN next = DOMAIN tree
      /\ \A r \in DOMAIN tree :
           /\ next[r].isDir = tree[r].isDir /\ next[r].content = tree[r].content
           /\ next[r] = tree[r] \/ (r = rel /\ next[r].mtime = mtime)
  BY TreeSetTime
<1> HIDE DEF next
<1>2. Files(next) = Files(tree)
  BY <1>1 DEF Files
<1>3. CASE rel \in Files(tree) /\ next[rel] # tree[rel]
  <2>1. rel \in DOMAIN tree
    BY <1>3 DEF Files
  <2>2. next[rel].content = tree[rel].content /\ next[rel].mtime = mtime
    BY <1>1, <1>3, <2>1
  <2>3. \A r \in Files(tree) \ {rel} : next[r] = tree[r]
    BY <1>1 DEF Files
  <2> QED
    BY <1>2, <1>3, <2>2, <2>3 DEF FileWritten, next
<1>4. CASE ~(rel \in Files(tree) /\ next[rel] # tree[rel])
  <2>1. \A r \in Files(tree) : next[r] = tree[r]
    BY <1>1, <1>4 DEF Files
  <2> QED
    BY <1>2, <2>1 DEF SameFiles, next
<1> QED
  BY <1>3, <1>4

LEMMA FilesWithout ==
  ASSUME NEW tree, NEW xs
  PROVE  LET next == Without(tree, xs) IN
           /\ Files(next) = Files(tree) \ xs /\ \A r \in Files(next) : next[r] = tree[r]
  BY DEF Without, Files

-----------------------------------------------------------------------------
(* What a step of a job does to the files: nothing, or it makes one side's *)
(* copy of the job's file like the other's.                                *)
NoLoss(from, to, rel) == rel \in Files(to) => to[rel].content <= from[rel].content

CopiesDown(j) ==
  /\ remote' = remote /\ IsCopy(remote, local, local', j.rel)
  /\ pc = "upload" => j.rel \in Files(local) /\ local[j.rel].content = remote[j.rel].content
  /\ cfg.conflict # "remote" => NoLoss(remote, local, j.rel)

CopiesUp(j) ==
  /\ local' = local /\ IsCopy(local, remote, remote', j.rel) /\ pc = "upload"
  /\ cfg.conflict # "local" => NoLoss(local, remote, j.rel)

LEMMA JobEffects ==
  ASSUME TypeOK, Inv, Orderly, NEW j \in todo,
         MkdirRemote(j) \/ MkdirLocal(j) \/ JobStep(j)
  PROVE  \/ SameFiles(remote, remote') /\ SameFiles(local, local')
         \/ CopiesDown(j) \/ CopiesUp(j)
<1>1. /\ now \in Nat /\ now \in Contents /\ now \in 0..now /\ now \in Int
      /\ IsTree(remote) /\ IsTree(local) /\ IsTree(seenRemote)
      /\ DatedUpTo(remote, now) /\ DatedUpTo(local, now) /\ DatedUpTo(seenRemote, now)
  BY ClockNow DEF TypeOK, Orderly, AgesInv
<1>2. \A tree : SameFiles(tree, tree)
  BY DEF SameFiles
<1>3. \A tree, r : DatedUpTo(tree, now) /\ r \in Files(tree) =>
        tree[r].content \in 0..now /\ tree[r].mtime \in 0..now
  BY DEF DatedUpTo
<1>4. ASSUME j \in DOMAIN running
      PROVE  Carries(j) /\ running[j].content \in Contents /\ j.kind = pc
  BY <1>4 DEF Orderly, CarriesInv, TypeOK, Runs, Inv, PoolInv
<1>5. CASE \/ MkdirRemote(j) \/ MkdirLocal(j) \/ DownloadFetch(j) \/ DownloadFault(j)
           \/ StartJob(j) \/ Aborted(j) \/ UploadOpen(j)
  <2>1. /\ remote' \in {remote, WithDirs(remote, Ancestors(j.rel) \cup {j.rel})}
             \cup PartlyMade(remote, j.rel)
        /\ local' \in {local, WithDirs(local, Ancestors(j.rel) \cup {j.rel}),
                       WithDirs(local, Ancestors(j.rel))}
    BY <1>5 DEF MkdirRemote, MkdirLocal, DownloadFetch, DownloadFault, StartJob, Aborted,
                UploadOpen, trees
  <2> QED
    BY <1>2, <2>1, FilesWithDirs, FilesPartlyMade
<1>6. CASE RenamePart(j)
  <2>1. /\ j \in DOMAIN running /\ running[j].at = "fetched" /\ remote' = remote
        /\ \/ local' = local
           \/ local' = Put(local, j.rel, File(running[j].content, now))
    BY <1>6 DEF RenamePart, At
  <2>2. /\ j.kind = "download" /\ pc = "download" /\ j.rel \in Files(remote)
        /\ remote[j.rel].content = running[j].content
    BY <1>4, <2>1, FilesAre DEF Carries, Holds
  <2>3. cfg.conflict # "remote" => NoLoss(remote, local, j.rel)
    BY <2>2, FilesAre DEF Orderly, PolicyInv, NoLoss, InBoth
  <2>4. CASE local' = Put(local, j.rel, File(running[j].content, now))
    <3>1. /\ FileWritten(local, local', j.rel)
          /\ local'[j.rel].content = running[j].content /\ local'[j.rel].mtime = now
      <4>1. running[j].content \in Contents /\ now \in Int
        BY <1>1, <1>4, <2>1
      <4> QED
        BY <2>4, <4>1, FilesPut
    <3> QED
      BY <1>1, <2>1, <2>2, <2>3, <3>1 DEF CopiesDown, IsCopy
  <2> QED
    BY <1>2, <2>1, <2>4
<1>7. CASE SetListedTime(j)
  <2>1. /\ j \in DOMAIN running /\ running[j].at = "renamed" /\ remote' = remote
        /\ local' = local \/ local' = SetTime(local, j.rel, seenRemote[j.rel].mtime)
    BY <1>7 DEF SetListedTime, At
  <2>2. /\ j.kind = "download" /\ pc = "download"
        /\ j.rel \in Files(remote) /\ remote[j.rel].content = running[j].content
        /\ j.rel \in Files(local) /\ local[j.rel].content = running[j].content
    BY <1>4, <2>1, FilesAre DEF Carries, Holds
  <2>3. j.rel \in Files(seenRemote)
    <3>1. j \in transferJobs(cfg, seenRemote, seenLocal)
      BY <2>2, PlanParts DEF Inv, PlanInv
    <3> QED
      BY <2>2, <3>1, PullJobs, PushJobs DEF transferJobs, Files
  <2>4. seenRemote[j.rel].mtime \in 0..now /\ seenRemote[j.rel].mtime \in Int
    BY <1>1, <1>3, <2>3
  <2>5. \/ SameFiles(local, local')
        \/ /\ FileWritten(local, local', j.rel)
           /\ local'[j.rel].content = local[j.rel].content
           /\ local'[j.rel].mtime = seenRemote[j.rel].mtime
    BY <1>1, <1>2, <2>1, <2>4, FilesSetTime
  <2>6. NoLoss(remote, local, j.rel)
    BY <1>1, <1>3, <2>2 DEF NoLoss
  <2> QED
    BY <1>2, <2>1, <2>2, <2>4, <2>5, <2>6 DEF CopiesDown, IsCopy
<1>8. CASE UploadPut(j) \/ UploadFault(j)
  <2>1. /\ j \in DOMAIN running /\ running[j].at = "opened" /\ local' = local
        /\ \/ remote' = remote \/ remote' \in PartlyMade(remote, j.rel)
           \/ remote' = Stored(j)
    BY <1>8 DEF UploadPut, UploadFault, At
  <2>2. /\ j.kind = "upload" /\ pc = "upload" /\ j.rel \in Files(local)
        /\ local[j.rel].content = running[j].content
    BY <1>4, <2>1, FilesAre DEF Carries, Holds
  <2>3. cfg.conflict # "local" => NoLoss(local, remote, j.rel)
    BY <2>2, FilesAre DEF Orderly, PolicyInv, NoLoss, InBoth
  <2>4. CASE remote' = Stored(j)
    <3>1. /\ FileWritten(remote, remote', j.rel)
          /\ remote'[j.rel].content = running[j].content /\ remote'[j.rel].mtime = now
      BY <1>1, <1>4, <2>1, <2>4, FilesStored
    <3> QED
      BY <1>1, <2>1, <2>2, <2>3, <3>1 DEF CopiesUp, IsCopy
  <2> QED
    BY <1>2, <2>1, <2>4, FilesPartlyMade
<1>9. CASE AlignTime(j)
  <2>1. /\ j \in DOMAIN running /\ running[j].at = "put" /\ remote' = remote
        /\ local' = local \/ local' = SetTime(local, j.rel, remote[j.rel].mtime)
    BY <1>9 DEF AlignTime, At
  <2>2. /\ j.rel \in Files(remote) /\ remote[j.rel].content = running[j].content
        /\ j.rel \in Files(local) /\ local[j.rel].content = running[j].content
    BY <1>4, <2>1, FilesAre DEF Carries, Holds
  <2>3. remote[j.rel].mtime \in 0..now /\ remote[j.rel].mtime \in Int
    BY <1>1, <1>3, <2>2
  <2>4. \/ SameFiles(local, local')
        \/ /\ FileWritten(local, local', j.rel)
           /\ local'[j.rel].content = local[j.rel].content
           /\ local'[j.rel].mtime = remote[j.rel].mtime
    BY <1>1, <1>2, <2>1, <2>3, FilesSetTime
  <2>5. NoLoss(remote, local, j.rel)
    BY <1>1, <1>3, <2>2 DEF NoLoss
  <2> QED
    BY <1>2, <2>1, <2>2, <2>3, <2>4, <2>5 DEF CopiesDown, IsCopy
<1> QED
  BY <1>5, <1>6, <1>7, <1>8, <1>9 DEF JobStep

\* Copies of a file that have the same content are in order, whatever their times.
LEMMA SameContentOrdered ==
  ASSUME NEW re, NEW le, re.content \in Int, le.content = re.content
  PROVE  Ordered(re, le)
  BY DEF Ordered

LEMMA JobAges ==
  ASSUME TypeOK, AgesInv, NEW j, UNCHANGED <<now, seenRemote>>,
         \/ SameFiles(remote, remote') /\ SameFiles(local, local')
         \/ CopiesDown(j) \/ CopiesUp(j)
  PROVE  AgesInv'
<1>1. now \in Nat /\ now' = now /\ seenRemote' = seenRemote
  BY ClockNow
<1>2. /\ \A r \in Files(remote) : remote[r].mtime \in 0..now /\ remote[r].content \in 0..now
      /\ \A r \in Files(local) : local[r].mtime \in 0..now /\ local[r].content \in 0..now
      /\ \A r \in Files(seenRemote) :
           seenRemote[r].mtime \in 0..now /\ seenRemote[r].content \in 0..now
      /\ \A r \in Files(remote) \cap Files(local) : Ordered(remote[r], local[r])
  BY DEF AgesInv, DatedUpTo
<1>3. CASE SameFiles(remote, remote') /\ SameFiles(local, local')
  BY <1>1, <1>2, <1>3 DEF SameFiles, AgesInv, DatedUpTo
<1>4. CASE CopiesDown(j)
  <2>1. /\ remote' = remote /\ j.rel \in Files(remote)
        /\ Files(local') = Files(local) \cup {j.rel}
        /\ \A r \in Files(local) \ {j.rel} : local'[r] = local[r]
        /\ local'[j.rel].content = remote[j.rel].content /\ local'[j.rel].mtime \in 0..now
    BY <1>4 DEF CopiesDown, IsCopy, FileWritten
  <2>2. Ordered(remote[j.rel], local'[j.rel])
    BY <1>1, <1>2, <2>1, SameContentOrdered
  <2>3. DatedUpTo(local', now)
    BY <1>2, <2>1 DEF DatedUpTo
  <2>4. \A r \in Files(remote) \cap Files(local') : Ordered(remote[r], local'[r])
    BY <1>2, <2>1, <2>2
  <2> QED
    BY <1>1, <2>1, <2>3, <2>4 DEF AgesInv
<1>5. CASE CopiesUp(j)
  <2>1. /\ local' = local /\ j.rel \in Files(local)
        /\ Files(remote') = Files(remote) \cup {j.rel}
        /\ \A r \in Files(remote) \ {j.rel} : remote'[r] = remote[r]
        /\ remote'[j.rel].content = local[j.rel].content /\ remote'[j.rel].mtime \in 0..now
    BY <1>5 DEF CopiesUp, IsCopy, FileWritten
  <2>2. Ordered(remote'[j.rel], local[j.rel])
    BY <1>1, <1>2, <2>1, SameContentOrdered
  <2>3. DatedUpTo(remote', now)
    BY <1>2, <2>1 DEF DatedUpTo
  <2>4. \A r \in Files(remote') \cap Files(local) : Ordered(remote'[r], local[r])
    BY <1>2, <2>1, <2>2
  <2> QED
    BY <1>1, <2>1, <2>3, <2>4 DEF AgesInv
<1> QED
  BY <1>3, <1>4, <1>5

\* What another job carries stays what its source has.
LEMMA OthersCarry ==
  ASSUME Orderly, NEW j, NEW k \in DOMAIN running, k \in DOMAIN running',
         running'[k] = running[k], k.kind = pc,
         \/ SameFiles(remote, remote') /\ SameFiles(local, local')
         \/ CopiesDown(j) \/ CopiesUp(j)
  PROVE  Carries(k)'
<1> DEFINE c == running[k].content
           rf == k.rel \in Files(remote) /\ remote[k.rel].content = c
           lf == k.rel \in Files(local) /\ local[k.rel].content = c
           rn == k.rel \in Files(remote') /\ remote'[k.rel].content = c
           ln == k.rel \in Files(local') /\ local'[k.rel].content = c
<1>1. /\ running[k].at \in {"fetched", "renamed"} => k.kind = "download" /\ rf
      /\ running[k].at = "renamed" => lf
      /\ running[k].at \in {"opened", "put"} => k.kind = "upload" /\ lf
      /\ running[k].at = "put" => rf
  BY FilesAre DEF Orderly, CarriesInv, Carries, Holds
<1>2. CASE (rf => rn) /\ (lf => ln)
  BY <1>1, <1>2, FilesAre DEF Carries, Holds
<1>3. CASE SameFiles(remote, remote') /\ SameFiles(local, local')
  BY <1>2, <1>3 DEF SameFiles
<1>4. CASE CopiesDown(j)
  <2>1. /\ remote' = remote /\ j.rel \in Files(remote)
        /\ Files(local') = Files(local) \cup {j.rel}
        /\ \A r \in Files(local) \ {j.rel} : local'[r] = local[r]
        /\ local'[j.rel].content = remote[j.rel].content
        /\ pc = "upload" => j.rel \in Files(local) /\ local[j.rel].content = remote[j.rel].content
    BY <1>4 DEF CopiesDown, IsCopy, FileWritten
  <2>2. rf => rn
    BY <2>1
  <2>3. CASE pc = "upload" \/ k.rel # j.rel
    BY <1>2, <2>1, <2>2, <2>3
  <2>4. CASE pc # "upload" /\ k.rel = j.rel
    <3>1. rf => ln
      BY <2>1, <2>4
    <3>2. /\ running'[k].at \in {"fetched", "renamed"} => k.kind = "download" /\ rn
          /\ running'[k].at = "renamed" => ln
          /\ running'[k].at \notin {"opened", "put"}
      BY <1>1, <2>2, <2>4, <3>1
    <3> QED
      BY <3>2, FilesAre DEF Carries, Holds
  <2> QED
    BY <2>3, <2>4
<1>5. CASE CopiesUp(j)
  <2>1. /\ local' = local /\ pc = "upload"
        /\ Files(remote') = Files(remote) \cup {j.rel}
        /\ \A r \in Files(remote) \ {j.rel} : remote'[r] = remote[r]
        /\ remote'[j.rel].content = local[j.rel].content
    BY <1>5 DEF CopiesUp, IsCopy, FileWritten
  <2>2. lf => ln
    BY <2>1
  <2>3. lf /\ rf => rn
    BY <2>1
  <2>4. /\ running'[k].at \notin {"fetched", "renamed"}
        /\ running'[k].at \in {"opened", "put"} => k.kind = "upload" /\ ln
        /\ running'[k].at = "put" => rn
    BY <1>1, <2>1, <2>2, <2>3
  <2> QED
    BY <2>4, FilesAre DEF Carries, Holds
<1> QED
  BY <1>3, <1>4, <1>5

\* What an outcome says of the job itself.
LEMMA Advanced ==
  ASSUME TypeOK, NEW j \in DOMAIN running, NEW point, NEW c, Advance(j, point, c)
  PROVE  running'[j].at = point /\ running'[j].content = c
<1>1. running[j] \in Runs
  BY DEF TypeOK
<1> DEFINE r == [running[j] EXCEPT !.at = point, !.content = c]
<1>2. r.at = point /\ r.content = c
  BY <1>1 DEF Runs
<1>3. running' = [running EXCEPT ![j] = r]
  BY DEF Advance
<1> HIDE DEF r
<1> QED
  BY <1>2, <1>3

LEMMA TriesAgain ==
  ASSUME NEW j \in DOMAIN running, FailAttempt(j) \/ Succeed(j), j \in DOMAIN running'
  PROVE  running'[j].at = "try"
  BY DEF FailAttempt, Succeed, Without

LEMMA OthersRun ==
  ASSUME NEW j \in todo, JobStep(j), NEW k \in DOMAIN running', k # j
  PROVE  k \in DOMAIN running /\ running'[k] = running[k]
<1>1. CASE StartJob(j)
  BY <1>1 DEF StartJob, Put
<1>2. CASE ~StartJob(j)
  <2>1. Succeed(j) \/ FailAttempt(j) \/ \E point, c : Advance(j, point, c)
    BY <1>2 DEF JobStep, Aborted, DownloadFetch, DownloadFault, RenamePart, SetListedTime,
                UploadOpen, UploadPut, UploadFault, AlignTime
  <2>2. CASE Succeed(j) \/ FailAttempt(j)
    BY <2>2 DEF Succeed, FailAttempt, Without
  <2>3. CASE \E point, c : Advance(j, point, c)
    BY <2>3 DEF Advance
  <2> QED
    BY <2>1, <2>2, <2>3
<1> QED
  BY <1>1, <1>2

LEMMA OwnCarry ==
  ASSUME TypeOK, Orderly, NEW j \in todo, JobStep(j), j \in DOMAIN running'
  PROVE  Carries(j)'
<1>1. CASE running'[j].at = "try"
  BY <1>1 DEF Carries
<1>2. j \in DOMAIN running => running[j].content \in Contents /\ now \in Int
  BY ClockNow DEF TypeOK, Runs
<1>3. CASE StartJob(j)
  <2>1. running'[j].at = "try"
    BY <1>3 DEF StartJob, Put
  <2> QED
    BY <1>1, <2>1
<1>4. CASE ~StartJob(j)
  <2>1. j \in DOMAIN running
    BY <1>4 DEF JobStep, Aborted, DownloadFetch, DownloadFault, RenamePart, SetListedTime,
                UploadOpen, UploadPut, UploadFault, AlignTime, At
  <2>2. CASE FailAttempt(j) \/ Succeed(j)
    BY <1>1, <2>1, <2>2, TriesAgain
  <2>3. ASSUME NEW point, NEW c, Advance(j, point, c)
        PROVE  running'[j].at = point /\ running'[j].content = c
    BY <2>1, <2>3, Advanced
  <2>4. CASE DownloadFetch(j) /\ Advance(j, "fetched", remote[j.rel].content) /\ Expected(j)
    <3>1. running'[j].at = "fetched" /\ running'[j].content = remote[j.rel].content
      BY <2>3, <2>4
    <3>2. j.kind = "download" /\ remote' = remote /\ IsFile(remote, j.rel)
      BY <2>4 DEF DownloadFetch, Expected
    <3> QED
      BY <3>1, <3>2 DEF Carries, Holds
  <2>5. CASE RenamePart(j) /\ local' = Put(local, j.rel, File(running[j].content, now))
                           /\ Advance(j, "renamed", running[j].content)
    <3>1. running'[j].at = "renamed" /\ running'[j].content = running[j].content
      BY <2>3, <2>5
    <3>2. j.kind = "download" /\ remote' = remote /\ Holds(remote, j)
      BY <2>1, <2>5 DEF RenamePart, At, Orderly, CarriesInv, Carries
    <3>3. j.rel \in Files(local') /\ local'[j.rel].content = running[j].content
      <4>1. running[j].content \in Contents /\ now \in Int
        BY <1>2, <2>1
      <4>2. /\ FileWritten(local, local', j.rel)
            /\ local'[j.rel].content = running[j].content
        BY <2>5, <4>1, FilesPut
      <4> QED
        BY <4>2 DEF FileWritten
    <3> QED
      BY <3>1, <3>2, <3>3, FilesAre DEF Carries, Holds
  <2>6. CASE UploadOpen(j) /\ IsFile(local, j.rel)
                           /\ Advance(j, "opened", local[j.rel].content)
    <3>1. running'[j].at = "opened" /\ running'[j].content = local[j.rel].content
      BY <2>3, <2>6
    <3>2. j.kind = "upload" /\ local' = local
      BY <2>6 DEF UploadOpen, trees
    <3> QED
      BY <2>6, <3>1, <3>2 DEF Carries, Holds
  <2>7. CASE UploadPut(j) /\ remote' = Stored(j) /\ Advance(j, "put", running[j].content)
    <3>1. running'[j].at = "put" /\ running'[j].content = running[j].content
      BY <2>3, <2>7
    <3>2. j.kind = "upload" /\ local' = local /\ Holds(local, j)
      BY <2>1, <2>7 DEF UploadPut, At, Orderly, CarriesInv, Carries
    <3>3. j.rel \in Files(remote') /\ remote'[j.rel].content = running[j].content
      <4>1. running[j].content \in Contents /\ now \in Int
        BY <1>2, <2>1
      <4>2. /\ FileWritten(remote, Stored(j), j.rel)
            /\ Stored(j)[j.rel].content = running[j].content
        BY <4>1, FilesStored
      <4> QED
        BY <2>7, <4>2 DEF FileWritten
    <3> QED
      BY <3>1, <3>2, <3>3, FilesAre DEF Carries, Holds
  <2>8. \/ FailAttempt(j) \/ Succeed(j)
        \/ DownloadFetch(j) /\ Advance(j, "fetched", remote[j.rel].content) /\ Expected(j)
        \/ /\ RenamePart(j) /\ local' = Put(local, j.rel, File(running[j].content, now))
           /\ Advance(j, "renamed", running[j].content)
        \/ UploadOpen(j) /\ IsFile(local, j.rel) /\ Advance(j, "opened", local[j.rel].content)
        \/ UploadPut(j) /\ remote' = Stored(j) /\ Advance(j, "put", running[j].content)
    <3>1. CASE Aborted(j) \/ DownloadFault(j) \/ SetListedTime(j) \/ UploadFault(j) \/ AlignTime(j)
      BY <3>1 DEF Aborted, DownloadFault, SetListedTime, UploadFault, AlignTime
    <3>2. CASE DownloadFetch(j)
      BY <3>2 DEF DownloadFetch
    <3>3. CASE RenamePart(j)
      BY <3>3 DEF RenamePart
    <3>4. CASE UploadOpen(j)
      BY <3>4 DEF UploadOpen
    <3>5. CASE UploadPut(j)
      BY <3>5 DEF UploadPut
    <3> QED
      BY <1>4, <3>1, <3>2, <3>3, <3>4, <3>5 DEF JobStep
  <2> QED
    BY <2>2, <2>4, <2>5, <2>6, <2>7, <2>8
<1> QED
  BY <1>3, <1>4

LEMMA JobPolicy ==
  ASSUME TypeOK, AgesInv, PolicyInv, NEW j, UNCHANGED <<cfg, pc>>, todo' \subseteq todo,
         \/ SameFiles(remote, remote') /\ SameFiles(local, local')
         \/ CopiesDown(j) \/ CopiesUp(j)
  PROVE  PolicyInv'
<1> DEFINE Below(lt, rt, r) == lt[r].content <= rt[r].content
           Both(r) == r \in Files(remote) /\ r \in Files(local)
           BothNext(r) == r \in Files(remote') /\ r \in Files(local')
<1>1. now \in Nat /\ DatedUpTo(remote, now) /\ DatedUpTo(local, now)
  BY ClockNow DEF AgesInv
<1>2. ASSUME NEW r, BothNext(r)
      PROVE  \/ Both(r) /\ remote'[r].content = remote[r].content
                        /\ local'[r].content = local[r].content
             \/ remote'[r].content = local'[r].content /\ local'[r].content \in Int
  <2>1. CASE SameFiles(remote, remote') /\ SameFiles(local, local')
    BY <1>2, <2>1 DEF SameFiles
  <2>2. CASE CopiesDown(j)
    BY <1>1, <1>2, <2>2 DEF CopiesDown, IsCopy, FileWritten, DatedUpTo
  <2>3. CASE CopiesUp(j)
    BY <1>1, <1>2, <2>3 DEF CopiesUp, IsCopy, FileWritten, DatedUpTo
  <2> QED
    BY <2>1, <2>2, <2>3
<1>3. ASSUME NEW r, InBoth(r)'
      PROVE  \/ /\ InBoth(r) /\ remote'[r].content = remote[r].content
                /\ local'[r].content = local[r].content
             \/ remote'[r].content = local'[r].content /\ local'[r].content \in Int
  BY <1>2, <1>3, FilesAre DEF InBoth
<1> QED
  BY <1>3 DEF PolicyInv

LEMMA JobOrderly ==
  ASSUME TypeOK, Inv, Orderly, NEW j \in todo,
         MkdirRemote(j) \/ MkdirLocal(j) \/ JobStep(j)
  PROVE  Orderly'
<1>1. \/ SameFiles(remote, remote') /\ SameFiles(local, local')
      \/ CopiesDown(j) \/ CopiesUp(j)
  BY JobEffects
<1>2. /\ UNCHANGED <<cfg, pc, now, seenRemote, seenLocal>> /\ todo' \subseteq todo
      /\ pc \in {"mkdir", "download", "upload"}
  <2>1. CASE JobStep(j)
    <3>1. UNCHANGED now
      BY <2>1 DEF JobStep, StartJob, Aborted, DownloadFetch, DownloadFault, RenamePart,
                  SetListedTime, UploadOpen, UploadPut, UploadFault, AlignTime
    <3> QED
      BY <2>1, <3>1, JobsAccounted DEF Inv, Accounted, InPhase, seen
  <2>2. CASE MkdirRemote(j) \/ MkdirLocal(j)
    BY <2>2 DEF MkdirRemote, MkdirLocal, seen
  <2> QED
    BY <2>1, <2>2
<1>3. AgesInv'
  BY <1>1, <1>2, JobAges DEF Orderly
<1>4. PolicyInv'
  BY <1>1, <1>2, JobPolicy DEF Orderly
<1>5. ScansInv'
  <2>1. Keeps(local, local')
    BY StepsKeep
  <2> QED
    BY <1>2, <2>1 DEF Orderly, ScansInv, Keeps, IsDir, Phases
<1>6. CarriesInv'
  <2>1. CASE JobStep(j)
    <3>1. ASSUME NEW k \in DOMAIN running', k # j PROVE Carries(k)'
      <4>1. k \in DOMAIN running /\ running'[k] = running[k]
        BY <2>1, <3>1, OthersRun
      <4>2. k.kind = pc
        BY <4>1 DEF Inv, PoolInv
      <4> QED
        BY <1>1, <3>1, <4>1, <4>2, OthersCarry
    <3> QED
      BY <2>1, <3>1, OwnCarry DEF CarriesInv
  <2>2. CASE MkdirRemote(j) \/ MkdirLocal(j)
    <3>1. DOMAIN running' = {}
      BY <2>2 DEF MkdirRemote, MkdirLocal, Inv, PoolInv
    <3> QED
      BY <3>1 DEF CarriesInv
  <2> QED
    BY <2>1, <2>2
<1> QED
  BY <1>3, <1>4, <1>5, <1>6 DEF Orderly

-----------------------------------------------------------------------------
(* The other steps keep the order: a plan replaces a newer content only by *)
(* the policy of the source, because times order the contents.             *)
LEMMA PlansFollowPolicy ==
  ASSUME AgesInv, NEW c, NEW j \in plan(c, remote, local), InBoth(j.rel)
  PROVE  /\ c.conflict # "remote" /\ j.kind = "download" =>
              local[j.rel].content <= remote[j.rel].content
         /\ c.conflict # "local" /\ j.kind = "upload" =>
              remote[j.rel].content <= local[j.rel].content
<1> DEFINE re == remote[j.rel]
           le == local[j.rel]
<1>1. j.rel \in Files(remote) /\ j.rel \in Files(local)
  BY FilesAre DEF InBoth
<1>2. /\ re.mtime \in 0..now /\ le.mtime \in 0..now
      /\ re.content \in 0..now /\ le.content \in 0..now
      /\ Ordered(re, le)
  BY <1>1 DEF AgesInv, DatedUpTo
<1>3. Tolerance \in Nat /\ re.mtime # NoTime
  BY <1>2, ToleranceAssumption DEF NoTime
<1>4. /\ c.conflict # "remote" /\ j.kind = "download" => ~After(le.mtime, re.mtime)
      /\ c.conflict # "local" /\ j.kind = "upload" => ~After(re.mtime, le.mtime)
  <2>1. j.kind \in {"download", "upload"} => j \in transferJobs(c, remote, local)
    BY PlanParts
  <2>2. j.kind = "download" => wantsDownload(c, re, le)
    BY <2>1, PullJobs, PushJobs DEF transferJobs, InBoth
  <2>3. j.kind = "upload" => wantsUpload(c, re, le)
    BY <1>1, <2>1, PullJobs, PushJobs DEF transferJobs, Files
  <2> HIDE DEF re, le
  <2> QED
    BY <1>3, <2>2, <2>3 DEF wantsDownload, wantsUpload
<1> HIDE DEF re, le
<1>5. /\ ~After(le.mtime, re.mtime) => le.content <= re.content
      /\ ~After(re.mtime, le.mtime) => re.content <= le.content
  BY <1>2, <1>3 DEF Ordered, After, timesEq
<1> QED
  BY <1>4, <1>5 DEF re, le

LEMMA ScanOrderly ==
  ASSUME Inv, Orderly, ScanAndPlan
  PROVE  Orderly'
<1>1. /\ pc = "scan" /\ seenRemote = remote /\ seenLocal' = local
      /\ UNCHANGED <<cfg, remote, local, now, seenRemote, running>>
      /\ DOMAIN running = {}
  BY DEF ScanAndPlan, trees, Orderly, ScansInv, Inv, PoolInv
<1>2. /\ pc' \in {"idle", "mkdir"}
      /\ pc' = "mkdir" => todo' = plan(cfg, remote, local)
  BY <1>1 DEF ScanAndPlan
<1>3. AgesInv'
  BY <1>1 DEF Orderly, AgesInv
<1>4. ScansInv'
  BY <1>1, <1>2 DEF ScansInv, Phases
<1>5. CarriesInv'
  BY <1>1 DEF CarriesInv
<1>6. PolicyInv'
  <2>1. ASSUME pc' = "mkdir", NEW j \in todo', InBoth(j.rel)
        PROVE  /\ cfg.conflict # "remote" /\ j.kind = "download" =>
                    local[j.rel].content <= remote[j.rel].content
               /\ cfg.conflict # "local" /\ j.kind = "upload" =>
                    remote[j.rel].content <= local[j.rel].content
    BY <1>2, <2>1, PlansFollowPolicy DEF Orderly
  <2>2. \A r : InBoth(r)' <=> InBoth(r)
    BY <1>1 DEF InBoth
  <2> QED
    BY <1>1, <1>2, <2>1, <2>2 DEF PolicyInv
<1> QED
  BY <1>3, <1>4, <1>5, <1>6 DEF Orderly

LEMMA PhaseOrderly ==
  ASSUME Inv, Orderly,
         \/ Begin \/ ListRemote \/ ListFails \/ EndMkdir \/ EndDownloads \/ EndUploads
         \/ EndPass \/ Cancel \/ Crash \/ UNCHANGED vars
  PROVE  Orderly'
<1>1. /\ UNCHANGED <<cfg, remote, local, now>>
      /\ seenRemote' \in {seenRemote, remote, << >>}
      /\ running' = running \/ DOMAIN running' = {}
      /\ todo' \subseteq todo
  BY DEF Begin, ListRemote, ListFails, EndMkdir, EndDownloads, EndUploads, EndPass,
         Cancel, Crash, vars, trees, seen, pool
<1>2. /\ pc' \in {"mkdir", "download"} => pc \in {"mkdir", "download"}
      /\ pc' = "upload" => pc \in {"download", "upload"}
      /\ pc' = "remove" => pc \in {"upload", "remove"}
      /\ pc' = "scan" => (pc = "scan" /\ UNCHANGED seenRemote) \/ seenRemote' = remote
      /\ pc' \in Phases => UNCHANGED seenLocal
  BY DEF Begin, ListRemote, ListFails, EndMkdir, EndDownloads, EndUploads, EndPass,
         Cancel, Crash, vars, seen, Phases
<1>3. AgesInv'
  BY <1>1 DEF Orderly, AgesInv, DatedUpTo, Files
<1>4. ScansInv'
  <2>1. pc' = "scan" => seenRemote' = remote'
    BY <1>1, <1>2 DEF Orderly, ScansInv
  <2>2. pc' \in Phases => pc \in Phases /\ (pc = "remove" => pc' = "remove")
    BY <1>2 DEF Phases
  <2>3. pc \in Phases => \A r \in DOMAIN seenLocal : IsDir(seenLocal, r) =>
                           IsDir(local, r) \/ (pc = "remove" /\ r \notin DOMAIN local)
    BY DEF Orderly, ScansInv
  <2> QED
    BY <1>1, <1>2, <2>1, <2>2, <2>3 DEF ScansInv
<1>5. CarriesInv'
  BY <1>1 DEF Orderly, CarriesInv, Carries, Holds
<1>6. PolicyInv'
  <2>1. \A r : InBoth(r)' <=> InBoth(r)
    BY <1>1 DEF InBoth
  <2> QED
    BY <1>1, <1>2, <2>1 DEF Orderly, PolicyInv
<1> QED
  BY <1>3, <1>4, <1>5, <1>6 DEF Orderly

\* The files of a tree that lost some.
LEMMA FewerAges ==
  ASSUME AgesInv, UNCHANGED <<now, seenRemote>>,
         \A r \in Files(remote') : r \in Files(remote) /\ remote'[r] = remote[r],
         \A r \in Files(local') : r \in Files(local) /\ local'[r] = local[r]
  PROVE  AgesInv'
  BY DEF AgesInv, DatedUpTo

LEMMA RemoveOrderly ==
  ASSUME Inv, Orderly, NEW j \in todo, RemoveStep(j)
  PROVE  Orderly'
<1>1. /\ pc = "remove" /\ UNCHANGED <<cfg, now, pc, seenRemote, seenLocal, running>>
      /\ DOMAIN running = {}
  BY DEF RemoveStep, RmLocalFile, RmLocalDir, RmRemote, Inv, PoolInv, seen
<1>2. /\ remote' = remote \/ \E xs : remote' = Without(remote, xs)
      /\ local' = local \/ \E xs : local' = Without(local, xs)
  BY DEF RemoveStep, RmLocalFile, RmLocalDir, RmRemote, OsRemove
<1>3. AgesInv'
  <2>1. \A r \in Files(remote') : r \in Files(remote) /\ remote'[r] = remote[r]
    BY <1>2, FilesWithout
  <2>2. \A r \in Files(local') : r \in Files(local) /\ local'[r] = local[r]
    BY <1>2, FilesWithout
  <2> QED
    BY <1>1, <2>1, <2>2, FewerAges DEF Orderly
<1>4. ScansInv'
  <2>1. \A r \in DOMAIN local' : r \in DOMAIN local /\ local'[r] = local[r]
    BY <1>2 DEF Without
  <2>2. \A r \in DOMAIN seenLocal : IsDir(seenLocal, r) =>
          IsDir(local, r) \/ r \notin DOMAIN local
    BY <1>1 DEF Orderly, ScansInv, Phases
  <2> QED
    BY <1>1, <2>1, <2>2 DEF ScansInv, IsDir
<1>5. CarriesInv' /\ PolicyInv'
  BY <1>1 DEF CarriesInv, PolicyInv
<1> QED
  BY <1>3, <1>4, <1>5 DEF Orderly

\* A user's write is the youngest of all, in time and content.
Stamped(tree, next) ==
  \A r \in Files(next) :
    \/ r \in Files(tree) /\ next[r] = tree[r]
    \/ next[r].content = now' /\ next[r].mtime = now' /\ now' = now + Tolerance + 1

LEMMA StampedAges ==
  ASSUME TypeOK, AgesInv, UNCHANGED seenRemote, now' \in {now, now + Tolerance + 1},
         \/ remote' = remote /\ Stamped(local, local')
         \/ local' = local /\ Stamped(remote, remote')
  PROVE  AgesInv'
<1>1. now \in Nat /\ Tolerance \in Nat /\ now' \in Nat /\ now <= now'
  BY ClockNow, ToleranceAssumption
<1>2. /\ \A r \in Files(remote) : remote[r].mtime \in 0..now /\ remote[r].content \in 0..now
      /\ \A r \in Files(local) : local[r].mtime \in 0..now /\ local[r].content \in 0..now
      /\ \A r \in Files(seenRemote) :
           seenRemote[r].mtime \in 0..now /\ seenRemote[r].content \in 0..now
      /\ \A r \in Files(remote) \cap Files(local) : Ordered(remote[r], local[r])
  BY DEF AgesInv, DatedUpTo
<1>3. DatedUpTo(seenRemote', now')
  BY <1>1, <1>2 DEF DatedUpTo
<1>4. CASE remote' = remote /\ Stamped(local, local')
  <2>1. DatedUpTo(remote', now') /\ DatedUpTo(local', now')
    BY <1>1, <1>2, <1>4 DEF DatedUpTo, Stamped
  <2>2. ASSUME NEW r \in Files(remote) \cap Files(local') PROVE Ordered(remote[r], local'[r])
    <3>1. CASE r \in Files(local) /\ local'[r] = local[r]
      BY <1>2, <3>1
    <3>2. CASE local'[r].content = now' /\ local'[r].mtime = now' /\ now' = now + Tolerance + 1
      BY <1>1, <1>2, <3>2 DEF Ordered, After, timesEq
    <3> QED
      BY <1>4, <3>1, <3>2 DEF Stamped
  <2> QED
    BY <1>3, <1>4, <2>1, <2>2 DEF AgesInv
<1>5. CASE local' = local /\ Stamped(remote, remote')
  <2>1. DatedUpTo(remote', now') /\ DatedUpTo(local', now')
    BY <1>1, <1>2, <1>5 DEF DatedUpTo, Stamped
  <2>2. ASSUME NEW r \in Files(remote') \cap Files(local) PROVE Ordered(remote'[r], local[r])
    <3>1. CASE r \in Files(remote) /\ remote'[r] = remote[r]
      BY <1>2, <3>1
    <3>2. CASE /\ remote'[r].content = now' /\ remote'[r].mtime = now'
               /\ now' = now + Tolerance + 1
      BY <1>1, <1>2, <3>2 DEF Ordered, After, timesEq
    <3> QED
      BY <1>5, <3>1, <3>2 DEF Stamped
  <2> QED
    BY <1>3, <1>5, <2>1, <2>2 DEF AgesInv
<1> QED
  BY <1>4, <1>5

LEMMA UsersOrderly ==
  ASSUME Quiet, TypeOK, Inv, Orderly, Users
  PROVE  Orderly'
<1>1. /\ pc = "idle" /\ UNCHANGED <<cfg, pc, seenRemote, seenLocal, running>>
      /\ DOMAIN running = {} /\ now' \in {now, now + Tolerance + 1}
  BY DEF Users, UserReplacesDir, UserWrites, UserDeletes, UserMakesDir, UserMayEdit, Quiet,
         Idle, Inv, PoolInv, seen, pool
<1>2. now \in Nat /\ now + Tolerance + 1 \in Int /\ now' \in Contents
  BY ClockNow, ClockNext, ToleranceAssumption DEF Next
<1>3. ASSUME NEW tree, NEW rel, now' = now + Tolerance + 1
      PROVE  Stamped(tree, Put(tree, rel, File(now', now')))
  <2>1. LET next == Put(tree, rel, File(now', now')) IN
          FileWritten(tree, next, rel) /\ next[rel].content = now' /\ next[rel].mtime = now'
    BY <1>2, <1>3, FilesPut
  <2> QED
    BY <1>3, <2>1 DEF FileWritten, Stamped
<1>4. ASSUME NEW tree, NEW rel PROVE Stamped(tree, Without(tree, {rel}))
  BY FilesWithout DEF Stamped
<1>5. ASSUME NEW tree, NEW rel PROVE Stamped(tree, Put(tree, rel, Dir))
  <2> DEFINE next == Put(tree, rel, Dir)
  <2>1. /\ DOMAIN next = DOMAIN tree \cup {rel} /\ next[rel] = Dir
        /\ \A r \in DOMAIN tree : r # rel => next[r] = tree[r]
    BY DEF Put
  <2>2. Dir.isDir
    BY NewEntries
  <2> HIDE DEF next
  <2> QED
    BY <2>1, <2>2 DEF Stamped, Files, next
<1>6. \/ remote' = remote /\ Stamped(local, local')
      \/ local' = local /\ Stamped(remote, remote')
  <2>1. CASE UserReplacesDir
    BY <1>3, <2>1 DEF UserReplacesDir
  <2>2. ASSUME NEW rel, UserWrites(rel) \/ UserDeletes(rel) \/ UserMakesDir(rel)
        PROVE  \/ remote' = remote /\ Stamped(local, local')
               \/ local' = local /\ Stamped(remote, remote')
    BY <1>3, <1>4, <1>5, <2>2 DEF UserWrites, UserDeletes, UserMakesDir
  <2> QED
    BY <2>1, <2>2 DEF Users
<1>7. AgesInv'
  BY <1>1, <1>6, StampedAges DEF Orderly
<1>8. ScansInv' /\ CarriesInv' /\ PolicyInv'
  BY <1>1 DEF ScansInv, CarriesInv, PolicyInv, Phases
<1> QED
  BY <1>7, <1>8 DEF Orderly

LEMMA OrderInit == Init => OrderInv
<1> SUFFICES ASSUME Init, Quiet PROVE Orderly
  BY DEF OrderInv
<1>1. AgesInv
  BY DEF Init, Quiet, OrderedStart, AgesInv, DatedUpTo, Files
<1>2. ScansInv /\ CarriesInv /\ PolicyInv
  BY DEF Init, ScansInv, CarriesInv, PolicyInv, Phases
<1> QED
  BY <1>1, <1>2 DEF Orderly

LEMMA OrderNext ==
  ASSUME TypeOK, Inv, OrderInv, [Next]_vars
  PROVE  OrderInv'
<1> SUFFICES ASSUME Quiet PROVE Orderly'
  BY DEF OrderInv
<1>1. Orderly
  BY DEF OrderInv
<1>2. ASSUME NEW j \in todo, MkdirRemote(j) \/ MkdirLocal(j) \/ JobStep(j)
      PROVE  Orderly'
  BY <1>1, <1>2, JobOrderly
<1>3. ASSUME NEW j \in todo, RemoveStep(j)
      PROVE  Orderly'
  BY <1>1, <1>3, RemoveOrderly
<1> QED
  BY <1>1, <1>2, <1>3, ScanOrderly, PhaseOrderly, UsersOrderly DEF Next, System, Progress

LEMMA OrderHolds == Spec => []OrderInv
  BY OrderInit, OrderNext, TypeHolds, Invariance, PTL DEF Spec

(* For all settings and trees, when users leave the trees alone during a   *)
(* pass and times and contents agree at the start: times go on ordering    *)
(* the contents of the two copies of every file.                           *)
THEOREM TimesOrderContents == Spec => []OrderInv
  BY OrderHolds

-----------------------------------------------------------------------------
(* An empty two-way plan leaves nothing to compare.                        *)
LEMMA NothingToDo ==
  ASSUME AgesInv, NEW c, c.direction = "both", c.filter.types = {},
         plan(c, remote, local) = {},
         NEW r \in Files(remote) \cup Files(local), MatchLocal(c.filter, r)
  PROVE  /\ r \in DOMAIN remote /\ r \in DOMAIN local
         /\ remote[r].content = local[r].content
<1>1. planPull(c, remote, local) = {} /\ planPush(c, remote, local) = {}
  BY DEF plan, transferJobs, wantsPull, wantsPush
<1>2. \A type : Match(c.filter, r, type)
  BY DEF Match, MatchLocal, matchType
<1>3. r \in DOMAIN remote
  <2>1. r \notin DOMAIN local \ DOMAIN remote \/ r \notin Files(local)
    BY <1>1, MissingIsUploaded DEF Rels, Files
  <2> QED
    BY <2>1 DEF Files
<1>4. r \in DOMAIN local
  <2>1. r \notin DOMAIN remote \ DOMAIN local \/ r \notin Files(remote)
    BY <1>1, <1>2, MissingIsDownloaded DEF Rels, Files
  <2> QED
    BY <2>1 DEF Files
<1>5. r \in Files(remote) /\ r \in Files(local)
  <2>1. remote[r].isDir => IsDir(local, r)
    BY <1>1, <1>3 DEF planPull
  <2>2. local[r].isDir => IsDir(remote, r)
    BY <1>1, <1>4 DEF planPush
  <2> QED
    BY <1>3, <1>4, <2>1, <2>2 DEF Files, IsDir
<1>6. ~wantsDownload(c, remote[r], local[r])
  BY <1>1, <1>2, <1>5 DEF planPull, Files
<1>7. ~wantsUpload(c, remote[r], local[r])
  BY <1>1, <1>5 DEF planPush, Files
<1> DEFINE re == remote[r]
           le == local[r]
<1>8. /\ re.mtime \in 0..now /\ le.mtime \in 0..now /\ Ordered(re, le)
  BY <1>5 DEF AgesInv, DatedUpTo
<1>9. ~wantsDownload(c, re, le) /\ ~wantsUpload(c, re, le)
  BY <1>6, <1>7
<1> HIDE DEF re, le
<1>10. Unchanged(re, le)
  <2>1. Tolerance \in Nat /\ re.mtime # NoTime
    BY <1>8, ToleranceAssumption DEF NoTime
  <2>2. Unchanged(re, le) \/ (After(re.mtime, le.mtime) /\ After(le.mtime, re.mtime))
    BY <1>9, <2>1 DEF wantsDownload, wantsUpload
  <2>3. ~(After(re.mtime, le.mtime) /\ After(le.mtime, re.mtime))
    BY <1>8, <2>1 DEF After
  <2> QED
    BY <2>2, <2>3
<1>11. re.content = le.content
  BY <1>8, <1>10 DEF Unchanged, Ordered
<1> QED
  BY <1>3, <1>4, <1>11 DEF re, le

LEMMA UpToDateNext ==
  ASSUME Quiet, Inv, OrderInv, UpToDateMeansSameContent, [Next]_vars
  PROVE  UpToDateMeansSameContent'
<1>1. CASE ScanAndPlan
  <2> SUFFICES ASSUME (Idle /\ result = "uptodate" /\ cfg.direction = "both"
                         /\ cfg.filter.types = {})',
                      NEW r \in (Files(seenRemote) \cup Files(seenLocal))',
                      MatchLocal(cfg.filter, r)'
               PROVE  (/\ r \in DOMAIN seenRemote /\ r \in DOMAIN seenLocal
                       /\ seenRemote[r].content = seenLocal[r].content)'
    BY DEF UpToDateMeansSameContent
  <2>1. /\ AgesInv /\ seenRemote = remote
        /\ UNCHANGED <<cfg, seenRemote>> /\ seenLocal' = local
    BY <1>1 DEF OrderInv, Orderly, ScansInv, ScanAndPlan
  <2>2. plan(cfg, remote, local) = {}
    BY <1>1, <2>1 DEF ScanAndPlan, Idle
  <2>3. /\ r \in Files(remote) \cup Files(local) /\ MatchLocal(cfg.filter, r)
        /\ cfg.direction = "both" /\ cfg.filter.types = {}
    BY <2>1
  <2>4. /\ r \in DOMAIN remote /\ r \in DOMAIN local
        /\ remote[r].content = local[r].content
    BY <2>1, <2>2, <2>3, NothingToDo
  <2> QED
    BY <2>1, <2>4
<1>2. CASE pc' # "idle" \/ result' # "uptodate"
  BY <1>2 DEF UpToDateMeansSameContent, Idle
<1>3. CASE UNCHANGED <<cfg, pc, result, seenRemote, seenLocal>>
  BY <1>3 DEF UpToDateMeansSameContent, Idle
<1>4. CASE \/ Begin \/ ListRemote \/ ListFails \/ EndMkdir \/ EndDownloads
           \/ EndUploads \/ EndPass \/ Crash
  <2>1. pc' # "idle" \/ result' # "uptodate"
    BY <1>4 DEF Begin, ListRemote, ListFails, EndMkdir, EndDownloads, EndUploads, EndPass, Crash
  <2> QED
    BY <1>2, <2>1
<1>5. CASE Users \/ Cancel \/ UNCHANGED vars
  BY <1>3, <1>5
  DEF Users, UserReplacesDir, UserWrites, UserDeletes, UserMakesDir, Cancel, seen, vars
<1>6. ASSUME NEW j \in todo, MkdirRemote(j) \/ MkdirLocal(j) \/ JobStep(j) \/ RemoveStep(j)
      PROVE  UNCHANGED <<cfg, pc, result, seenRemote, seenLocal>>
  <2>1. CASE JobStep(j)
    BY <2>1, JobsAccounted DEF Inv, InPhase, seen
  <2>2. CASE MkdirRemote(j) \/ MkdirLocal(j) \/ RemoveStep(j)
    BY <2>2 DEF MkdirRemote, MkdirLocal, RemoveStep, RmLocalFile, RmLocalDir, RmRemote, seen
  <2> QED
    BY <1>6, <2>1, <2>2
<1> QED
  BY <1>1, <1>3, <1>4, <1>5, <1>6 DEF Next, System, Progress

(* For all settings with no filter by type and all trees, when users leave *)
(* the trees alone during a pass and times and contents agree at the       *)
(* start: a two-way pass that says "up to date" has seen the same contents *)
(* on both sides.                                                          *)
THEOREM UpToDateIsTrue ==
  ASSUME Quiet PROVE Spec => []UpToDateMeansSameContent
<1>1. Init => UpToDateMeansSameContent
  BY DEF Init, UpToDateMeansSameContent
<1>2. Inv /\ OrderInv /\ UpToDateMeansSameContent /\ [Next]_vars
        => UpToDateMeansSameContent'
  BY UpToDateNext
<1> QED
  BY <1>1, <1>2, Invariance, OrderHolds, PTL DEF Spec

-----------------------------------------------------------------------------
(* The newest content of a file, as the greater of what the sides have.    *)
ContentOf(tree, r) == IF IsFile(tree, r) THEN tree[r].content ELSE -1

LEMMA MaxOfTwo ==
  ASSUME NEW a \in Int, NEW b \in Int, a >= -1, b >= -1
  PROVE  /\ Max({-1, a, b}) \in {a, b}
         /\ Max({-1, a, b}) >= a /\ Max({-1, a, b}) >= b
<1> DEFINE S == {-1, a, b}
<1>1. \E x \in S : \A y \in S : x >= y
  <2>1. CASE a >= b
    BY <2>1
  <2>2. CASE b >= a
    BY <2>2
  <2> QED
    BY <2>1, <2>2
<1> HIDE DEF S
<1>2. Max(S) \in S /\ \A y \in S : Max(S) >= y
  BY <1>1 DEF Max
<1> QED
  BY <1>2 DEF S

LEMMA NewestIsMax ==
  ASSUME NEW R, NEW L, NEW r, NEW time \in Nat, DatedUpTo(R, time), DatedUpTo(L, time)
  PROVE  /\ ContentOf(R, r) \in Int /\ ContentOf(R, r) >= -1
         /\ ContentOf(L, r) \in Int /\ ContentOf(L, r) >= -1
         /\ {-1} \cup {tree[r].content : tree \in {t \in {R, L} : IsFile(t, r)}}
              = {-1, ContentOf(R, r), ContentOf(L, r)}
<1> DEFINE copies == {tree[r].content : tree \in {t \in {R, L} : IsFile(t, r)}}
<1>1. /\ IsFile(R, r) => R[r].content \in 0..time
      /\ IsFile(L, r) => L[r].content \in 0..time
  BY FilesAre DEF DatedUpTo
<1>2. {-1} \cup copies \subseteq {-1, ContentOf(R, r), ContentOf(L, r)}
  BY DEF ContentOf
<1>3. ContentOf(R, r) \in {-1} \cup copies /\ ContentOf(L, r) \in {-1} \cup copies
  BY DEF ContentOf
<1> HIDE DEF copies
<1>4. {-1} \cup copies = {-1, ContentOf(R, r), ContentOf(L, r)}
  BY <1>2, <1>3
<1> QED
  BY <1>1, <1>4 DEF ContentOf, copies

\* Nothing newest is lost if each side keeps what it has or gets what is newer.
LEMMA NewestGrows ==
  ASSUME NEW r, AgesInv, AgesInv', now \in Nat, now' \in Nat,
         \/ ContentOf(remote', r) >= ContentOf(remote, r)
         \/ ContentOf(local', r) >= ContentOf(remote, r),
         \/ ContentOf(local', r) >= ContentOf(local, r)
         \/ ContentOf(remote', r) >= ContentOf(local, r)
  PROVE  Newest(r)' >= Newest(r)
<1> DEFINE a == ContentOf(remote, r)
           b == ContentOf(local, r)
           an == ContentOf(remote', r)
           bn == ContentOf(local', r)
<1>1. a \in Int /\ b \in Int /\ a >= -1 /\ b >= -1 /\ Newest(r) = Max({-1, a, b})
  BY NewestIsMax DEF AgesInv, Newest, Copies
<1>2. /\ an \in Int /\ bn \in Int /\ an >= -1 /\ bn >= -1
      /\ Newest(r)' = Max({-1, an, bn})
  BY NewestIsMax DEF AgesInv, Newest, Copies
<1> HIDE DEF a, b, an, bn
<1>3. Max({-1, a, b}) \in {a, b}
  BY <1>1, MaxOfTwo
<1>4. Max({-1, an, bn}) \in {an, bn} /\ Max({-1, an, bn}) >= an /\ Max({-1, an, bn}) >= bn
  BY <1>2, MaxOfTwo
<1>5. (an >= a \/ bn >= a) /\ (bn >= b \/ an >= b)
  BY DEF a, b, an, bn
<1> QED
  BY <1>1, <1>2, <1>3, <1>4, <1>5

\* No step of a two-way pass loses the newest content of a file.
LEMMA StepsKeepNewest ==
  ASSUME Quiet, TypeOK, Inv, OrderInv, System,
         cfg.conflict = "newest", cfg.direction = "both", NEW r
  PROVE  Newest(r)' >= Newest(r)
<1>1. Orderly /\ Orderly'
  <2>1. [Next]_vars
    BY DEF Next
  <2> QED
    BY <2>1, OrderNext DEF OrderInv
<1>2. now \in Nat /\ now' \in Nat
  <2>1. [Next]_vars
    BY DEF Next
  <2> QED
    BY <2>1, ClockNext
<1>3. /\ ContentOf(remote, r) \in Int /\ ContentOf(local, r) \in Int
      /\ ContentOf(remote, r) >= -1 /\ ContentOf(local, r) >= -1
  BY <1>1, <1>2, NewestIsMax DEF Orderly, AgesInv
<1>4. SUFFICES /\ \/ ContentOf(remote', r) >= ContentOf(remote, r)
                  \/ ContentOf(local', r) >= ContentOf(remote, r)
               /\ \/ ContentOf(local', r) >= ContentOf(local, r)
                  \/ ContentOf(remote', r) >= ContentOf(local, r)
  BY <1>1, <1>2, NewestGrows DEF Orderly
<1>5. ASSUME NEW tree, NEW next, SameFiles(tree, next)
      PROVE  ContentOf(next, r) = ContentOf(tree, r)
  BY <1>5, FilesAre DEF SameFiles, ContentOf
<1>6. CASE SameFiles(remote, remote') /\ SameFiles(local, local')
  BY <1>3, <1>5, <1>6
<1>7. \A tree : SameFiles(tree, tree)
  BY DEF SameFiles
<1>8. CASE \/ Begin \/ ListRemote \/ ListFails \/ ScanAndPlan
           \/ EndMkdir \/ EndDownloads \/ EndUploads \/ EndPass
  <2>1. remote' = remote /\ local' = local
    BY <1>8 DEF Begin, ListRemote, ListFails, ScanAndPlan, EndMkdir, EndDownloads,
                EndUploads, EndPass, trees
  <2> QED
    BY <1>6, <1>7, <2>1
<1>9. ASSUME NEW j \in todo, MkdirRemote(j) \/ MkdirLocal(j) \/ JobStep(j)
      PROVE  /\ \/ ContentOf(remote', r) >= ContentOf(remote, r)
                \/ ContentOf(local', r) >= ContentOf(remote, r)
             /\ \/ ContentOf(local', r) >= ContentOf(local, r)
                \/ ContentOf(remote', r) >= ContentOf(local, r)
  <2>1. \/ SameFiles(remote, remote') /\ SameFiles(local, local')
        \/ CopiesDown(j) \/ CopiesUp(j)
    BY <1>1, <1>9, JobEffects
  <2>2. CASE CopiesDown(j)
    <3>1. /\ remote' = remote /\ j.rel \in Files(remote)
          /\ Files(local') = Files(local) \cup {j.rel}
          /\ \A f \in Files(local) \ {j.rel} : local'[f] = local[f]
          /\ local'[j.rel].content = remote[j.rel].content
          /\ j.rel \in Files(local) => local[j.rel].content <= remote[j.rel].content
      BY <2>2 DEF CopiesDown, IsCopy, FileWritten, NoLoss
    <3>2. CASE r = j.rel
      BY <1>3, <3>1, <3>2, FilesAre DEF ContentOf
    <3>3. CASE r # j.rel
      BY <1>3, <3>1, <3>3, FilesAre DEF ContentOf
    <3> QED
      BY <3>2, <3>3
  <2>3. CASE CopiesUp(j)
    <3>1. /\ local' = local /\ j.rel \in Files(local)
          /\ Files(remote') = Files(remote) \cup {j.rel}
          /\ \A f \in Files(remote) \ {j.rel} : remote'[f] = remote[f]
          /\ remote'[j.rel].content = local[j.rel].content
          /\ j.rel \in Files(remote) => remote[j.rel].content <= local[j.rel].content
      BY <2>3 DEF CopiesUp, IsCopy, FileWritten, NoLoss
    <3>2. CASE r = j.rel
      BY <1>3, <3>1, <3>2, FilesAre DEF ContentOf
    <3>3. CASE r # j.rel
      BY <1>3, <3>1, <3>3, FilesAre DEF ContentOf
    <3> QED
      BY <3>2, <3>3
  <2> QED
    BY <1>6, <2>1, <2>2, <2>3
<1>10. ASSUME NEW j \in todo, RemoveStep(j)
       PROVE  SameFiles(remote, remote') /\ SameFiles(local, local')
  <2>1. j \in plan(cfg, seenRemote, seenLocal) /\ cfg.direction \in Directions
    BY DEF Inv, PlanInv, Directions
  <2>2. RmLocalDir(j)
    BY <1>10, <2>1, PlanRemovals DEF RemoveStep, RmLocalFile, RmRemote
  <2>3. j.rel \in DOMAIN seenLocal /\ IsDir(seenLocal, j.rel)
    BY <2>1, <2>2, PlannedRemovals DEF RmLocalDir, IsDir
  <2>4. j.rel \notin Files(local)
    <3>1. IsDir(local, j.rel) \/ j.rel \notin DOMAIN local
      BY <1>1, <2>2, <2>3 DEF RmLocalDir, Orderly, ScansInv, Phases
    <3> QED
      BY <3>1 DEF IsDir, Files
  <2>5. remote' = remote /\ (local' = local \/ local' = Without(local, {j.rel}))
    BY <2>2 DEF RmLocalDir, OsRemove
  <2>6. SameFiles(local, Without(local, {j.rel}))
    BY <2>4, FilesWithout DEF SameFiles
  <2> QED
    BY <1>7, <2>5, <2>6
<1> QED
  BY <1>6, <1>8, <1>9, <1>10 DEF System, Progress

(* For all settings and trees, when users leave the trees alone during a   *)
(* pass and times and contents agree at the start, and whatever fails, is  *)
(* retried or cancelled: under conflict=newest a two-way pass never loses  *)
(* the newest content of a file.                                           *)
THEOREM NewestIsKept ==
  ASSUME Quiet PROVE Spec => NewestSurvives
<1>1. TypeOK /\ Inv /\ OrderInv
        => [System /\ cfg.conflict = "newest" /\ cfg.direction = "both"
              => \A r \in Files(remote) \cup Files(local) : Newest(r)' >= Newest(r)]_vars
  BY StepsKeepNewest
<1> QED
  BY <1>1, TypeHolds, Invariance, OrderHolds, PTL DEF NewestSurvives

-----------------------------------------------------------------------------
\* No file but by the policy of the other side takes an older content.
NoneOlder(tree, next) ==
  \A r \in Files(tree) \cap Files(next) : next[r].content >= tree[r].content

LEMMA StepsFollowPolicy ==
  ASSUME Quiet, TypeOK, Inv, OrderInv, System
  PROVE  /\ cfg.conflict # "remote" => NoneOlder(local, local')
         /\ cfg.conflict # "local" => NoneOlder(remote, remote')
<1>1. Orderly /\ now \in Nat
  BY ClockNow DEF OrderInv
<1>2. /\ \A r \in Files(remote) : remote[r].content \in Int
      /\ \A r \in Files(local) : local[r].content \in Int
  BY <1>1 DEF Orderly, AgesInv, DatedUpTo
<1>3. CASE SameFiles(remote, remote') /\ SameFiles(local, local')
  BY <1>2, <1>3 DEF SameFiles, NoneOlder
<1>4. CASE \/ Begin \/ ListRemote \/ ListFails \/ ScanAndPlan
           \/ EndMkdir \/ EndDownloads \/ EndUploads \/ EndPass
  <2>1. remote' = remote /\ local' = local
    BY <1>4 DEF Begin, ListRemote, ListFails, ScanAndPlan, EndMkdir, EndDownloads,
                EndUploads, EndPass, trees
  <2> QED
    BY <1>2, <2>1 DEF NoneOlder
<1>5. ASSUME NEW j \in todo, MkdirRemote(j) \/ MkdirLocal(j) \/ JobStep(j)
      PROVE  /\ cfg.conflict # "remote" => NoneOlder(local, local')
             /\ cfg.conflict # "local" => NoneOlder(remote, remote')
  <2>1. \/ SameFiles(remote, remote') /\ SameFiles(local, local')
        \/ CopiesDown(j) \/ CopiesUp(j)
    BY <1>1, <1>5, JobEffects
  <2>2. CASE CopiesDown(j)
    BY <1>2, <2>2 DEF CopiesDown, IsCopy, FileWritten, NoLoss, NoneOlder
  <2>3. CASE CopiesUp(j)
    BY <1>2, <2>3 DEF CopiesUp, IsCopy, FileWritten, NoLoss, NoneOlder
  <2> QED
    BY <1>3, <2>1, <2>2, <2>3
<1>6. ASSUME NEW j \in todo, RemoveStep(j)
      PROVE  NoneOlder(local, local') /\ NoneOlder(remote, remote')
  <2>1. /\ remote' = remote \/ \E xs : remote' = Without(remote, xs)
        /\ local' = local \/ \E xs : local' = Without(local, xs)
    BY <1>6 DEF RemoveStep, RmLocalFile, RmLocalDir, RmRemote, OsRemove
  <2>2. /\ \A r \in Files(remote') : remote'[r] = remote[r]
        /\ \A r \in Files(local') : local'[r] = local[r]
    BY <2>1, FilesWithout
  <2> QED
    BY <1>2, <2>2 DEF NoneOlder
<1> QED
  BY <1>4, <1>5, <1>6 DEF System, Progress

(* For all settings, directions and trees, under the same hypothesis: a    *)
(* file is replaced by an older content only where the policy names the    *)
(* other side, under any interleaving of jobs, failures, cancellations and *)
(* crashes.                                                                *)
THEOREM OlderIsByPolicy ==
  ASSUME Quiet PROVE Spec => OlderOnlyByPolicy
<1>1. TypeOK /\ Inv /\ OrderInv
        => [System =>
              /\ cfg.conflict # "remote" => NoneOlder(local, local')
              /\ cfg.conflict # "local" => NoneOlder(remote, remote')]_vars
  BY StepsFollowPolicy
<1> QED
  BY <1>1, TypeHolds, Invariance, OrderHolds, PTL DEF OlderOnlyByPolicy, NoneOlder
=============================================================================
