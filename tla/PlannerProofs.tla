---------------------------- MODULE PlannerProofs ----------------------------
(***************************************************************************)
(* Proofs about the planner for all settings and all trees the scans can   *)
(* return.                                                                 *)
(***************************************************************************)
EXTENDS PlannerSpec, PlannerLemmas

(* planner.go:76-78: nothing is both removed locally and transferred, and  *)
(* no removed directory lies above a download.                             *)
LEMMA LocalRemovals ==
  ASSUME NEW c, NEW R, NEW L,
         Closed(R), \A r \in DOMAIN R \cup DOMAIN L : r \in Seq(STRING) /\ r # << >>,
         NEW j \in plan(c, R, L), j.kind \in {"rm_local_file", "rm_local_dir"}
  PROVE  /\ j.rel \in DOMAIN L \ DOMAIN R
         /\ j.rel \notin Rels(plan(c, R, L), "upload")
         /\ \A r \in Rels(plan(c, R, L), "download") : ~IsPrefix(j.rel, r)
<1>1. /\ j.rel \in DOMAIN L \ DOMAIN R
      /\ j.rel \notin Rels(plan(c, R, L), "upload")
  BY PlanParts, CleanupLocalJobs
<1>2. ASSUME NEW r \in Rels(plan(c, R, L), "download"), IsPrefix(j.rel, r)
      PROVE  FALSE
  <2>1. r \in DOMAIN R /\ r \in Seq(STRING) /\ j.rel \in Seq(STRING) /\ j.rel # << >>
    BY <1>1, PlanParts
  <2>2. Len(j.rel) \in 1..Len(r) /\ j.rel = SubSeq(r, 1, Len(j.rel))
    BY <1>2, <2>1 DEF IsPrefix
  <2>3. CASE Len(j.rel) = Len(r)
    <3>1. j.rel = r
      BY <2>1, <2>2, <2>3
    <3> QED
      BY <1>1, <2>1, <3>1
  <2>4. CASE Len(j.rel) # Len(r)
    <3>1. Len(j.rel) \in 1..(Len(r) - 1)
      BY <2>1, <2>2, <2>4
    <3>2. j.rel \in DOMAIN R
      BY <2>1, <2>2, <3>1 DEF Closed
    <3> QED
      BY <1>1, <3>2
  <2> QED
    BY <2>3, <2>4
<1> QED
  BY <1>1, <1>2

LEMMA RemoteRemovals ==
  ASSUME NEW c, NEW R, NEW L, \A r \in DOMAIN R : r \in Seq(STRING) /\ r # << >>,
         NEW j \in plan(c, R, L), j.kind = "rm_remote", NEW n \in j.names
  PROVE  /\ Append(j.parent, n) \in DOMAIN R \ DOMAIN L
         /\ Append(j.parent, n) \notin Rels(plan(c, R, L), "download")
<1>1. j \in planCleanupRemote(c, R, L, Rels(plan(c, R, L), "download"))
  BY PlanParts
<1>2. PICK r \in DOMAIN R \ DOMAIN L :
        /\ r \notin Rels(plan(c, R, L), "download")
        /\ Front(r) = j.parent /\ Base(r) = n
  BY <1>1, CleanupRemoteJobs
<1> QED
  BY <1>2, AppendFront

-----------------------------------------------------------------------------
(* The state of PlannerSpec: inputs never change, and the jobs are the plan *)
(* of the inputs.                                                          *)
PlanInv ==
  /\ cfg \in Configs /\ remote \in RemoteTrees /\ local \in LocalTrees
  /\ pc \in {"scanned", "planned"}
  /\ jobs = IF pc = "planned" THEN plan(cfg, remote, local) ELSE {}

LEMMA PlanInvariance == Spec => []PlanInv
<1>1. Init => PlanInv
  BY DEF Init, PlanInv
<1>2. PlanInv /\ [Next]_vars => PlanInv'
  BY DEF PlanInv, Next, Plan, Done, vars
<1> QED
  BY <1>1, <1>2, PTL DEF Spec

(* Type correctness: jobs are about what the scans saw. *)
THEOREM TypeCorrect == Spec => []TypeOK
<1>1. ASSUME PlanInv, pc = "planned", NEW j \in jobs
      PROVE  /\ j.kind \in JobKinds
             /\ j.kind \in {"download", "mkdir_local"} => j.rel \in DOMAIN remote
             /\ j.kind \in {"upload", "mkdir_remote", "rm_local_file", "rm_local_dir"} =>
                  j.rel \in DOMAIN local
             /\ j.kind = "rm_remote" =>
                  j.names # {} /\ \A n \in j.names : Append(j.parent, n) \in DOMAIN remote
  <2> DEFINE T == transferJobs(cfg, remote, local)
  <2>1. j \in plan(cfg, remote, local)
    BY <1>1 DEF PlanInv
  <2>2. CASE j \in T
    <3>1. \/ j \in planPull(cfg, remote, local)
          \/ j \in planPush(cfg, remote, local)
      BY <2>2 DEF transferJobs
    <3> QED
      BY <3>1, PullJobs, PushJobs DEF JobKinds
  <2>3. CASE j.kind = "rm_remote"
    <3>1. j.names # {}
      BY <2>1, <2>3, PlanParts, CleanupRemoteJobs
    <3>2. \A r \in DOMAIN remote : r \in Seq(STRING) /\ r # << >>
      BY <1>1, TreesAssumption DEF PlanInv
    <3>3. \A n \in j.names : Append(j.parent, n) \in DOMAIN remote
      BY <2>1, <2>3, <3>2, RemoteRemovals
    <3> QED
      BY <2>3, <3>1, <3>3 DEF JobKinds
  <2>4. CASE j.kind \in {"rm_local_file", "rm_local_dir"}
    <3>1. j \in planCleanupLocal(cfg, remote, local, Rels(T, "upload"))
      BY <2>1, <2>4, PlanParts
    <3> QED
      BY <2>4, <3>1, CleanupLocalJobs DEF JobKinds
  <2> QED
    BY <2>1, <2>2, <2>3, <2>4, PlanParts
<1>2. PlanInv => TypeOK
  <2> SUFFICES ASSUME PlanInv PROVE TypeOK
    OBVIOUS
  <2>1. CASE pc = "planned"
    BY <1>1, <2>1 DEF PlanInv, TypeOK
  <2>2. CASE pc = "scanned"
    BY <2>2 DEF PlanInv, TypeOK
  <2> QED
    BY <2>1, <2>2 DEF PlanInv
<1> QED
  BY <1>2, PlanInvariance, PTL

(* For all settings and trees: a file is removed only on the side that     *)
(* only receives.                                                          *)
THEOREM RemovalsOnReceivingSide == Spec => []RemovesOnlyOnReceivingSide
<1>1. PlanInv => RemovesOnlyOnReceivingSide
  BY PlanRemovals, ConfigsAssumption
  DEF PlanInv, RemovesOnlyOnReceivingSide, RmRemote, Rels
<1> QED
  BY <1>1, PlanInvariance, PTL

(* For all settings and trees: cleanup does not fight the transfers.       *)
THEOREM CleanupAndTransfersDisjoint == Spec => []CleanupSparesTransfers
<1>1. ASSUME PlanInv PROVE CleanupSparesTransfers
  <2>1. CASE pc = "scanned"
    BY <1>1, <2>1
    DEF PlanInv, CleanupSparesTransfers, Downloads, Uploads, RmLocal, RmRemote, Rels
  <2>2. CASE pc = "planned"
    <3> DEFINE p == plan(cfg, remote, local)
    <3>1. jobs = p
      BY <1>1, <2>2 DEF PlanInv
    <3>2. /\ Closed(remote)
          /\ \A r \in DOMAIN remote \cup DOMAIN local : r \in Seq(STRING) /\ r # << >>
      BY <1>1, TreesAssumption DEF PlanInv
    <3>3. \A d \in RmLocal : /\ d \in DOMAIN local \ DOMAIN remote
                             /\ d \notin Uploads
                             /\ \A r \in Downloads : ~IsPrefix(d, r)
      <4>1. SUFFICES ASSUME NEW j \in p, j.kind \in {"rm_local_file", "rm_local_dir"}
                     PROVE  /\ j.rel \in DOMAIN local \ DOMAIN remote
                            /\ j.rel \notin Uploads
                            /\ \A r \in Downloads : ~IsPrefix(j.rel, r)
        BY <3>1 DEF RmLocal, Rels
      <4> QED
        BY <3>1, <3>2, <4>1, LocalRemovals DEF Uploads, Downloads
    <3>4. ASSUME NEW r \in RmRemote
          PROVE  r \in DOMAIN remote \ DOMAIN local /\ r \notin Downloads
      <4>1. PICK j \in p : j.kind = "rm_remote" /\ r \in {Append(j.parent, n) : n \in j.names}
        BY <3>1, <3>4 DEF RmRemote
      <4>2. PICK n \in j.names : r = Append(j.parent, n)
        BY <4>1
      <4> HIDE DEF p
      <4>3. /\ Append(j.parent, n) \in DOMAIN remote \ DOMAIN local
            /\ Append(j.parent, n) \notin Rels(p, "download")
        BY <3>2, <4>1, <4>2, RemoteRemovals DEF p
      <4> QED
        BY <3>1, <4>2, <4>3 DEF Downloads
    <3>5. Downloads \subseteq DOMAIN remote /\ Uploads \subseteq DOMAIN local
      BY <3>1, PlanParts DEF Downloads, Uploads
    <3> QED
      BY <3>3, <3>4, <3>5 DEF CleanupSparesTransfers
  <2> QED
    BY <1>1, <2>1, <2>2 DEF PlanInv
<1> QED
  BY <1>1, PlanInvariance, PTL

-----------------------------------------------------------------------------
\* Trees as the planner sees them: sizes and times are numbers.
Numbers(tree) == \A r \in DOMAIN tree : tree[r].size \in Int /\ tree[r].mtime \in Int

LEMMA MirroredUnchanged ==
  ASSUME NEW re, NEW le, re.size \in Int, le.size \in Int,
         re.mtime \in Int, le.mtime \in Int, le.mtime # NoTime
  PROVE  Unchanged(re, le) <=>
           /\ NoTime \notin {re.mtime, le.mtime}
           /\ le.size = re.size
           /\ le.mtime <= re.mtime + Tolerance
           /\ re.mtime <= le.mtime + Tolerance
  BY ToleranceAssumption DEF Unchanged, timesEq

(* A file that both sides have is left out of both halves of a two-way     *)
(* plan exactly when it is unchanged: "newer" cannot point both ways, and  *)
(* what the push leaves out for lack of a time the pull does not.          *)
LEMMA LeftOutIffUnchanged ==
  ASSUME NEW c, NEW re, NEW le, re.mtime \in Int, le.mtime \in Int
  PROVE  ~wantsDownload(c, re, le) /\ ~wantsUpload(c, re, le) <=> Unchanged(re, le)
  BY ToleranceAssumption DEF wantsDownload, wantsUpload, Unchanged, timesEq, After

(* No job at all means no transfer and no directory to make; the cleanup   *)
(* of a two-way pass adds nothing of its own then.                         *)
LEMMA EmptyPlan ==
  ASSUME NEW c, c.direction = "both", NEW R, NEW L
  PROVE  plan(c, R, L) = {} <=> planPull(c, R, L) = {} /\ planPush(c, R, L) = {}
<1> DEFINE T == transferJobs(c, R, L)
<1>1. T = planPull(c, R, L) \cup planPush(c, R, L)
  BY DEF transferJobs, wantsPull, wantsPush
<1>2. T \subseteq plan(c, R, L)
  BY DEF plan
<1>3. ASSUME T = {}, NEW j \in plan(c, R, L) PROVE FALSE
  <2>1. c.direction \in Directions
    BY DEF Directions
  <2>2. j.kind \notin {"rm_local_file", "rm_remote"}
    BY <2>1, PlanRemovals
  <2>3. j.kind = "rm_local_dir"
    BY <1>3, <2>2, PlanParts
  <2>4. j.rel \in DOMAIN L \ DOMAIN R /\ L[j.rel].isDir
    <3>1. j \in planCleanupLocal(c, R, L, Rels(T, "upload"))
      BY <2>3, PlanParts
    <3> QED
      BY <2>3, <3>1 DEF planCleanupLocal, Job
  <2>5. Job("mkdir_remote", j.rel) \in planPush(c, R, L)
    BY <2>4 DEF planPush, IsDir
  <2> QED
    BY <1>1, <1>3, <2>5
<1> QED
  BY <1>1, <1>2, <1>3

LEMMA NoPull ==
  ASSUME NEW c, NEW R, NEW L
  PROVE  planPull(c, R, L) = {} <=>
           \A r \in DOMAIN R :
             /\ R[r].isDir => IsDir(L, r)
             /\ ~R[r].isDir /\ Match(c.filter, r, R[r].type) =>
                  IsFile(L, r) /\ ~wantsDownload(c, R[r], L[r])
  BY DEF planPull

LEMMA NoPush ==
  ASSUME NEW c, NEW R, NEW L
  PROVE  planPush(c, R, L) = {} <=>
           \A r \in DOMAIN L :
             /\ L[r].isDir => IsDir(R, r)
             /\ ~L[r].isDir /\ MatchLocal(c.filter, r) =>
                  r \in DOMAIN R /\ ~wantsUpload(c, R[r], L[r])
  BY DEF planPush

LEMMA TwoWayPlan ==
  ASSUME NEW c, c.direction = "both", c.filter.types = {}, NEW R, NEW L,
         Numbers(R), Numbers(L), \A r \in DOMAIN L : L[r].mtime # NoTime,
         \A r \in DOMAIN R : R[r].isDir \in BOOLEAN,
         \A r \in DOMAIN L : L[r].isDir \in BOOLEAN
  PROVE  plan(c, R, L) = {} <=>
           /\ \A r \in DOMAIN R : R[r].isDir \/ MatchLocal(c.filter, r) => Mirrored(R, L, r)
           /\ \A r \in DOMAIN L : L[r].isDir \/ MatchLocal(c.filter, r) => Mirrored(L, R, r)
<1>1. \A r \in DOMAIN R : Match(c.filter, r, R[r].type) <=> MatchLocal(c.filter, r)
  BY DEF Match, MatchLocal, matchType
<1>2. \A r \in DOMAIN R \cap DOMAIN L :
        /\ ~wantsDownload(c, R[r], L[r]) /\ ~wantsUpload(c, R[r], L[r])
             <=> Unchanged(R[r], L[r])
        /\ Unchanged(R[r], L[r]) <=>
             /\ NoTime \notin {R[r].mtime, L[r].mtime}
             /\ L[r].size = R[r].size
             /\ L[r].mtime <= R[r].mtime + Tolerance
             /\ R[r].mtime <= L[r].mtime + Tolerance
  BY LeftOutIffUnchanged, MirroredUnchanged DEF Numbers
<1>3. ASSUME planPull(c, R, L) = {}, planPush(c, R, L) = {}
      PROVE  /\ \A r \in DOMAIN R :
                  R[r].isDir \/ MatchLocal(c.filter, r) => Mirrored(R, L, r)
             /\ \A r \in DOMAIN L :
                  L[r].isDir \/ MatchLocal(c.filter, r) => Mirrored(L, R, r)
  <2>1. \A r \in DOMAIN R : /\ R[r].isDir => IsDir(L, r)
                            /\ ~R[r].isDir /\ MatchLocal(c.filter, r) =>
                                 IsFile(L, r) /\ ~wantsDownload(c, R[r], L[r])
    BY <1>1, <1>3, NoPull
  <2>2. \A r \in DOMAIN L : /\ L[r].isDir => IsDir(R, r)
                            /\ ~L[r].isDir /\ MatchLocal(c.filter, r) =>
                                 r \in DOMAIN R /\ ~wantsUpload(c, R[r], L[r])
    BY <1>3, NoPush
  <2> QED
    BY <1>2, <2>1, <2>2 DEF Mirrored, IsDir, IsFile
<1>4. ASSUME \A r \in DOMAIN R :
               R[r].isDir \/ MatchLocal(c.filter, r) => Mirrored(R, L, r),
             \A r \in DOMAIN L :
               L[r].isDir \/ MatchLocal(c.filter, r) => Mirrored(L, R, r)
      PROVE  planPull(c, R, L) = {} /\ planPush(c, R, L) = {}
  <2>1. \A r \in DOMAIN R : /\ R[r].isDir => IsDir(L, r)
                            /\ ~R[r].isDir /\ MatchLocal(c.filter, r) =>
                                 IsFile(L, r) /\ ~wantsDownload(c, R[r], L[r])
    BY <1>2, <1>4 DEF Mirrored, IsDir, IsFile
  <2>2. \A r \in DOMAIN L : /\ L[r].isDir => IsDir(R, r)
                            /\ ~L[r].isDir /\ MatchLocal(c.filter, r) =>
                                 r \in DOMAIN R /\ ~wantsUpload(c, R[r], L[r])
    BY <1>2, <1>4 DEF Mirrored, IsDir, IsFile
  <2> QED
    BY <1>1, <2>1, <2>2, NoPull, NoPush
<1> QED
  BY <1>3, <1>4, EmptyPlan

(* For all settings, filters by name and trees: "up to date" is said       *)
(* exactly when the two sides mirror each other.                           *)
THEOREM UpToDateIsMirrored == Spec => []UpToDateIffMirrored
<1>1. ASSUME PlanInv PROVE UpToDateIffMirrored
  <2>1. /\ Numbers(remote) /\ Numbers(local)
        /\ \A r \in DOMAIN local : local[r].mtime # NoTime
        /\ \A r \in DOMAIN remote : remote[r].isDir \in BOOLEAN
        /\ \A r \in DOMAIN local : local[r].isDir \in BOOLEAN
    BY <1>1, TreesAssumption DEF PlanInv, Numbers, NoTime
  <2> QED
    BY <1>1, <2>1, TwoWayPlan DEF PlanInv, UpToDateIffMirrored, Planned
<1> QED
  BY <1>1, PlanInvariance, PTL

-----------------------------------------------------------------------------
(* What is transferred: the plan of a file that exists on both sides is    *)
(* decided by wantsDownload and wantsUpload.                               *)
LEMMA WhatIsDownloaded ==
  ASSUME NEW c, NEW R, NEW L, NEW r
  PROVE  r \in Rels(plan(c, R, L), "download") <=>
           /\ wantsPull(c) /\ r \in DOMAIN R /\ ~R[r].isDir
           /\ Match(c.filter, r, R[r].type)
           /\ IsFile(L, r) => wantsDownload(c, R[r], L[r])
<1> DEFINE Wanted == {x \in DOMAIN R : /\ ~R[x].isDir
                                       /\ Match(c.filter, x, R[x].type)
                                       /\ IsFile(L, x) => wantsDownload(c, R[x], L[x])}
<1>1. r \in Rels(planPull(c, R, L), "download") <=> r \in Wanted
  <2>1. ASSUME r \in Wanted PROVE r \in Rels(planPull(c, R, L), "download")
    <3>1. Job("download", r) \in planPull(c, R, L)
      BY <2>1 DEF planPull
    <3> QED
      BY <3>1 DEF Rels, Job
  <2>2. ASSUME r \in Rels(planPull(c, R, L), "download") PROVE r \in Wanted
    <3>1. PICK j \in planPull(c, R, L) : j.kind = "download" /\ j.rel = r
      BY <2>2 DEF Rels
    <3> QED
      BY <3>1, PullJobs
  <2> QED
    BY <2>1, <2>2
<1>2. \A j \in planPush(c, R, L) : j.kind # "download"
  BY PushJobs
<1>3. Rels(plan(c, R, L), "download") = Rels(transferJobs(c, R, L), "download")
  BY PlanParts
<1>4. r \in Rels(transferJobs(c, R, L), "download") <=>
        wantsPull(c) /\ r \in Rels(planPull(c, R, L), "download")
  BY <1>2 DEF transferJobs, Rels
<1> QED
  BY <1>1, <1>3, <1>4

LEMMA WhatIsUploaded ==
  ASSUME NEW c, NEW R, NEW L, NEW r
  PROVE  r \in Rels(plan(c, R, L), "upload") <=>
           /\ wantsPush(c) /\ r \in DOMAIN L /\ ~L[r].isDir
           /\ MatchLocal(c.filter, r)
           /\ r \in DOMAIN R => wantsUpload(c, R[r], L[r])
<1> DEFINE Wanted == {x \in DOMAIN L : /\ ~L[x].isDir
                                       /\ MatchLocal(c.filter, x)
                                       /\ x \in DOMAIN R => wantsUpload(c, R[x], L[x])}
<1>1. r \in Rels(planPush(c, R, L), "upload") <=> r \in Wanted
  <2>1. ASSUME r \in Wanted PROVE r \in Rels(planPush(c, R, L), "upload")
    <3>1. UploadJob(r, r \in DOMAIN R) \in planPush(c, R, L)
      BY <2>1 DEF planPush
    <3> QED
      BY <3>1 DEF Rels, UploadJob
  <2>2. ASSUME r \in Rels(planPush(c, R, L), "upload") PROVE r \in Wanted
    <3>1. PICK j \in planPush(c, R, L) : j.kind = "upload" /\ j.rel = r
      BY <2>2 DEF Rels
    <3> QED
      BY <3>1, PushJobs
  <2> QED
    BY <2>1, <2>2
<1>2. \A j \in planPull(c, R, L) : j.kind # "upload"
  BY PullJobs
<1>3. Rels(plan(c, R, L), "upload") = Rels(transferJobs(c, R, L), "upload")
  BY PlanParts
<1>4. r \in Rels(transferJobs(c, R, L), "upload") <=>
        wantsPush(c) /\ r \in Rels(planPush(c, R, L), "upload")
  BY <1>2 DEF transferJobs, Rels
<1> QED
  BY <1>1, <1>3, <1>4

(* The decisions about a dated file that both sides have: the older copy   *)
(* replaces the newer one only under its policy, and a policy that names a *)
(* winner has it replace the other copy unless they are the same.          *)
LEMMA NewerDecides ==
  ASSUME NEW c, NEW re, NEW le, re.mtime \in Int, le.mtime \in Int, re.mtime # NoTime
  PROVE  /\ After(re.mtime, le.mtime) => (wantsUpload(c, re, le) => c.conflict = "local")
         /\ After(le.mtime, re.mtime) => (wantsDownload(c, re, le) => c.conflict = "remote")
         /\ ~Unchanged(re, le) =>
              /\ After(re.mtime, le.mtime) \/ c.conflict = "remote" => wantsDownload(c, re, le)
              /\ After(le.mtime, re.mtime) \/ c.conflict = "local" => wantsUpload(c, re, le)
BY ToleranceAssumption DEF wantsDownload, wantsUpload, Unchanged, timesEq, After

LEMMA WinnerPlanned ==
  ASSUME PlanInv PROVE WinnerReplacesLoser
<1>1. CASE pc = "scanned"
  BY <1>1 DEF WinnerReplacesLoser, Planned
<1>2. CASE pc = "planned"
  <2>1. /\ Downloads = Rels(plan(cfg, remote, local), "download")
        /\ Uploads = Rels(plan(cfg, remote, local), "upload")
    BY <1>2 DEF PlanInv, Downloads, Uploads
  <2>2. \A r : InBoth(r) =>
          /\ r \in DOMAIN remote /\ ~remote[r].isDir /\ remote[r].isDir = FALSE
          /\ remote[r].mtime \in Int /\ remote[r].size \in Int
          /\ r \in DOMAIN local /\ ~local[r].isDir /\ local[r].isDir = FALSE
          /\ local[r].mtime \in Int /\ local[r].size \in Int
          /\ remote[r].mtime # NoTime /\ local[r].mtime # NoTime
    BY TreesAssumption DEF PlanInv, InBoth, IsFile, NoTime
  <2>3. ASSUME NEW r, InBoth(r)
        PROVE  /\ RemoteNewer(r) => (wantsUpload(cfg, remote[r], local[r]) => cfg.conflict = "local")
               /\ LocalNewer(r) => (wantsDownload(cfg, remote[r], local[r]) => cfg.conflict = "remote")
               /\ RemoteWins(r) => wantsDownload(cfg, remote[r], local[r])
               /\ LocalWins(r) => wantsUpload(cfg, remote[r], local[r])
    <3>1. Mirrored(remote, local, r) <=> Unchanged(remote[r], local[r])
      BY <2>2, <2>3, MirroredUnchanged DEF Mirrored
    <3> QED
      BY <2>2, <2>3, <3>1, NewerDecides DEF RemoteNewer, LocalNewer, RemoteWins, LocalWins
  <2>4. ASSUME NEW r \in Downloads, LocalNewer(r) PROVE cfg.conflict = "remote"
    BY <2>1, <2>2, <2>3, <2>4, WhatIsDownloaded DEF LocalNewer, IsFile
  <2>5. ASSUME NEW r \in Uploads, RemoteNewer(r) PROVE cfg.conflict = "local"
    BY <2>1, <2>2, <2>3, <2>5, WhatIsUploaded DEF RemoteNewer
  <2>6. ASSUME NEW r \in DOMAIN remote \cap DOMAIN local
        PROVE  /\ RemoteWins(r) /\ wantsPull(cfg)
                    /\ Match(cfg.filter, r, remote[r].type) => r \in Downloads
               /\ LocalWins(r) /\ wantsPush(cfg) /\ MatchLocal(cfg.filter, r) => r \in Uploads
    <3>1. ASSUME RemoteWins(r), wantsPull(cfg), Match(cfg.filter, r, remote[r].type)
          PROVE  r \in Downloads
      BY <2>1, <2>2, <2>3, <3>1, WhatIsDownloaded DEF RemoteWins
    <3>2. ASSUME LocalWins(r), wantsPush(cfg), MatchLocal(cfg.filter, r)
          PROVE  r \in Uploads
      BY <2>1, <2>2, <2>3, <3>2, WhatIsUploaded DEF LocalWins
    <3> QED
      BY <3>1, <3>2
  <2> QED
    BY <2>4, <2>5, <2>6 DEF WinnerReplacesLoser
<1> QED
  BY <1>1, <1>2 DEF PlanInv

(* For all trees and settings: the older copy of a file is planned over    *)
(* the newer one only where the policy gives that side the last word, and  *)
(* the copy that the policy or, under newest, the time names is planned    *)
(* over the other in every direction the pass transfers.                   *)
THEOREM WinnerWins == Spec => []WinnerReplacesLoser
  BY WinnerPlanned, PlanInvariance, PTL
=============================================================================
