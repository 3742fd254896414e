---------------------------- MODULE PlannerLemmas ----------------------------
(***************************************************************************)
(* Facts about the operators of Planner, for all settings and trees.       *)
(***************************************************************************)
EXTENDS Planner, TLAPS

(* What each part of a plan may contain, stated once: the kinds of its     *)
(* jobs and what each says of the two trees.                               *)
LEMMA PullJobs ==
  ASSUME NEW c, NEW R, NEW L, NEW j \in planPull(c, R, L)
  PROVE  /\ j.kind \in {"mkdir_local", "download"}
         /\ j.rel \in DOMAIN R
         /\ j.kind = "download" =>
              /\ ~R[j.rel].isDir /\ Match(c.filter, j.rel, R[j.rel].type)
              /\ IsFile(L, j.rel) => wantsDownload(c, R[j.rel], L[j.rel])
  BY DEF planPull, Job

LEMMA PushJobs ==
  ASSUME NEW c, NEW R, NEW L, NEW j \in planPush(c, R, L)
  PROVE  /\ j.kind \in {"mkdir_remote", "upload"}
         /\ j.rel \in DOMAIN L
         /\ j.kind = "upload" =>
              /\ ~L[j.rel].isDir /\ MatchLocal(c.filter, j.rel)
              /\ j.rel \in DOMAIN R => wantsUpload(c, R[j.rel], L[j.rel])
  BY DEF planPush, Job, UploadJob

LEMMA CleanupLocalJobs ==
  ASSUME NEW c, NEW R, NEW L, NEW U, NEW j \in planCleanupLocal(c, R, L, U)
  PROVE  /\ j.kind \in {"rm_local_file", "rm_local_dir"}
         /\ j = Job(j.kind, j.rel)
         /\ j.rel \in DOMAIN L /\ j.rel \notin DOMAIN R /\ j.rel \notin U
         /\ j.kind = "rm_local_file" <=> ~L[j.rel].isDir
         /\ j.kind = "rm_local_file" => MatchLocal(c.filter, j.rel)
  BY DEF planCleanupLocal, Job

LEMMA CleanupRemoteJobs ==
  ASSUME NEW c, NEW R, NEW L, NEW D, NEW j \in planCleanupRemote(c, R, L, D)
  PROVE  /\ j.kind = "rm_remote"
         /\ \A n \in j.names : \E r \in DOMAIN R \ DOMAIN L :
              /\ ~R[r].isDir /\ r \notin D /\ Match(c.filter, r, R[r].type)
              /\ Front(r) = j.parent /\ Base(r) = n
         /\ j.names # {}
  BY DEF planCleanupRemote, RmRemoteJob

(* A two-way or pulling pass downloads every filtered file that only the   *)
(* remote has; a two-way or pushing one uploads every one only the local   *)
(* side has.                                                               *)
LEMMA MissingIsDownloaded ==
  ASSUME NEW c, NEW R, NEW L, NEW r \in DOMAIN R \ DOMAIN L,
         ~R[r].isDir, Match(c.filter, r, R[r].type)
  PROVE  r \in Rels(planPull(c, R, L), "download")
<1>1. Job("download", r) \in planPull(c, R, L)
  BY DEF planPull, IsFile
<1> QED
  BY <1>1 DEF Rels, Job

LEMMA MissingIsUploaded ==
  ASSUME NEW c, NEW R, NEW L, NEW r \in DOMAIN L \ DOMAIN R,
         ~L[r].isDir, MatchLocal(c.filter, r)
  PROVE  r \in Rels(planPush(c, R, L), "upload")
<1>1. UploadJob(r, r \in DOMAIN R) \in planPush(c, R, L)
  BY DEF planPush
<1> QED
  BY <1>1 DEF Rels, UploadJob

(* The parts of a plan, told apart by the kinds of their jobs. *)
LEMMA PlanParts ==
  ASSUME NEW c, NEW R, NEW L
  PROVE  LET T == transferJobs(c, R, L)
             U == Rels(T, "upload")
             D == Rels(T, "download")
         IN  /\ Rels(plan(c, R, L), "upload") = U
             /\ Rels(plan(c, R, L), "download") = D
             /\ U \subseteq DOMAIN L /\ D \subseteq DOMAIN R
             /\ \A j \in plan(c, R, L) :
                  /\ j.kind \in {"rm_local_file", "rm_local_dir"} =>
                       j \in planCleanupLocal(c, R, L, U)
                  /\ j.kind = "rm_remote" => j \in planCleanupRemote(c, R, L, D)
                  /\ j.kind \notin {"rm_local_file", "rm_local_dir", "rm_remote"} =>
                       j \in T
<1> DEFINE T == transferJobs(c, R, L)
           U == Rels(T, "upload")
           D == Rels(T, "download")
           CL == IF cleanupLocal(c) THEN planCleanupLocal(c, R, L, U) ELSE {}
           CR == IF cleanupRemote(c) THEN planCleanupRemote(c, R, L, D) ELSE {}
<1>1. plan(c, R, L) = T \cup CL \cup CR
  BY DEF plan
<1>2. \A k \in T : /\ k.kind \in {"mkdir_local", "download", "mkdir_remote", "upload"}
                   /\ k.kind = "download" => k.rel \in DOMAIN R
                   /\ k.kind = "upload" => k.rel \in DOMAIN L
  BY PullJobs, PushJobs DEF transferJobs
<1>3. /\ CL \subseteq planCleanupLocal(c, R, L, U)
      /\ CR \subseteq planCleanupRemote(c, R, L, D)
  OBVIOUS
<1>4. /\ \A k \in CL : k.kind \in {"rm_local_file", "rm_local_dir"}
      /\ \A k \in CR : k.kind = "rm_remote"
  BY CleanupLocalJobs, CleanupRemoteJobs
<1> HIDE DEF T, CL, CR
<1>5. Rels(plan(c, R, L), "upload") = U /\ Rels(plan(c, R, L), "download") = D
  BY <1>1, <1>2, <1>4 DEF Rels
<1>6. U \subseteq DOMAIN L /\ D \subseteq DOMAIN R
  BY <1>2 DEF Rels
<1>7. \A j \in plan(c, R, L) :
        /\ j.kind \in {"rm_local_file", "rm_local_dir"} => j \in CL
        /\ j.kind = "rm_remote" => j \in CR
        /\ j.kind \notin {"rm_local_file", "rm_local_dir", "rm_remote"} => j \in T
  BY <1>1, <1>2, <1>4
<1> QED
  BY <1>3, <1>5, <1>6, <1>7 DEF T

-----------------------------------------------------------------------------
(* planner.go:79-94: cleanup of the sending side of a pass never selects a *)
(* file, because every candidate is already being transferred.             *)
LEMMA PlanRemovals ==
  ASSUME NEW c, c.direction \in Directions, NEW R, NEW L, NEW j \in plan(c, R, L)
  PROVE  /\ j.kind = "rm_local_file" => c.direction = "pull"
         /\ j.kind = "rm_remote" => c.direction = "push"
<1> DEFINE U == Rels(transferJobs(c, R, L), "upload")
           D == Rels(transferJobs(c, R, L), "download")
<1>1. ASSUME j.kind = "rm_local_file", c.direction # "pull" PROVE FALSE
  <2>1. j \in planCleanupLocal(c, R, L, U)
    BY <1>1, PlanParts
  <2>2. /\ j.rel \in DOMAIN L \ DOMAIN R /\ j.rel \notin U
        /\ ~L[j.rel].isDir /\ MatchLocal(c.filter, j.rel)
    BY <1>1, <2>1, CleanupLocalJobs
  <2>3. j.rel \in Rels(planPush(c, R, L), "upload")
    BY <2>2, MissingIsUploaded
  <2>4. wantsPush(c)
    BY <1>1 DEF Directions, wantsPush
  <2> QED
    BY <2>2, <2>3, <2>4 DEF Rels, transferJobs
<1>2. ASSUME j.kind = "rm_remote", c.direction # "push" PROVE FALSE
  <2>1. j \in planCleanupRemote(c, R, L, D)
    BY <1>2, PlanParts
  <2>2. PICK r \in DOMAIN R \ DOMAIN L :
          ~R[r].isDir /\ r \notin D /\ Match(c.filter, r, R[r].type)
    BY <2>1, CleanupRemoteJobs
  <2>3. r \in Rels(planPull(c, R, L), "download")
    BY <2>2, MissingIsDownloaded
  <2>4. wantsPull(c)
    BY <1>2 DEF Directions, wantsPull
  <2> QED
    BY <2>2, <2>3, <2>4 DEF Rels, transferJobs
<1> QED
  BY <1>1, <1>2

LEMMA AppendFront ==
  ASSUME NEW r \in Seq(STRING), r # << >>
  PROVE  Append(Front(r), Base(r)) = r
  BY DEF Front, Base
=============================================================================
