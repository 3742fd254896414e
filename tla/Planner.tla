------------------------------- MODULE Planner -------------------------------
(***************************************************************************)
(* The planner (internal/syncer/planner.go): from the scanned remote tree, *)
(* the scanned local tree and the settings it computes the jobs of a pass. *)
(*                                                                         *)
(* A tree is a function from the paths that exist to entries.  The code    *)
(* keeps the jobs in a slice whose order only separates the phases and     *)
(* sorts the removals; here a plan is a set of jobs, and SyncTask's guards *)
(* give the order.                                                         *)
(***************************************************************************)
EXTENDS Filter, FiniteSets, SequencesExt

CONSTANT Tolerance      \* mtimeTolerance, in clock ticks

ASSUME ToleranceAssumption == Tolerance \in Nat

NoTime == -1            \* the server sent no (or no parsable) "modified"

Directions == {"both", "pull", "push"}
Cleanups   == {"none", "local", "remote", "both"}
Conflicts  == {"newest", "remote", "local", "skip"}

-----------------------------------------------------------------------------
\* The fields of RemoteEntry.Obj and LocalEntry that the planner looks at.
DirEntry(mtime)         == [isDir |-> TRUE, size |-> 0, mtime |-> mtime, type |-> "unknown"]
FileEntry(size, mtime, type) ==
  [isDir |-> FALSE, size |-> size, mtime |-> mtime, type |-> type]

IsDir(tree, rel)  == rel \in DOMAIN tree /\ tree[rel].isDir
IsFile(tree, rel) == rel \in DOMAIN tree /\ ~tree[rel].isDir

Job(kind, rel)          == [kind |-> kind, rel |-> rel]
UploadJob(rel, overwrite) == [kind |-> "upload", rel |-> rel, overwrite |-> overwrite]
RmRemoteJob(parent, names) == [kind |-> "rm_remote", parent |-> parent, names |-> names]

-----------------------------------------------------------------------------
wantsPull(cfg)     == cfg.direction \in {"both", "pull"}
wantsPush(cfg)     == cfg.direction \in {"both", "push"}
cleanupLocal(cfg)  == cfg.cleanup \in {"local", "both"}
cleanupRemote(cfg) == cfg.cleanup \in {"remote", "both"}

After(a, b)   == a > b + Tolerance
\* Mutant of timesEq: a difference of exactly the tolerance counts.
StrictTimesEq(a, b) == a - b < Tolerance /\ a - b > -Tolerance

timesEq(a, b) == a - b <= Tolerance /\ a - b >= -Tolerance

\* Mutants of Unchanged: only one of the two fields is compared.
SameSize(re, le) == le.size = re.size /\ re.mtime # NoTime
SameTime(re, le) == re.mtime # NoTime /\ timesEq(le.mtime, re.mtime)

Unchanged(re, le) ==
  le.size = re.size /\ re.mtime # NoTime /\ timesEq(le.mtime, re.mtime)

\* Mutant of wantsDownload: only sizes decide.
DownloadsOtherSizes(cfg, re, le) == le.size # re.size

\* Both sides have the file: must the remote one replace the local one?
wantsDownload(cfg, re, le) ==
  /\ ~Unchanged(re, le)
  /\ (re.mtime # NoTime /\ After(le.mtime, re.mtime)) => cfg.conflict = "remote"

planPull(cfg, remote, local) ==
  {Job("mkdir_local", rel) : rel \in
     {r \in DOMAIN remote : remote[r].isDir /\ ~IsDir(local, r)}}
  \cup
  {Job("download", rel) : rel \in
     {r \in DOMAIN remote :
        /\ ~remote[r].isDir
        /\ Match(cfg.filter, r, remote[r].type)
        /\ IsFile(local, r) => wantsDownload(cfg, remote[r], local[r])}}

\* Mutants of wantsUpload: a newer remote file is replaced under every policy, or
\* under that of the wrong side.
UploadsDiffering(cfg, re, le) ==
  IF re.mtime = NoTime THEN le.size # re.size ELSE ~Unchanged(re, le)
UploadsForRemote(cfg, re, le) ==
  IF re.mtime = NoTime THEN le.size # re.size
  ELSE ~Unchanged(re, le) /\ (After(re.mtime, le.mtime) => cfg.conflict = "remote")

\* The remote has an entry of that name (the code does not ask of what kind).
wantsUpload(cfg, re, le) ==
  IF re.mtime = NoTime
  THEN le.size # re.size
  ELSE /\ ~Unchanged(re, le)
       /\ After(re.mtime, le.mtime) => cfg.conflict = "local"

planPush(cfg, remote, local) ==
  {Job("mkdir_remote", rel) : rel \in
     {r \in DOMAIN local : local[r].isDir /\ ~IsDir(remote, r)}}
  \cup
  {UploadJob(rel, rel \in DOMAIN remote) : rel \in
     {r \in DOMAIN local :
        /\ ~local[r].isDir
        /\ MatchLocal(cfg.filter, r)
        /\ r \in DOMAIN remote => wantsUpload(cfg, remote[r], local[r])}}

Rels(jobs, kind) == {j.rel : j \in {j \in jobs : j.kind = kind}}

\* Mutant of planCleanupLocal: planned uploads are not spared.
CleansUploadedFiles(cfg, remote, local, uploading) ==
  LET missing == DOMAIN local \ DOMAIN remote
  IN  {Job("rm_local_dir", rel) : rel \in {r \in missing : local[r].isDir}}
      \cup
      {Job("rm_local_file", rel) : rel \in
         {r \in missing : ~local[r].isDir /\ MatchLocal(cfg.filter, r)}}

planCleanupLocal(cfg, remote, local, uploading) ==
  LET missing == {r \in DOMAIN local \ DOMAIN remote : r \notin uploading}
  IN  {Job("rm_local_dir", rel) : rel \in {r \in missing : local[r].isDir}}
      \cup
      {Job("rm_local_file", rel) : rel \in
         {r \in missing : ~local[r].isDir /\ MatchLocal(cfg.filter, r)}}

\* Mutants of planCleanupRemote: planned downloads are not spared; a batch is
\* made for every directory, with or without names in it.
CleansDownloadedFiles(cfg, remote, local, downloading) ==
  LET missing == {r \in DOMAIN remote \ DOMAIN local :
                    ~remote[r].isDir /\ Match(cfg.filter, r, remote[r].type)}
  IN  {RmRemoteJob(dir, {Base(r) : r \in {r \in missing : Front(r) = dir}}) :
         dir \in {Front(r) : r \in missing}}

BatchesEveryDir(cfg, remote, local, downloading) ==
  LET missing == {r \in DOMAIN remote \ DOMAIN local :
                    /\ ~remote[r].isDir
                    /\ r \notin downloading
                    /\ Match(cfg.filter, r, remote[r].type)}
  IN  {RmRemoteJob(dir, {Base(r) : r \in {r \in missing : Front(r) = dir}}) :
         dir \in {Front(r) : r \in DOMAIN remote}}

planCleanupRemote(cfg, remote, local, downloading) ==
  LET missing == {r \in DOMAIN remote \ DOMAIN local :
                    /\ ~remote[r].isDir
                    /\ r \notin downloading
                    /\ Match(cfg.filter, r, remote[r].type)}
  IN  {RmRemoteJob(dir, {Base(r) : r \in {r \in missing : Front(r) = dir}}) :
         dir \in {Front(r) : r \in missing}}

transferJobs(cfg, remote, local) ==
  (IF wantsPull(cfg) THEN planPull(cfg, remote, local) ELSE {})
  \cup
  (IF wantsPush(cfg) THEN planPush(cfg, remote, local) ELSE {})

\* The cleanup is computed around the transfers of the same pass.
plan(cfg, remote, local) ==
  LET transfers == transferJobs(cfg, remote, local)
  IN  transfers
      \cup
      (IF cleanupLocal(cfg)
       THEN planCleanupLocal(cfg, remote, local, Rels(transfers, "upload")) ELSE {})
      \cup
      (IF cleanupRemote(cfg)
       THEN planCleanupRemote(cfg, remote, local, Rels(transfers, "download")) ELSE {})
=============================================================================
