----------------------------- MODULE PlannerSpec -----------------------------
(***************************************************************************)
(* One call of planner.plan on arbitrary settings and scan results: the    *)
(* setting in which the planner's own promises are stated.                 *)
(***************************************************************************)
EXTENDS Planner

CONSTANTS
  Configs,        \* the settings: [direction, cleanup, conflict, filter]
  RemoteTrees,    \* what remoteTree may return
  LocalTrees      \* what localTree may return

VARIABLES cfg, remote, local, pc, jobs
vars == <<cfg, remote, local, pc, jobs>>

\* The remote scan records a directory before it walks it: every proper prefix
\* of a path in the tree is in the tree too, and is a directory.  The local one
\* leaves out a directory named *.part and yet walks it.
Closed(tree) ==
  \A rel \in DOMAIN tree :
    \A n \in 1..(Len(rel) - 1) :
      SubSeq(rel, 1, n) \in DOMAIN tree /\ tree[SubSeq(rel, 1, n)].isDir

ASSUME ConfigsAssumption ==
  \A c \in Configs : /\ c.direction \in Directions
                     /\ c.cleanup \in Cleanups
                     /\ c.conflict \in Conflicts

ASSUME TreesAssumption ==
  /\ \A t \in RemoteTrees \cup LocalTrees :
       \A rel \in DOMAIN t : /\ rel \in Seq(STRING) /\ rel # << >>
                             /\ t[rel].isDir \in BOOLEAN
                             /\ t[rel].size \in Nat
  /\ \A t \in RemoteTrees : /\ Closed(t)
                            /\ \A rel \in DOMAIN t : t[rel].mtime \in Nat \cup {NoTime}
  /\ \A t \in LocalTrees : \A rel \in DOMAIN t : t[rel].mtime \in Nat

Init ==
  /\ cfg \in Configs
  /\ remote \in RemoteTrees
  /\ local \in LocalTrees
  /\ pc = "scanned"
  /\ jobs = {}

Plan ==
  /\ pc = "scanned"
  /\ jobs' = plan(cfg, remote, local)
  /\ pc' = "planned"
  /\ UNCHANGED <<cfg, remote, local>>

Done == pc = "planned" /\ UNCHANGED vars

Next == Plan \/ Done
Spec == Init /\ [][Next]_vars

-----------------------------------------------------------------------------
Planned == pc = "planned"

JobKinds == {"mkdir_local", "mkdir_remote", "download", "upload",
             "rm_local_file", "rm_local_dir", "rm_remote"}

\* Every job is of a known kind and about something a scan saw.
TypeOK ==
  /\ cfg \in Configs /\ remote \in RemoteTrees /\ local \in LocalTrees
  /\ pc \in {"scanned", "planned"}
  /\ \A j \in jobs :
       /\ j.kind \in JobKinds
       /\ j.kind \in {"download", "mkdir_local"} => j.rel \in DOMAIN remote
       /\ j.kind \in {"upload", "mkdir_remote", "rm_local_file", "rm_local_dir"} =>
            j.rel \in DOMAIN local
       /\ j.kind = "rm_remote" =>
            j.names # {} /\ \A n \in j.names : Append(j.parent, n) \in DOMAIN remote

Downloads   == Rels(jobs, "download")
Uploads     == Rels(jobs, "upload")
RmLocal     == Rels(jobs, "rm_local_file") \cup Rels(jobs, "rm_local_dir")
RmRemote    == UNION {{Append(j.parent, n) : n \in j.names} :
                        j \in {j \in jobs : j.kind = "rm_remote"}}

-----------------------------------------------------------------------------
(* planner.go:76 "Cleanup must not fight the transfer phases".  No path is *)
(* both transferred and removed, and no local directory is removed that a  *)
(* download of the same plan, at any depth, will be written into.          *)
CleanupSparesTransfers ==
  /\ (RmLocal \cup RmRemote) \cap (Downloads \cup Uploads) = {}
  /\ \A d \in RmLocal, r \in Downloads : ~IsPrefix(d, r)

(* A file is removed only on the side that only receives: locally when     *)
(* pulling, remotely when pushing.  In a two-way pass, whatever the        *)
(* cleanup setting, no file is removed anywhere; cleanup of the source     *)
(* side of a one-way pass never removes a file either.                     *)
RemovesOnlyOnReceivingSide ==
  /\ Rels(jobs, "rm_local_file") # {} => cfg.direction = "pull"
  /\ RmRemote # {} => cfg.direction = "push"

\* The other side has the entry too: a directory, or a file of the same size
\* and, within the tolerance, the same modification time.  A file whose time the
\* server does not tell is never known to be the same.
Mirrored(from, to, rel) ==
  /\ rel \in DOMAIN to /\ to[rel].isDir = from[rel].isDir
  /\ ~from[rel].isDir =>
       /\ NoTime \notin {to[rel].mtime, from[rel].mtime}
       /\ to[rel].size = from[rel].size
       /\ to[rel].mtime <= from[rel].mtime + Tolerance
       /\ from[rel].mtime <= to[rel].mtime + Tolerance

(* A two-way pass plans nothing ("up to date") exactly when every entry of *)
(* either side that the filter lets through is mirrored on the other:      *)
(* nothing that differs is overlooked, and nothing that agrees is          *)
(* transferred again; a remote file without a time keeps a task from ever  *)
(* being up to date, whatever the push thinks of it (planner.go:136, 166). *)
UpToDateIffMirrored ==
  Planned /\ cfg.direction = "both" /\ cfg.filter.types = {} =>
    (jobs = {} <=>
       /\ \A r \in DOMAIN remote :
            remote[r].isDir \/ MatchLocal(cfg.filter, r) => Mirrored(remote, local, r)
       /\ \A r \in DOMAIN local :
            local[r].isDir \/ MatchLocal(cfg.filter, r) => Mirrored(local, remote, r))

\* The file exists on both sides and one copy is newer beyond the tolerance.
InBoth(r)      == IsFile(remote, r) /\ IsFile(local, r) /\ remote[r].mtime # NoTime
RemoteNewer(r) == InBoth(r) /\ After(remote[r].mtime, local[r].mtime)
LocalNewer(r)  == InBoth(r) /\ After(local[r].mtime, remote[r].mtime)

\* The policy names the winner of a file whose copies differ.
RemoteWins(r) == /\ InBoth(r) /\ ~Mirrored(remote, local, r)
                 /\ cfg.conflict = "remote" \/ (cfg.conflict = "newest" /\ RemoteNewer(r))
LocalWins(r)  == /\ InBoth(r) /\ ~Mirrored(remote, local, r)
                 /\ cfg.conflict = "local" \/ (cfg.conflict = "newest" /\ LocalNewer(r))

(* What the two halves of a plan, which decide about a file independently, *)
(* keep of src/README.md:114: the older copy is never planned over the     *)
(* newer one unless the policy says that side wins, and the copy that wins *)
(* is planned over the other one in the direction(s) the pass transfers.   *)
WinnerReplacesLoser ==
  Planned =>
    /\ \A r \in Downloads : LocalNewer(r) => cfg.conflict = "remote"
    /\ \A r \in Uploads : RemoteNewer(r) => cfg.conflict = "local"
    /\ \A r \in DOMAIN remote \cap DOMAIN local :
         /\ RemoteWins(r) /\ wantsPull(cfg)
              /\ Match(cfg.filter, r, remote[r].type) => r \in Downloads
         /\ LocalWins(r) /\ wantsPush(cfg) /\ MatchLocal(cfg.filter, r) => r \in Uploads

=============================================================================
