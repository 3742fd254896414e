------------------------------ MODULE MCPlanner ------------------------------
(***************************************************************************)
(* Small instances of PlannerSpec: two names at the top level, one of      *)
(* which may be a directory holding a third, every direction, cleanup mode *)
(* and conflict policy.                                                    *)
(***************************************************************************)
EXTENDS PlannerSpec

A  == <<"a.mp4">>
D  == <<"d">>
DX == <<"d", "x.txt">>

MCGuess == [n \in {"a.mp4", "d", "x.txt"} |->
              CASE n = "a.mp4" -> "video" [] n = "x.txt" -> "text" [] OTHER -> "none"]

\* No filter; "*.mp4" only; videos only.
Filters == {NoFilter,
            NewFilter({ExtItem("bare", {"a.mp4"}), ExtItem("blank", {})}, {}, {}),
            NewFilter({}, {ExtItem("glob", {"x.txt"})}, {}),
            NewFilter({}, {}, {"video"})}

MCConfigs == [direction : Directions, cleanup : Cleanups,
              conflict : Conflicts, filter : Filters]

\* A: every file entry; D: absent, a file, an empty directory, or a
\* directory holding DX.
Options(files, x, dirTime) ==
  LET optA == {<<>>} \cup {A :> e : e \in files}
      dir  == D :> DirEntry(dirTime)
      optD == {<<>>, D :> x, dir, dir @@ (DX :> x)}
  IN  {a @@ d : a \in optA, d \in optD}

RemoteFiles == {FileEntry(s, t, "unknown") : s \in {1, 2}, t \in {NoTime, 0, 1, 2}}
               \cup {FileEntry(1, 1, "text")}
MCRemoteTrees == Options(RemoteFiles, FileEntry(1, 1, "unknown"), 1)
LocalFiles  == {FileEntry(s, t, "unknown") : s \in {1, 2}, t \in {0, 1, 2}}
\* Only the local scan can have DX without D.
MCLocalTrees == Options(LocalFiles, FileEntry(1, 1, "unknown"), 0)
                \cup {A :> DirEntry(0), DX :> FileEntry(1, 1, "unknown")}
=============================================================================
