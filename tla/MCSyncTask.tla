----------------------------- MODULE MCSyncTask ------------------------------
(***************************************************************************)
(* Small instances of SyncTask.  Contents are the times 0, 2, 4, 6, ...;   *)
(* sizes alternate so that neighbours in time differ in size, and contents *)
(* 4 apart have the same size.                                             *)
(***************************************************************************)
EXTENDS SyncTask

\* A run whose users edit between passes only meets what OrderInv is about.
ASSUME QuietInstance == EditsDuringPass \/ Quiet

A  == <<"a.mp4">>
D  == <<"d">>
DX == <<"d", "x.txt">>

MCGuess  == [n \in {"a.mp4", "d", "x.txt"} |-> "none"]
MCSizeOf == [c \in 0..12 |-> 1 + ((c \div 2) % 2)]

Config(direction, cleanup, conflict) ==
  [direction |-> direction, cleanup |-> cleanup, conflict |-> conflict,
   filter |-> NoFilter, dryRun |-> FALSE]

\* Every direction, cleanup mode and conflict policy, and a filter.
AllConfigs == {Config(d, cl, co) : d \in Directions, cl \in Cleanups, co \in Conflicts}
              \cup {[Config("both", "both", "newest") EXCEPT
                       !.filter = NewFilter({}, {ExtItem("glob", {"a.mp4"})}, {})]}
TwoWay     == {Config("both", "both", "newest")}
Mirrors    == {Config("pull", "local", "remote"), Config("push", "remote", "local")}
MixedWays  == TwoWay \cup Mirrors \cup {[Config("both", "both", "newest") EXCEPT !.dryRun = TRUE],
                                        Config("pull", "both", "remote"),
                                        Config("push", "both", "local")}

JustA  == {A}
AandDX == {A, DX}

\* The file A on one side or both, of either age.
OneFile == {<<>>, A :> File(0, 0), A :> File(2, 2)}
\* Or an empty directory.
FileOrDir == {<<>>, A :> File(2, 2), D :> Dir}

\* Files where the other side has directories, and directories in them.
Kinds == {f @@ d : f \in {<<>>, A :> File(0, 0), A :> Dir},
                   d \in {<<>>, D :> File(0, 0), (D :> Dir) @@ (DX :> File(0, 0)),
                          (D :> Dir) @@ (DX :> Dir)}}
=============================================================================
