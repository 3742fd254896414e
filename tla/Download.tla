------------------------------ MODULE Download -------------------------------
(***************************************************************************)
(* One file's downloads over many passes, block by block: downloadOne,     *)
(* finalizeDownload and withRetry (internal/syncer/syncer.go) with         *)
(* OpenDownload (internal/client/client.go).  Bodies break off, the        *)
(* process dies anywhere, the server may or may not honour Range, and the  *)
(* remote file may be replaced or deleted between and during passes.       *)
(*                                                                         *)
(* A file is the sequence of its blocks; block i of version v is <<v, i>>. *)
(***************************************************************************)
EXTENDS Planner

CONSTANTS
  Size,           \* function: version -> number of blocks
  RangeSupport,   \* what servers do with a Range request: some always honour it,
                  \* some never, some now and then (subsets of BOOLEAN)
  Conflict,       \* cfg.conflict
  Retries,        \* cfg.Retries
  MaxFaults, MaxCrashes, MaxChanges

\* Versions of the remote file, in the order they appear.
Versions == 1..(MaxChanges + 1)

ASSUME DownloadAssumption ==
  /\ Size \in [Versions -> Nat]
  /\ RangeSupport \subseteq (SUBSET BOOLEAN) \ {{}}
  /\ Conflict \in Conflicts
  /\ {Retries, MaxFaults, MaxCrashes, MaxChanges} \subseteq Nat

VARIABLES
  ranges,     \* this server's: the answers a Range request may get
  current,    \* the version the server has, Gone if the file is deleted
  part,       \* the .part file: << >> if there is none, else <<its blocks>>
  final,      \* the local file: << >> or <<[blocks, mtime]>>
  pc,         \* idle, stat, open, copy, check, rename, chtimes
  listed,     \* the version the pass's listing showed
  offset,     \* size of .part when the attempt began
  stream,     \* the body being copied: [version, next, resumed, pos]
  tries, faults, crashes, changes
disk   == <<part, final>>
local  == <<listed, offset, stream, tries>>
bounds == <<faults, crashes, changes>>
vars   == <<ranges, current, disk, pc, local, bounds>>

Gone     == 0
NoStream == [version |-> Gone, next |-> 1, resumed |-> FALSE, pos |-> 1]
Blocks(v) == [i \in 1..Size[v] |-> <<v, i>>]

\* Versions are further apart in time than the tolerance; a file that was
\* renamed but not yet given its listed time is younger than all of them.
MTime(v) == v * (Tolerance + 1)
Now      == MTime(MaxChanges + 2)

RemoteEntryOf(v) == FileEntry(Size[v], MTime(v), "unknown")
LocalEntryOf(f)  == FileEntry(Len(f.blocks), f.mtime, "unknown")
Cfg              == [conflict |-> Conflict]

Init ==
  /\ ranges \in RangeSupport
  /\ current = 1
  /\ part = << >> /\ final = << >>
  /\ pc = "idle" /\ listed = Gone /\ offset = 0 /\ stream = NoStream /\ tries = 0
  /\ faults = 0 /\ crashes = 0 /\ changes = 0

-----------------------------------------------------------------------------
\* A pass lists the file; the planner wants it if there is no local file or
\* the two entries call for a download.
StartPass ==
  /\ pc = "idle" /\ current # Gone
  /\ final # << >> => wantsDownload(Cfg, RemoteEntryOf(current), LocalEntryOf(final[1]))
  /\ listed' = current /\ tries' = 0
  /\ pc' = "stat"
  /\ UNCHANGED <<ranges, current, disk, offset, stream, bounds>>

\* os.Stat(part): a .part of the listed size is taken to be complete.
StatPart ==
  /\ pc = "stat"
  /\ offset' = IF part = << >> THEN 0 ELSE Len(part[1])
  /\ pc' = IF part # << >> /\ offset' = Size[listed] THEN "rename" ELSE "open"
  /\ UNCHANGED <<ranges, current, disk, listed, stream, tries, bounds>>

\* The attempt returned an error: withRetry tries again or gives up.
Fails ==
  /\ IF tries < Retries THEN pc' = "stat" /\ tries' = tries + 1
                        ELSE pc' = "idle" /\ UNCHANGED tries
  /\ stream' = NoStream
  /\ UNCHANGED <<listed, offset>>

\* 206: the body is the tail, written from the start of the .part file,
\* which was opened neither for appending nor at the offset.
OpenPartial ==
  /\ pc = "open" /\ current # Gone /\ TRUE \in ranges
  /\ offset > 0 /\ offset < Size[current]
  /\ stream' = [version |-> current, next |-> offset + 1, resumed |-> TRUE, pos |-> 1]
  /\ pc' = "copy"
  /\ UNCHANGED <<ranges, current, disk, listed, offset, tries, bounds>>

\* Mutant of OpenFull: .part is not emptied.
OpenFullWithoutTruncate ==
  /\ pc = "open" /\ current # Gone
  /\ offset = 0 \/ FALSE \in ranges
  /\ stream' = [version |-> current, next |-> 1, resumed |-> FALSE, pos |-> 1]
  /\ part' = IF part = << >> THEN << << >> >> ELSE part
  /\ pc' = "copy"
  /\ UNCHANGED <<ranges, current, final, listed, offset, tries, bounds>>

\* 200: the whole body; .part is created or emptied.
OpenFull ==
  /\ pc = "open" /\ current # Gone
  /\ offset = 0 \/ FALSE \in ranges
  /\ stream' = [version |-> current, next |-> 1, resumed |-> FALSE, pos |-> 1]
  /\ part' = << << >> >>
  /\ pc' = "copy"
  /\ UNCHANGED <<ranges, current, final, listed, offset, tries, bounds>>

\* 416: the range starts at or past the end, taken to mean "complete".
OpenComplete ==
  /\ pc = "open" /\ current # Gone /\ TRUE \in ranges
  /\ offset > 0 /\ offset >= Size[current]
  /\ pc' = "rename"
  /\ UNCHANGED <<ranges, current, disk, local, bounds>>

\* 404: vanished remotely, a success.
OpenNotFound ==
  /\ pc = "open" /\ current = Gone
  /\ pc' = "idle"
  /\ UNCHANGED <<ranges, current, disk, local, bounds>>

\* A file with a block written at a position, or right behind its end.
Put(file, pos, block) ==
  [i \in 1..(IF pos > Len(file) THEN pos ELSE Len(file)) |->
     IF i = pos THEN block ELSE file[i]]

\* io.CopyBuffer: the next block goes where the file's write position is.
CopyBlock ==
  /\ pc = "copy" /\ stream.next <= Size[stream.version]
  /\ part' = << Put(part[1], stream.pos, Blocks(stream.version)[stream.next]) >>
  /\ stream' = [stream EXCEPT !.next = @ + 1, !.pos = @ + 1]
  /\ UNCHANGED <<ranges, current, final, pc, listed, offset, tries, bounds>>

CopyEnds ==
  /\ pc = "copy" /\ stream.next > Size[stream.version]
  /\ pc' = "check"
  /\ UNCHANGED <<ranges, current, disk, local, bounds>>

\* The request or its body breaks off.
TransferBreaks ==
  /\ pc \in {"open", "copy"} /\ faults < MaxFaults
  /\ faults' = faults + 1
  /\ Fails
  /\ UNCHANGED <<ranges, current, disk, crashes, changes>>

\* What was written, with the offset added for a resumed body, against the
\* listed size (0 is not checked); on a mismatch .part is discarded.
Written == (stream.pos - 1) + (IF stream.resumed THEN offset ELSE 0)

CheckSize ==
  /\ pc = "check"
  /\ \/ /\ Size[listed] > 0 /\ Written # Size[listed]
        /\ part' = << >>
        /\ Fails
     \/ /\ Size[listed] = 0 \/ Written = Size[listed]
        /\ pc' = "rename"
        /\ UNCHANGED <<part, local>>
  /\ UNCHANGED <<ranges, current, final, bounds>>

RenamePart ==
  /\ pc = "rename"
  /\ final' = << [blocks |-> part[1], mtime |-> Now] >>
  /\ part' = << >>
  /\ pc' = "chtimes"
  /\ UNCHANGED <<ranges, current, local, bounds>>

\* Mutants of SetListedTime: the time is asked for again after the download;
\* the file keeps the time of the rename.
SetCurrentTime ==
  /\ pc = "chtimes"
  /\ final' = << [final[1] EXCEPT !.mtime = MTime(current)] >>
  /\ pc' = "idle" /\ stream' = NoStream
  /\ UNCHANGED <<ranges, current, part, listed, offset, tries, bounds>>

KeepRenameTime ==
  /\ pc = "chtimes"
  /\ pc' = "idle" /\ stream' = NoStream
  /\ UNCHANGED <<ranges, current, disk, listed, offset, tries, bounds>>

SetListedTime ==
  /\ pc = "chtimes"
  /\ final' = << [final[1] EXCEPT !.mtime = MTime(listed)] >>
  /\ pc' = "idle" /\ stream' = NoStream
  /\ UNCHANGED <<ranges, current, part, listed, offset, tries, bounds>>

-----------------------------------------------------------------------------
\* The process dies; what is on disk stays.
Crash ==
  /\ pc # "idle" /\ crashes < MaxCrashes
  /\ crashes' = crashes + 1
  /\ pc' = "idle" /\ stream' = NoStream
  /\ UNCHANGED <<ranges, current, disk, listed, offset, tries, faults, changes>>

\* Somebody replaces the remote file by the next version, or deletes it.
RemoteChanges ==
  /\ changes < MaxChanges
  /\ changes' = changes + 1
  /\ current' \in {changes' + 1, Gone}
  /\ current' # current
  /\ UNCHANGED <<ranges, disk, pc, local, faults, crashes>>

Step == \/ StartPass \/ StatPart
        \/ OpenPartial \/ OpenFull \/ OpenComplete \/ OpenNotFound
        \/ CopyBlock \/ CopyEnds \/ CheckSize \/ RenamePart \/ SetListedTime

Next == Step \/ TransferBreaks \/ Crash \/ RemoteChanges
Spec == Init /\ [][Next]_vars

\* Passes are repeated and a pass goes on; what breaks is bounded.
FairSpec == Spec /\ WF_vars(Step)

-----------------------------------------------------------------------------
Block == UNION {{<<v, i>> : i \in 1..Size[v]} : v \in Versions}

TypeOK ==
  /\ ranges \in (SUBSET BOOLEAN) \ {{}}
  /\ changes \in 0..MaxChanges /\ current \in {changes + 1, Gone}
  /\ part # << >> => part = <<part[1]>> /\ part[1] \in Seq(Block)
  /\ final # << >> => /\ final = <<final[1]>>
                      /\ final[1] \in [blocks : Seq(Block), mtime : Nat]
  /\ pc \in {"idle", "stat", "open", "copy", "check", "rename", "chtimes"}
  /\ pc \in {"copy", "check", "rename"} => part # << >>
  /\ pc = "chtimes" => final # << >>
  /\ listed \in 0..(changes + 1) /\ (pc # "idle" => listed # Gone)
  /\ stream \in [version : Nat, next : Nat, resumed : BOOLEAN, pos : Nat]
  /\ offset \in Nat /\ tries \in 0..Retries
  /\ pc = "open" => offset = IF part = << >> THEN 0 ELSE Len(part[1])
  /\ faults \in 0..MaxFaults /\ crashes \in 0..MaxCrashes

\* The local file is the remote file.
Exact == current # Gone /\ final # << >> /\ final[1].blocks = Blocks(current)

\* The planner would transfer the file in neither direction.
LooksUnchanged ==
  /\ pc = "idle" /\ current # Gone /\ final # << >>
  /\ Unchanged(RemoteEntryOf(current), LocalEntryOf(final[1]))

Uninterrupted == faults = 0 /\ crashes = 0

(* As long as no transfer was interrupted, what the planner calls unchanged *)
(* is the remote file, block for block, however often it is replaced under *)
(* way, and with another version of the same size.                         *)
UnchangedMeansExact ==
  LooksUnchanged /\ Uninterrupted => Exact

(* With a server that ignores Range every interruption leaves a .part that *)
(* begins the way some one version of the file does: blocks of two versions *)
(* or two places are never mixed.                                          *)
PartIsPrefix ==
  TRUE \notin ranges /\ part # << >> =>
    \E v \in Versions : IsPrefix(part[1], Blocks(v))

\* The blocks are the first ones of the version.
Begins(blocks, v) ==
  Len(blocks) <= Size[v] /\ \A i \in 1..Len(blocks) : blocks[i] = <<v, i>>

\* A body being copied: a whole one has put its first blocks into .part, a resumed
\* one writes over what is there.
StreamInv ==
  /\ pc \in {"copy", "check"} =>
       /\ stream.version \in 1..(changes + 1)
       /\ stream.next \in 1..(Size[stream.version] + 1)
       /\ stream.pos \in 1..(Len(part[1]) + 1)
       /\ ~stream.resumed => /\ stream.next = stream.pos /\ Len(part[1]) = stream.pos - 1
                             /\ Begins(part[1], stream.version)
       /\ pc = "check" => stream.next = Size[stream.version] + 1
  /\ TRUE \notin ranges => ~stream.resumed

\* Without interruptions nothing is resumed: what gets the final name is one
\* version, the listed one or a later one.
CleanInv ==
  Uninterrupted =>
    /\ pc \in {"idle", "stat", "open", "chtimes"} => part = << >>
    /\ pc \in {"copy", "check"} => ~stream.resumed /\ listed <= stream.version
    /\ pc = "rename" => \E v \in listed..(changes + 1) : part[1] = Blocks(v)
    /\ pc = "chtimes" => \E v \in listed..(changes + 1) : final[1].blocks = Blocks(v)
    /\ pc # "chtimes" /\ final # << >> =>
         \E v \in 1..(changes + 1) : \E l \in 1..v :
           final[1].blocks = Blocks(v) /\ final[1].mtime = MTime(l)

(* The same, and every variable has its type; between its steps a download *)
(* has the files it goes on with, and what is copied is where it should be. *)
Inv == TypeOK /\ PartIsPrefix /\ StreamInv /\ CleanInv

(* However the transfers of a file that stays the same are interrupted, and *)
(* whatever a resumed one does to it, the local file is in the end the     *)
(* remote one.                                                             *)
EventuallyExact == [](changes = 0) => <>[]Exact

(* Passes stop downloading the file: no leftover .part, wrong answer to a  *)
(* range or replaced remote file makes them fetch it again for ever.       *)
Settles == <>[](pc = "idle")

(* README.md:20 "an interrupted download continues from .part and is       *)
(* renamed when complete": the file that gets the final name is the listed *)
(* version.                                                                *)
RenamedWhenComplete ==
  pc = "chtimes" => final[1].blocks = Blocks(listed)
=============================================================================
