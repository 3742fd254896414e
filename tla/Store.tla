-------------------------------- MODULE Store --------------------------------
(***************************************************************************)
(* How the web store gets to disk (internal/web/store.go): threads change  *)
(* the state under a mutex and call Save, which takes its copy under the   *)
(* lock and writes it outside: to one .tmp file all saves share, renamed   *)
(* to the store's path.  A thread that has .tmp open keeps writing to the  *)
(* same file when another one renames it.                                  *)
(*                                                                         *)
(* A state is the number of changes that made it; Runner has the changes.  *)
(* The names every specification has begin with Store here, for DiskProofs *)
(* extends Download too.                                                   *)
(***************************************************************************)
EXTENDS Integers

CONSTANTS
  Threads,                                \* requests and task goroutines
  MaxVersion, MaxWriteFaults, MaxStops    \* bounds: changes, failing saves, stops

ASSUME StoreAssumption == {MaxVersion, MaxWriteFaults, MaxStops} \subseteq Nat

VARIABLES
  version,    \* s.state
  file,       \* the file at s.path
  tmp,        \* the file at s.path + ".tmp"
  at,         \* thread -> where it is in a change and its Save
  data,       \* thread -> the copy it saves
  fd,         \* thread -> the name its open file has now: tmp, path or none
  made,       \* thread -> the version its change made; history
  answered,   \* the newest version whose change was reported saved; history
  alone,      \* no two saves were ever under way together; history
  up,         \* the process is alive
  writeFaults, stops

files     == <<file, tmp>>
threads   == <<at, data, fd>>
acks      == <<made, answered>>
limits    == <<writeFaults, stops>>
storeVars == <<version, files, threads, acks, alone, up, limits>>

\* What a file holds: nothing yet, a saved state, or bytes of more than one.
Content(kind, v) == [kind |-> kind, version |-> v]
NoFile           == Content("missing", 0)
Empty            == Content("empty", 0)
Torn             == Content("torn", 0)
Whole(v)         == Content("whole", v)

StoreInit ==
  /\ version = 0 /\ file \in {NoFile, Whole(0)} /\ tmp = NoFile
  /\ at = [th \in Threads |-> "idle"] /\ data = [th \in Threads |-> 0]
  /\ fd = [th \in Threads |-> "none"] /\ made = [th \in Threads |-> 0]
  /\ answered = 0 /\ alone = TRUE /\ up = TRUE /\ writeFaults = 0 /\ stops = 0

Goto(th, point) == at' = [at EXCEPT ![th] = point]

-----------------------------------------------------------------------------
\* A change under the mutex by a caller that goes on to save.
Change(th) ==
  /\ up /\ at[th] = "idle" /\ version < MaxVersion
  /\ version' = version + 1
  /\ made' = [made EXCEPT ![th] = version + 1]
  /\ Goto(th, "save")
  /\ UNCHANGED <<files, data, fd, answered, alone, up, limits>>

\* A change nobody saves for now: the status "running".
MarkRunning ==
  /\ up /\ version < MaxVersion
  /\ version' = version + 1
  /\ UNCHANGED <<files, threads, acks, alone, up, limits>>

Saving(th) == at[th] \in {"open", "write", "rename"}

\* MarshalIndent under the read lock.
Marshal(th) ==
  /\ at[th] = "save"
  /\ data' = [data EXCEPT ![th] = version]
  /\ alone' = (alone /\ \A o \in Threads \ {th} : ~Saving(o))
  /\ Goto(th, "open")
  /\ UNCHANGED <<version, files, fd, acks, up, limits>>

\* Mutant of OpenTmp: the file itself is opened.
OpenInPlace(th) ==
  /\ at[th] = "open"
  /\ file' = Empty
  /\ fd' = [fd EXCEPT ![th] = "path"]
  /\ Goto(th, "write")
  /\ UNCHANGED <<version, tmp, data, acks, alone, up, limits>>

\* os.WriteFile creates or empties .tmp ...
OpenTmp(th) ==
  /\ at[th] = "open"
  /\ tmp' = Empty
  /\ fd' = [fd EXCEPT ![th] = "tmp"]
  /\ Goto(th, "write")
  /\ UNCHANGED <<version, file, data, acks, alone, up, limits>>

\* Bytes written from the start of a file: what was there shows through where
\* it was longer, and which of two states is longer depends on their texts.
Over(old, new) == IF old \in {Empty, new} THEN {new} ELSE {new, Torn}

\* ... and writes to the file it opened, under whatever name that is now.
WriteTmp(th) ==
  /\ at[th] = "write"
  /\ \/ fd[th] = "tmp" /\ tmp' \in Over(tmp, Whole(data[th])) /\ UNCHANGED file
     \/ fd[th] = "path" /\ file' \in Over(file, Whole(data[th])) /\ UNCHANGED tmp
     \/ fd[th] = "none" /\ UNCHANGED files
  /\ fd' = [fd EXCEPT ![th] = "none"]
  /\ Goto(th, "rename")
  /\ UNCHANGED <<version, data, acks, alone, up, limits>>

\* Mutant of SaveFails: the error of os.WriteFile is overlooked.
SaveFailsUnnoticed(th) ==
  /\ at[th] = "write" /\ writeFaults < MaxWriteFaults
  /\ writeFaults' = writeFaults + 1
  /\ fd[th] = "tmp" /\ tmp' = Torn /\ UNCHANGED file
  /\ fd' = [fd EXCEPT ![th] = "none"]
  /\ Goto(th, "rename")
  /\ UNCHANGED <<version, data, acks, alone, up, stops>>

\* The directory cannot be made or .tmp not opened, the write fails on the way
\* (the disk is full), or the rename does: Save gives up, leaving .tmp as it is;
\* its callers only log it.
SaveFails(th) ==
  /\ Saving(th) /\ writeFaults < MaxWriteFaults
  /\ writeFaults' = writeFaults + 1
  /\ \/ fd[th] = "tmp" /\ tmp' = Torn /\ UNCHANGED file
     \/ fd[th] = "path" /\ file' = Torn /\ UNCHANGED tmp
     \/ fd[th] = "none" /\ UNCHANGED files
  /\ fd' = [fd EXCEPT ![th] = "none"]
  /\ Goto(th, "saved")
  /\ UNCHANGED <<version, data, acks, alone, up, stops>>

\* os.Rename; .tmp may have been renamed by another thread already.
RenameTmp(th) ==
  /\ at[th] = "rename"
  /\ \/ /\ tmp # NoFile
        /\ file' = tmp /\ tmp' = NoFile
        /\ fd' = [o \in Threads |-> IF fd[o] = "tmp" THEN "path" ELSE "none"]
     \/ tmp = NoFile /\ UNCHANGED <<files, fd>>
  /\ Goto(th, "saved")
  /\ UNCHANGED <<version, data, acks, alone, up, limits>>

\* Mutant of Answer: it does not wait for Save.
AnswerEarly(th) ==
  /\ at[th] \in {"save", "saved"}
  /\ answered' = IF made[th] > answered THEN made[th] ELSE answered
  /\ made' = [made EXCEPT ![th] = 0] /\ data' = [data EXCEPT ![th] = 0]
  /\ Goto(th, "idle")
  /\ UNCHANGED <<version, files, fd, alone, up, limits>>

\* The request is answered {"ok": true}, the run is over; whether the save
\* failed is only logged.
Answer(th) ==
  /\ at[th] = "saved"
  /\ answered' = IF made[th] > answered THEN made[th] ELSE answered
  /\ made' = [made EXCEPT ![th] = 0] /\ data' = [data EXCEPT ![th] = 0]
  /\ Goto(th, "idle")
  /\ UNCHANGED <<version, files, fd, alone, up, limits>>

-----------------------------------------------------------------------------
\* The process ends, anywhere: by a crash, or because Run does not wait for
\* the task goroutines.
Stop ==
  /\ up /\ stops < MaxStops
  /\ stops' = stops + 1
  /\ up' = FALSE
  /\ version' = 0
  /\ at' = [th \in Threads |-> "idle"] /\ data' = [th \in Threads |-> 0]
  /\ fd' = [th \in Threads |-> "none"] /\ made' = [th \in Threads |-> 0]
  /\ UNCHANGED <<files, answered, alone, writeFaults>>

\* LoadStore accepts the file, or the lack of one (the default state, 0).  It takes
\* a file that cannot be read for a missing one; here every file can be.
Loadable == file.kind \in {"missing", "whole"}

LoadStore ==
  /\ ~up /\ Loadable
  /\ version' = file.version
  /\ up' = TRUE
  /\ UNCHANGED <<files, threads, acks, alone, limits>>

ThreadStep(th) == \/ Change(th) \/ Marshal(th) \/ OpenTmp(th) \/ WriteTmp(th)
                  \/ SaveFails(th) \/ RenameTmp(th) \/ Answer(th)

StoreNext == (\E th \in Threads : ThreadStep(th)) \/ MarkRunning \/ Stop \/ LoadStore

StoreSpec == StoreInit /\ [][StoreNext]_storeVars

-----------------------------------------------------------------------------
Contents == [kind : {"missing", "empty", "torn", "whole"}, version : Nat]

StoreTypeOK ==
  /\ {version, answered, writeFaults, stops} \subseteq Nat
  /\ {file, tmp} \subseteq Contents
  /\ at \in [Threads -> {"idle", "save", "open", "write", "rename", "saved"}]
  /\ data \in [Threads -> Nat] /\ made \in [Threads -> Nat]
  /\ fd \in [Threads -> {"tmp", "path", "none"}]
  /\ \A th \in Threads : /\ fd[th] # "none" => at[th] = "write"
                         /\ fd[th] = "tmp" => tmp # NoFile
  /\ {alone, up} \subseteq BOOLEAN

(* store.go:109-125 with api.go:230.  As long as no two saves were under   *)
(* way together the file can be loaded whenever the process ends; if no    *)
(* save failed either, the file holds every change that was answered.      *)
AnsweredIsDurable ==
  alone => /\ Loadable
           /\ writeFaults = 0 => file.version >= answered

(* store.go:109-125.  A save that is alone: its file is .tmp, which holds   *)
(* what it has written so far, and its copy is not older than what is      *)
(* saved, nor than the change it is to save.                               *)
AloneInv ==
  alone => /\ \A th, o \in Threads : Saving(th) /\ Saving(o) => th = o
           /\ Loadable
           /\ \A th \in Threads :
                /\ at[th] = "write" => fd[th] = "tmp" /\ tmp = Empty
                /\ at[th] = "rename" => tmp = Whole(data[th])
                /\ Saving(th) => file.version <= data[th] /\ data[th] <= version

\* Every change is on its way to the file, or there.
DurableInv ==
  alone /\ writeFaults = 0 =>
    /\ answered <= file.version
    /\ \A th \in Threads : /\ at[th] = "save" => made[th] <= version
                           /\ Saving(th) => made[th] <= data[th]
                           /\ at[th] = "saved" => made[th] <= file.version

\* A process that is down has no threads; one that is up knows what is saved
\* and what its threads changed.
UpInv ==
  /\ ~up => \A th \in Threads : at[th] = "idle" /\ made[th] = 0
  /\ \A th \in Threads : made[th] <= version
  /\ up /\ alone => file.version <= version

StoreInv == StoreTypeOK /\ AloneInv /\ DurableInv /\ UpInv

AsDurable == INSTANCE DurableStore WITH
  saved <- IF Loadable THEN file.version ELSE -1,
  failing <- writeFaults > 0

(* store.go:87-125.  While no two saves are under way together, Save and    *)
(* LoadStore keep what DurableStore promises, with any number of threads   *)
(* that change, save and answer, and the process ending between any two    *)
(* steps: the file can always be loaded, goes from a state of the store to *)
(* a later one only, has every change that was answered before its answer  *)
(* (until a save fails), and is what the next start continues from.        *)
ImplementsDurable == AsDurable!Spec
=============================================================================
