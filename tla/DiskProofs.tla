----------------------------- MODULE DiskProofs ------------------------------
(***************************************************************************)
(* Proofs about what the program leaves on disk under a name of its own    *)
(* and then renames: the .part file of a download (Download), for all      *)
(* sizes, servers and bounds on the environment, and the .tmp file of the  *)
(* web store (Store), for every set of threads and all bounds.             *)
(***************************************************************************)
EXTENDS Download, Store, SequenceTheorems, TLAPS

(* The assumptions, one by one. *)
LEMMA Constants ==
  /\ MaxChanges \in Nat /\ MaxFaults \in Nat /\ MaxCrashes \in Nat /\ Retries \in Nat
  /\ Tolerance \in Nat /\ RangeSupport \subseteq (SUBSET BOOLEAN) \ {{}}
  /\ \A v \in Versions : Size[v] \in Nat /\ v \in Nat
  /\ \A v : v \in Versions <=> v \in 1..(MaxChanges + 1)
  BY DownloadAssumption, ToleranceAssumption DEF Versions

LEMMA BlocksAre ==
  ASSUME NEW v \in Versions
  PROVE  /\ Blocks(v) \in Seq(Block) /\ Len(Blocks(v)) = Size[v]
         /\ \A i \in 1..Size[v] : Blocks(v)[i] = <<v, i>> /\ <<v, i>> \in Block
<1>1. Size[v] \in Nat
  BY Constants
<1>2. \A i \in 1..Size[v] : <<v, i>> \in Block
  BY DEF Block
<1>3. Blocks(v) \in [1..Size[v] -> Block]
  BY <1>2 DEF Blocks
<1>4. Blocks(v) \in Seq(Block)
  BY <1>1, <1>3, SeqDef
<1>5. Len(Blocks(v)) = Size[v]
  BY <1>1, <1>3, <1>4, LenProperties
<1> QED
  BY <1>2, <1>4, <1>5 DEF Blocks

\* All the first blocks are the version, some of them a prefix of it.
LEMMA BeginsAll ==
  ASSUME NEW blocks \in Seq(Block), NEW v \in Versions,
         Begins(blocks, v), Len(blocks) = Size[v]
  PROVE  blocks = Blocks(v)
<1>1. /\ Size[v] \in Nat /\ Len(Blocks(v)) = Size[v] /\ Blocks(v) \in Seq(Block)
      /\ \A i \in 1..Size[v] : Blocks(v)[i] = blocks[i]
  BY Constants, BlocksAre DEF Begins
<1>2. DOMAIN blocks = 1..Size[v] /\ DOMAIN Blocks(v) = 1..Size[v]
  BY <1>1, LenProperties
<1>3. blocks = [i \in 1..Size[v] |-> blocks[i]] /\ Blocks(v) = [i \in 1..Size[v] |-> Blocks(v)[i]]
  BY <1>1, <1>2, LenProperties
<1> QED
  BY <1>1, <1>3

LEMMA BeginsIsPrefix ==
  ASSUME NEW blocks \in Seq(Block), NEW v \in Versions
  PROVE  Begins(blocks, v) <=> IsPrefix(blocks, Blocks(v))
<1> DEFINE n == Len(blocks)
           S == SubSeq(blocks, 1, n)
           T == SubSeq(Blocks(v), 1, n)
<1>1. /\ Size[v] \in Nat /\ Len(Blocks(v)) = Size[v] /\ Blocks(v) \in Seq(Block)
      /\ \A i \in 1..Size[v] : Blocks(v)[i] = <<v, i>>
      /\ n \in Nat
  BY Constants, BlocksAre, LenProperties
<1>2. CASE n > Size[v]
  BY <1>1, <1>2 DEF Begins, IsPrefix
<1>3. CASE n <= Size[v]
  <2>1. /\ S = [i \in 1..n |-> blocks[i]] /\ T = [i \in 1..n |-> Blocks(v)[i]]
    BY <1>1, <1>3
  <2> HIDE DEF S, T
  <2>2. S = T <=> \A i \in 1..n : blocks[i] = Blocks(v)[i]
    BY <2>1
  <2>3. \A i \in 1..n : Blocks(v)[i] = <<v, i>>
    BY <1>1, <1>3
  <2>4. Begins(blocks, v) <=> \A i \in 1..n : blocks[i] = Blocks(v)[i]
    BY <1>3, <2>3 DEF Begins
  <2> QED
    BY <1>1, <1>3, <2>2, <2>4 DEF IsPrefix, S, T
<1> QED
  BY <1>1, <1>2, <1>3

LEMMA Times ==
  ASSUME NEW a \in Nat, NEW b \in Nat
  PROVE  /\ MTime(a) \in Nat
         /\ timesEq(MTime(a), MTime(b)) => a = b
<1> DEFINE T == Tolerance + 1
<1>1. T \in Nat /\ T >= 1 /\ Tolerance = T - 1
  BY Constants
<1>2. a * T \in Nat /\ b * T \in Nat
  BY <1>1
<1>3. ASSUME NEW x \in Nat, NEW y \in Nat, x < y PROVE y * T - x * T >= T
  <2>1. PICK d \in Nat : y = x + 1 + d
    <3>1. y - x - 1 \in Nat /\ y = x + 1 + (y - x - 1)
      BY <1>3
    <3> QED
      BY <3>1
  <2>2. y * T = x * T + T + d * T
    BY <1>1, <2>1
  <2>3. d * T \in Nat /\ x * T \in Nat
    BY <1>1
  <2> QED
    BY <1>1, <2>2, <2>3
<1>4. ASSUME timesEq(MTime(a), MTime(b)) PROVE a = b
  <2>1. a * T - b * T <= T - 1 /\ a * T - b * T >= -(T - 1)
    BY <1>1, <1>4 DEF timesEq, MTime
  <2>2. ~(a < b)
    BY <1>1, <1>2, <1>3, <2>1
  <2>3. ~(b < a)
    BY <1>1, <1>2, <1>3, <2>1
  <2> QED
    BY <2>2, <2>3
<1> QED
  BY <1>2, <1>4 DEF MTime

\* A block put at a position of a file, or right behind it.
LEMMA PutBlock ==
  ASSUME NEW p \in Seq(Block), NEW pos \in 1..(Len(p) + 1), NEW b \in Block
  PROVE  /\ Put(p, pos, b) \in Seq(Block)
         /\ Len(Put(p, pos, b)) = IF pos > Len(p) THEN pos ELSE Len(p)
         /\ \A i \in 1..Len(Put(p, pos, b)) :
              Put(p, pos, b)[i] = IF i = pos THEN b ELSE p[i]
<1> DEFINE n == IF pos > Len(p) THEN pos ELSE Len(p)
           q == [i \in 1..n |-> IF i = pos THEN b ELSE p[i]]
<1>1. Len(p) \in Nat /\ n \in Nat /\ (pos <= Len(p) => n = Len(p)) /\ n <= Len(p) + 1
      /\ (n = Len(p) + 1 => pos = n)
  BY LenProperties
<1>2. \A i \in 1..n : i # pos => p[i] \in Block
  <2>1. ASSUME NEW i \in 1..n, i # pos PROVE i \in 1..Len(p)
    BY <1>1, <2>1
  <2> QED
    BY <2>1, ElementOfSeq
<1>3. q \in [1..n -> Block]
  BY <1>2
<1>4. Put(p, pos, b) = q
  BY DEF Put
<1> HIDE DEF n
<1>5. q \in Seq(Block)
  BY <1>1, <1>3, SeqDef
<1>6. Len(q) = n
  BY <1>1, <1>3, <1>5, LenProperties
<1>7. \A i \in 1..n : q[i] = IF i = pos THEN b ELSE p[i]
  OBVIOUS
<1> HIDE DEF q
<1> QED
  BY <1>4, <1>5, <1>6, <1>7 DEF n

\* PartIsPrefix, block by block.
BeginsOne(p) == p # << >> => \E v \in Versions : Begins(p[1], v)

LEMMA PrefixBegins ==
  ASSUME NEW p, p # << >> => p[1] \in Seq(Block)
  PROVE  BeginsOne(p) <=> (p # << >> => \E v \in Versions : IsPrefix(p[1], Blocks(v)))
  BY BeginsIsPrefix DEF BeginsOne

-----------------------------------------------------------------------------
(* The invariant holds initially and is kept by every step.                *)
LEMMA InitInv == Init => Inv
<1> SUFFICES ASSUME Init PROVE Inv
  OBVIOUS
<1>1. TypeOK
  BY Constants DEF Init, TypeOK, Gone, NoStream
<1>2. PartIsPrefix /\ StreamInv /\ CleanInv
  BY DEF Init, PartIsPrefix, StreamInv, CleanInv, NoStream
<1> QED
  BY <1>1, <1>2 DEF Inv

\* Steps that leave the files and the body alone.
LEMMA StartInv ==
  ASSUME Inv, StartPass
  PROVE  Inv'
<1>1. /\ pc = "idle" /\ pc' = "stat" /\ listed' = current /\ current # Gone /\ tries' = 0
      /\ UNCHANGED <<ranges, current, part, final, offset, stream, faults, crashes, changes>>
  BY DEF StartPass, disk, bounds
<1>2. TypeOK'
  BY <1>1, Constants DEF Inv, TypeOK, Gone
<1>3. PartIsPrefix' /\ StreamInv'
  BY <1>1 DEF Inv, PartIsPrefix, StreamInv
<1>4. CleanInv'
  BY <1>1 DEF Inv, CleanInv, Uninterrupted
<1> QED
  BY <1>2, <1>3, <1>4 DEF Inv

LEMMA StatInv ==
  ASSUME Inv, StatPart
  PROVE  Inv'
<1>1. /\ pc = "stat" /\ pc' \in {"rename", "open"} /\ (pc' = "rename" => part # << >>)
      /\ offset' = IF part = << >> THEN 0 ELSE Len(part[1])
      /\ UNCHANGED <<ranges, current, part, final, listed, stream, tries, faults, crashes,
                     changes>>
  BY DEF StatPart, disk, bounds
<1>2. TypeOK'
  <2>1. offset' \in Nat
    BY <1>1, LenProperties DEF Inv, TypeOK
  <2> QED
    BY <1>1, <2>1 DEF Inv, TypeOK
<1>3. PartIsPrefix' /\ StreamInv'
  BY <1>1 DEF Inv, PartIsPrefix, StreamInv
<1>4. CleanInv'
  BY <1>1 DEF Inv, CleanInv, Uninterrupted
<1> QED
  BY <1>2, <1>3, <1>4 DEF Inv

\* The two answers that start a body.
LEMMA OpenInv ==
  ASSUME Inv, OpenPartial \/ OpenFull
  PROVE  Inv'
<1>1. /\ pc = "open" /\ pc' = "copy" /\ current # Gone /\ current \in Versions
      /\ current = changes + 1 /\ changes \in Nat /\ listed \in 1..(changes + 1)
      /\ UNCHANGED <<ranges, current, final, listed, offset, tries, faults, crashes, changes>>
      /\ Size[current] \in Nat
  <2>1. /\ pc = "open" /\ pc' = "copy" /\ current # Gone
        /\ UNCHANGED <<ranges, current, final, listed, offset, tries, faults, crashes, changes>>
    BY DEF OpenPartial, OpenFull, disk, bounds
  <2>2. current = changes + 1 /\ changes \in 0..MaxChanges /\ listed \in 1..(changes + 1)
    BY <2>1, Constants DEF Inv, TypeOK, Gone
  <2>3. current \in Versions
    BY <2>2, Constants
  <2>4. Size[current] \in Nat
    BY <2>3, Constants
  <2> QED
    BY <2>1, <2>2, <2>3, <2>4
<1>2. CASE OpenPartial
  <2>1. /\ part' = part /\ TRUE \in ranges /\ offset > 0 /\ offset < Size[current]
        /\ stream' = [version |-> current, next |-> offset + 1, resumed |-> TRUE, pos |-> 1]
    BY <1>2 DEF OpenPartial, disk
  <2>2. part # << >> /\ offset \in Nat /\ part[1] \in Seq(Block)
    BY <1>1, <2>1 DEF Inv, TypeOK
  <2>3. TypeOK'
    <3>1. stream' \in [version : Nat, next : Nat, resumed : BOOLEAN, pos : Nat]
      BY <1>1, <2>1, <2>2
    <3> QED
      BY <1>1, <2>1, <2>2, <3>1 DEF Inv, TypeOK
  <2>4. PartIsPrefix'
    BY <1>1, <2>1 DEF Inv, PartIsPrefix
  <2>5. StreamInv'
    <3>1. Len(part[1]) \in Nat
      BY <2>2, LenProperties
    <3>2. /\ stream'.version = current /\ stream'.next = offset + 1
          /\ stream'.resumed = TRUE /\ stream'.pos = 1
      BY <2>1
    <3>3. current \in 1..(changes + 1) /\ offset + 1 \in 1..(Size[current] + 1)
          /\ 1 \in 1..(Len(part[1]) + 1)
      BY <1>1, <2>1, <2>2, <3>1
    <3>4. part'[1] = part[1] /\ pc' # "check"
      BY <1>1, <2>1
    <3> QED
      BY <1>1, <2>1, <3>2, <3>3, <3>4 DEF StreamInv
  <2>6. CleanInv'
    BY <1>1, <2>1, <2>2 DEF Inv, CleanInv, Uninterrupted
  <2> QED
    BY <2>3, <2>4, <2>5, <2>6 DEF Inv
<1>3. CASE OpenFull
  <2>1. /\ part' = << << >> >> /\ part'[1] = << >> /\ part' # << >>
        /\ stream' = [version |-> current, next |-> 1, resumed |-> FALSE, pos |-> 1]
    BY <1>3 DEF OpenFull
  <2>2. << >> \in Seq(Block) /\ Len(<< >>) = 0
    BY EmptySeq
  <2>3. Begins(<< >>, current)
    BY <1>1, <2>2 DEF Begins
  <2>4. TypeOK'
    <3>1. stream' \in [version : Nat, next : Nat, resumed : BOOLEAN, pos : Nat]
      BY <1>1, <2>1
    <3> QED
      BY <1>1, <2>1, <2>2, <3>1 DEF Inv, TypeOK
  <2>5. PartIsPrefix'
    BY <1>1, <2>1, <2>2, <2>3, BeginsIsPrefix DEF PartIsPrefix
  <2>6. StreamInv'
    <3>1. /\ stream'.version = current /\ stream'.next = 1
          /\ stream'.resumed = FALSE /\ stream'.pos = 1
      BY <2>1
    <3> QED
      BY <1>1, <2>1, <2>2, <2>3, <3>1 DEF StreamInv
  <2>7. CleanInv'
    BY <1>1, <2>1 DEF Inv, CleanInv, Uninterrupted
  <2> QED
    BY <2>4, <2>5, <2>6, <2>7 DEF Inv
<1> QED
  BY <1>2, <1>3

LEMMA AnsweredInv ==
  ASSUME Inv, OpenComplete \/ OpenNotFound
  PROVE  Inv'
<1>1. /\ pc = "open" /\ pc' \in {"rename", "idle"}
      /\ pc' = "rename" => TRUE \in ranges /\ offset > 0
      /\ UNCHANGED <<ranges, current, part, final, listed, offset, stream, tries, faults,
                     crashes, changes>>
  BY DEF OpenComplete, OpenNotFound, disk, local, bounds
<1>2. pc' = "rename" => part # << >>
  BY <1>1 DEF Inv, TypeOK
<1>3. TypeOK'
  BY <1>1, <1>2 DEF Inv, TypeOK
<1>4. PartIsPrefix' /\ StreamInv'
  BY <1>1 DEF Inv, PartIsPrefix, StreamInv
<1>5. CleanInv'
  BY <1>1, <1>2 DEF Inv, CleanInv, Uninterrupted
<1> QED
  BY <1>3, <1>4, <1>5 DEF Inv

\* A block lands where the body's position in .part is: a whole body's behind the
\* blocks it has, a resumed one's over what is there.
LEMMA CopyInv ==
  ASSUME Inv, CopyBlock
  PROVE  Inv'
<1> DEFINE p == part[1]
           v == stream.version
           q == Put(p, stream.pos, <<v, stream.next>>)
<1>1. /\ pc = "copy" /\ pc' = pc /\ stream.next <= Size[v]
      /\ stream' = [stream EXCEPT !.next = @ + 1, !.pos = @ + 1]
      /\ UNCHANGED <<ranges, current, final, listed, offset, tries, faults, crashes, changes>>
  BY DEF CopyBlock, bounds
<1>2. /\ v \in 1..(changes + 1) /\ v \in Versions /\ Size[v] \in Nat
      /\ stream.next \in 1..Size[v] /\ stream.pos \in 1..(Len(p) + 1)
      /\ p \in Seq(Block) /\ Len(p) \in Nat /\ part # << >>
      /\ stream \in [version : Nat, next : Nat, resumed : BOOLEAN, pos : Nat]
  <2>1. /\ p \in Seq(Block) /\ part # << >> /\ changes \in 0..MaxChanges
        /\ stream \in [version : Nat, next : Nat, resumed : BOOLEAN, pos : Nat]
    BY <1>1 DEF Inv, TypeOK
  <2>2. /\ v \in 1..(changes + 1) /\ stream.next \in 1..(Size[v] + 1)
        /\ stream.pos \in 1..(Len(p) + 1)
    BY <1>1 DEF Inv, StreamInv
  <2>3. v \in Versions /\ Size[v] \in Nat
    BY <2>1, <2>2, Constants
  <2>4. stream.next \in 1..Size[v]
    BY <1>1, <2>2, <2>3
  <2> QED
    BY <2>1, <2>2, <2>3, <2>4, LenProperties
<1>3. <<v, stream.next>> \in Block /\ Blocks(v)[stream.next] = <<v, stream.next>>
  BY <1>2, BlocksAre
<1>4. /\ q \in Seq(Block) /\ Len(q) = IF stream.pos > Len(p) THEN stream.pos ELSE Len(p)
      /\ \A i \in 1..Len(q) : q[i] = IF i = stream.pos THEN <<v, stream.next>> ELSE p[i]
  <2>1. p \in Seq(Block) /\ stream.pos \in 1..(Len(p) + 1) /\ <<v, stream.next>> \in Block
    BY <1>2, <1>3
  <2> HIDE DEF p, v
  <2> QED
    BY <2>1, PutBlock DEF q
<1>5. part' = <<q>>
  BY <1>1, <1>3 DEF CopyBlock
<1> HIDE DEF q
<1>6. part'[1] = q /\ part' # << >>
  BY <1>5
<1>7. /\ stream'.version = v /\ stream'.next = stream.next + 1
      /\ stream'.pos = stream.pos + 1 /\ stream'.resumed = stream.resumed
      /\ stream' \in [version : Nat, next : Nat, resumed : BOOLEAN, pos : Nat]
  <2>1. /\ stream.next + 1 \in Nat /\ stream.pos + 1 \in Nat
        /\ stream \in [version : Nat, next : Nat, resumed : BOOLEAN, pos : Nat]
    BY <1>2
  <2> QED
    BY <1>1, <2>1
<1>8. TypeOK'
  BY <1>1, <1>4, <1>5, <1>6, <1>7 DEF Inv, TypeOK
<1>9. ~stream.resumed => Begins(q, v) /\ Len(q) = stream.pos
  <2> SUFFICES ASSUME ~stream.resumed PROVE Begins(q, v) /\ Len(q) = stream.pos
    OBVIOUS
  <2>1. stream.next = stream.pos /\ Len(p) = stream.pos - 1 /\ Begins(p, v)
    BY <1>1 DEF Inv, StreamInv
  <2>2. Len(q) = stream.pos /\ Len(q) <= Size[v]
    BY <1>2, <1>4, <2>1
  <2>3. \A i \in 1..Len(q) : q[i] = <<v, i>>
    <3> TAKE i \in 1..Len(q)
    <3>1. CASE i = stream.pos
      BY <1>4, <2>1, <3>1
    <3>2. CASE i # stream.pos
      <4>1. i \in 1..Len(p)
        BY <1>2, <2>1, <2>2, <3>2
      <4> QED
        BY <1>4, <2>1, <3>2, <4>1 DEF Begins
    <3> QED
      BY <3>1, <3>2
  <2> QED
    BY <1>4, <2>2, <2>3 DEF Begins
<1>10. PartIsPrefix'
  <2> SUFFICES ASSUME TRUE \notin ranges PROVE \E w \in Versions : IsPrefix(q, Blocks(w))
    BY <1>1, <1>6 DEF PartIsPrefix
  <2>1. ~stream.resumed
    BY DEF Inv, StreamInv
  <2> QED
    BY <1>2, <1>4, <1>9, <2>1, BeginsIsPrefix
<1>11. StreamInv'
  <2>1. /\ stream.next + 1 \in 1..(Size[v] + 1) /\ stream.pos + 1 \in 1..(Len(q) + 1)
    BY <1>2, <1>4
  <2>2. ~stream.resumed => /\ stream.next + 1 = stream.pos + 1
                           /\ Len(q) = (stream.pos + 1) - 1
    BY <1>1, <1>2, <1>9 DEF Inv, StreamInv
  <2>3. TRUE \notin ranges => ~stream.resumed
    BY DEF Inv, StreamInv
  <2> QED
    BY <1>1, <1>2, <1>6, <1>7, <1>9, <2>1, <2>2, <2>3 DEF StreamInv
<1>12. CleanInv'
  BY <1>1, <1>7 DEF Inv, CleanInv, Uninterrupted
<1> QED
  BY <1>8, <1>10, <1>11, <1>12 DEF Inv

LEMMA EndInv ==
  ASSUME Inv, CopyEnds
  PROVE  Inv'
<1>1. /\ pc = "copy" /\ pc' = "check" /\ stream.next > Size[stream.version]
      /\ UNCHANGED <<ranges, current, part, final, listed, offset, stream, tries, faults,
                     crashes, changes>>
  BY DEF CopyEnds, disk, local, bounds
<1>2. TypeOK'
  BY <1>1 DEF Inv, TypeOK
<1>3. PartIsPrefix'
  BY <1>1 DEF Inv, PartIsPrefix
<1>4. StreamInv'
  <2>1. stream.version \in 1..(changes + 1) /\ stream.next \in 1..(Size[stream.version] + 1)
    BY <1>1 DEF Inv, StreamInv
  <2>2. Size[stream.version] \in Nat
    BY <2>1, Constants DEF Inv, TypeOK
  <2>3. stream.next = Size[stream.version] + 1
    BY <1>1, <2>1, <2>2
  <2> QED
    BY <1>1, <2>3 DEF Inv, StreamInv
<1>5. CleanInv'
  BY <1>1 DEF Inv, CleanInv, Uninterrupted
<1> QED
  BY <1>2, <1>3, <1>4, <1>5 DEF Inv

\* An attempt that failed is not copying any more.
LEMMA FailsEnds ==
  ASSUME Inv, Fails
  PROVE  /\ pc' \in {"stat", "idle"} /\ tries' \in 0..Retries
         /\ stream' = NoStream /\ ~NoStream.resumed
         /\ stream' \in [version : Nat, next : Nat, resumed : BOOLEAN, pos : Nat]
         /\ listed' = listed /\ offset' = offset
<1>1. pc' \in {"stat", "idle"} /\ stream' = NoStream /\ listed' = listed /\ offset' = offset
  BY DEF Fails
<1>2. tries' \in 0..Retries
  <2>1. tries \in 0..Retries /\ Retries \in Nat
    BY Constants DEF Inv, TypeOK
  <2> QED
    BY <2>1 DEF Fails
<1>3. NoStream \in [version : Nat, next : Nat, resumed : BOOLEAN, pos : Nat]
      /\ NoStream.resumed = FALSE
  BY DEF NoStream, Gone
<1> QED
  BY <1>1, <1>2, <1>3

LEMMA BreakInv ==
  ASSUME Inv, TransferBreaks
  PROVE  Inv'
<1>1. /\ pc \in {"open", "copy"} /\ faults < MaxFaults /\ faults' = faults + 1
      /\ UNCHANGED <<ranges, current, part, final, crashes, changes>>
      /\ Fails
  BY DEF TransferBreaks, disk
<1>2. /\ pc' \in {"stat", "idle"} /\ tries' \in 0..Retries
      /\ stream' = NoStream /\ ~stream'.resumed
      /\ stream' \in [version : Nat, next : Nat, resumed : BOOLEAN, pos : Nat]
      /\ listed' = listed /\ offset' = offset
  BY <1>1, FailsEnds
<1>3. faults' \in 1..MaxFaults
  BY <1>1, Constants DEF Inv, TypeOK
<1>4. TypeOK'
  BY <1>1, <1>2, <1>3 DEF Inv, TypeOK
<1>5. PartIsPrefix' /\ StreamInv'
  BY <1>1, <1>2 DEF Inv, PartIsPrefix, StreamInv
<1>6. CleanInv'
  BY <1>3 DEF CleanInv, Uninterrupted
<1> QED
  BY <1>4, <1>5, <1>6 DEF Inv

\* The size check: without interruptions .part has all blocks of what was copied, so
\* what passes is that version.
LEMMA CheckInv ==
  ASSUME Inv, CheckSize
  PROVE  Inv'
<1>1. pc = "check" /\ UNCHANGED <<ranges, current, final, faults, crashes, changes>>
  BY DEF CheckSize, bounds
<1>2. CASE part' = << >> /\ Fails
  <2>1. /\ pc' \in {"stat", "idle"} /\ tries' \in 0..Retries
        /\ stream' = NoStream /\ ~stream'.resumed
        /\ stream' \in [version : Nat, next : Nat, resumed : BOOLEAN, pos : Nat]
        /\ listed' = listed /\ offset' = offset
    BY <1>2, FailsEnds
  <2>2. TypeOK'
    BY <1>1, <1>2, <2>1 DEF Inv, TypeOK
  <2>3. PartIsPrefix' /\ StreamInv'
    BY <1>2, <2>1 DEF Inv, PartIsPrefix, StreamInv
  <2>4. CleanInv'
    BY <1>1, <1>2, <2>1 DEF Inv, CleanInv, Uninterrupted
  <2> QED
    BY <2>2, <2>3, <2>4 DEF Inv
<1>3. CASE pc' = "rename" /\ UNCHANGED <<part, local>>
  <2>1. UNCHANGED <<part, listed, offset, stream, tries>>
    BY <1>3 DEF local
  <2>2. TypeOK'
    BY <1>1, <1>3, <2>1 DEF Inv, TypeOK
  <2>3. PartIsPrefix' /\ StreamInv'
    BY <1>1, <1>3, <2>1 DEF Inv, PartIsPrefix, StreamInv
  <2>4. ASSUME Uninterrupted PROVE \E v \in listed..(changes + 1) : part[1] = Blocks(v)
    <3> DEFINE v == stream.version
    <3>1. ~stream.resumed /\ listed <= v
      BY <1>1, <2>4 DEF Inv, CleanInv
    <3>2. /\ v \in 1..(changes + 1) /\ stream.next = Size[v] + 1
          /\ Len(part[1]) = stream.next - 1 /\ Begins(part[1], v)
      BY <1>1, <3>1 DEF Inv, StreamInv
    <3>3. /\ changes \in 0..MaxChanges /\ listed \in 0..(changes + 1)
          /\ part[1] \in Seq(Block)
      BY <1>1 DEF Inv, TypeOK
    <3>4. v \in Versions /\ Size[v] \in Nat /\ v \in listed..(changes + 1)
      BY <3>1, <3>2, <3>3, Constants
    <3>5. Len(part[1]) = Size[v]
      BY <3>2, <3>4
    <3>6. part[1] = Blocks(v)
      BY <3>2, <3>3, <3>4, <3>5, BeginsAll
    <3> QED
      BY <3>4, <3>6
  <2>5. CleanInv'
    BY <1>1, <1>3, <2>1, <2>4 DEF Inv, CleanInv, Uninterrupted
  <2> QED
    BY <2>2, <2>3, <2>5 DEF Inv
<1> QED
  BY <1>2, <1>3 DEF CheckSize

\* .part gets the final name, and then the listed time.
LEMMA RenameInv ==
  ASSUME Inv, RenamePart
  PROVE  Inv'
<1>1. /\ pc = "rename" /\ pc' = "chtimes" /\ part' = << >>
      /\ final' = << [blocks |-> part[1], mtime |-> Now] >>
      /\ UNCHANGED <<ranges, current, listed, offset, stream, tries, faults, crashes, changes>>
  BY DEF RenamePart, local, bounds
<1>2. /\ final' # << >> /\ final'[1].blocks = part[1]
      /\ final'[1] = [blocks |-> part[1], mtime |-> Now]
  BY <1>1
<1>3. part[1] \in Seq(Block) /\ Now \in Nat
  <2>1. part[1] \in Seq(Block)
    BY <1>1 DEF Inv, TypeOK
  <2>2. MaxChanges + 2 \in Nat
    BY Constants
  <2> QED
    BY <2>1, <2>2, Times DEF Now
<1>4. TypeOK'
  <2>1. final' = <<final'[1]>> /\ final'[1] \in [blocks : Seq(Block), mtime : Nat]
    BY <1>1, <1>3
  <2> QED
    BY <1>1, <1>2, <2>1 DEF Inv, TypeOK
<1>5. PartIsPrefix' /\ StreamInv'
  BY <1>1 DEF Inv, PartIsPrefix, StreamInv
<1>6. CleanInv'
  BY <1>1, <1>2 DEF Inv, CleanInv, Uninterrupted
<1> QED
  BY <1>4, <1>5, <1>6 DEF Inv

LEMMA SetTimeInv ==
  ASSUME Inv, SetListedTime
  PROVE  Inv'
<1>1. /\ pc = "chtimes" /\ pc' = "idle" /\ stream' = NoStream
      /\ final' = << [final[1] EXCEPT !.mtime = MTime(listed)] >>
      /\ UNCHANGED <<ranges, current, part, listed, offset, tries, faults, crashes, changes>>
  BY DEF SetListedTime, bounds
<1>2. /\ listed \in 1..(changes + 1) /\ changes \in 0..MaxChanges
      /\ final # << >> /\ final[1] \in [blocks : Seq(Block), mtime : Nat]
  <2>1. /\ listed \in 0..(changes + 1) /\ listed # Gone /\ changes \in 0..MaxChanges
        /\ final # << >> /\ final[1] \in [blocks : Seq(Block), mtime : Nat]
    BY <1>1 DEF Inv, TypeOK
  <2> QED
    BY <2>1, Constants DEF Gone
<1>3. MTime(listed) \in Nat
  BY <1>2, Times
<1>4. /\ final' # << >> /\ final' = <<final'[1]>>
      /\ final'[1] = [final[1] EXCEPT !.mtime = MTime(listed)]
  BY <1>1
<1>5. /\ final'[1] \in [blocks : Seq(Block), mtime : Nat]
      /\ final'[1].blocks = final[1].blocks /\ final'[1].mtime = MTime(listed)
  BY <1>2, <1>3, <1>4
<1>6. NoStream \in [version : Nat, next : Nat, resumed : BOOLEAN, pos : Nat]
      /\ NoStream.resumed = FALSE
  BY DEF NoStream, Gone
<1>7. TypeOK'
  BY <1>1, <1>4, <1>5, <1>6 DEF Inv, TypeOK
<1>8. PartIsPrefix' /\ StreamInv'
  BY <1>1, <1>6 DEF Inv, PartIsPrefix, StreamInv
<1>9. CleanInv'
  <2> SUFFICES ASSUME Uninterrupted
               PROVE  /\ part' = << >>
                      /\ \E v \in 1..(changes + 1) : \E l \in 1..v :
                           final'[1].blocks = Blocks(v) /\ final'[1].mtime = MTime(l)
    BY <1>1 DEF CleanInv, Uninterrupted
  <2>1. part = << >> /\ \E v \in listed..(changes + 1) : final[1].blocks = Blocks(v)
    BY <1>1 DEF Inv, CleanInv
  <2>2. PICK v \in listed..(changes + 1) : final[1].blocks = Blocks(v)
    BY <2>1
  <2>3. v \in 1..(changes + 1) /\ listed \in 1..v
    BY <1>2, <2>2
  <2> QED
    BY <1>1, <1>5, <2>1, <2>2, <2>3
<1> QED
  BY <1>7, <1>8, <1>9 DEF Inv

\* What is on disk survives the process; no action of it is left half done.
LEMMA CrashInv ==
  ASSUME Inv, Crash
  PROVE  Inv'
<1>1. /\ pc' = "idle" /\ stream' = NoStream /\ crashes' = crashes + 1 /\ crashes < MaxCrashes
      /\ UNCHANGED <<ranges, current, part, final, listed, offset, tries, faults, changes>>
  BY DEF Crash, disk
<1>2. crashes' \in 1..MaxCrashes
  <2>1. crashes \in 0..MaxCrashes /\ MaxCrashes \in Nat
    BY Constants DEF Inv, TypeOK
  <2> QED
    BY <1>1, <2>1
<1>3. NoStream \in [version : Nat, next : Nat, resumed : BOOLEAN, pos : Nat]
      /\ NoStream.resumed = FALSE
  BY DEF NoStream, Gone
<1>4. TypeOK'
  BY <1>1, <1>2, <1>3 DEF Inv, TypeOK
<1>5. PartIsPrefix' /\ StreamInv'
  BY <1>1, <1>3 DEF Inv, PartIsPrefix, StreamInv
<1>6. CleanInv'
  BY <1>2 DEF CleanInv, Uninterrupted
<1> QED
  BY <1>4, <1>5, <1>6 DEF Inv

\* A newer version makes none of the older ones impossible.
LEMMA RemoteInv ==
  ASSUME Inv, RemoteChanges
  PROVE  Inv'
<1>1. /\ changes < MaxChanges /\ changes' = changes + 1 /\ current' \in {changes' + 1, Gone}
      /\ UNCHANGED <<ranges, part, final, pc, listed, offset, stream, tries, faults, crashes>>
  BY DEF RemoteChanges, disk, local
<1>2. /\ changes \in 0..MaxChanges /\ changes' \in 0..MaxChanges
      /\ listed \in 0..(changes + 1) /\ listed \in 0..(changes' + 1)
  <2>1. changes \in 0..MaxChanges /\ listed \in 0..(changes + 1)
    BY DEF Inv, TypeOK
  <2> QED
    BY <1>1, <2>1, Constants
<1>3. /\ \A v \in 1..(changes + 1) : v \in 1..(changes' + 1)
      /\ \A v \in listed..(changes + 1) : v \in listed..(changes' + 1)
  BY <1>1, <1>2
<1>4. TypeOK'
  BY <1>1, <1>2 DEF Inv, TypeOK
<1>5. PartIsPrefix'
  BY <1>1 DEF Inv, PartIsPrefix
<1>6. StreamInv'
  BY <1>1, <1>3 DEF Inv, StreamInv
<1>7. CleanInv'
  <2> SUFFICES ASSUME Uninterrupted PROVE CleanInv'
    BY <1>1 DEF CleanInv, Uninterrupted
  <2>1. /\ pc = "rename" => \E v \in listed..(changes + 1) : part[1] = Blocks(v)
        /\ pc = "chtimes" => \E v \in listed..(changes + 1) : final[1].blocks = Blocks(v)
        /\ pc # "chtimes" /\ final # << >> =>
             \E v \in 1..(changes + 1) : \E l \in 1..v :
               final[1].blocks = Blocks(v) /\ final[1].mtime = MTime(l)
        /\ pc \in {"idle", "stat", "open", "chtimes"} => part = << >>
        /\ pc \in {"copy", "check"} => ~stream.resumed /\ listed <= stream.version
    BY DEF Inv, CleanInv
  <2>2. /\ pc = "rename" => \E v \in listed..(changes' + 1) : part[1] = Blocks(v)
        /\ pc = "chtimes" => \E v \in listed..(changes' + 1) : final[1].blocks = Blocks(v)
        /\ pc # "chtimes" /\ final # << >> =>
             \E v \in 1..(changes' + 1) : \E l \in 1..v :
               final[1].blocks = Blocks(v) /\ final[1].mtime = MTime(l)
    BY <1>3, <2>1
  <2> QED
    BY <1>1, <2>1, <2>2 DEF CleanInv
<1> QED
  BY <1>4, <1>5, <1>6, <1>7 DEF Inv

LEMMA StutterInv ==
  ASSUME Inv, UNCHANGED vars
  PROVE  Inv'
<1>1. UNCHANGED <<ranges, current, part, final, pc, listed, offset, stream, tries, faults,
                  crashes, changes>>
  BY DEF vars, disk, local, bounds
<1>2. TypeOK' /\ PartIsPrefix' /\ StreamInv'
  BY <1>1 DEF Inv, TypeOK, PartIsPrefix, StreamInv
<1>3. CleanInv'
  BY <1>1 DEF Inv, CleanInv, Uninterrupted
<1> QED
  BY <1>2, <1>3 DEF Inv

LEMMA NextInv == Inv /\ [Next]_vars => Inv'
  BY StartInv, StatInv, OpenInv, AnsweredInv, CopyInv, EndInv, BreakInv, CheckInv, RenameInv,
     SetTimeInv, CrashInv, RemoteInv, StutterInv
  DEF Next, Step

(* syncer.go:307-371: every variable has its type, .part and final name    *)
(* hold what the step needs, a .part of a server that ignores Range is the *)
(* beginning of one version, and without interruptions the local file is a *)
(* version at least as new as its time says.                               *)
THEOREM DownloadInvariance == Spec => []Inv
  BY InitInv, NextInv, PTL DEF Spec

(* planner.go:104-109, syncer.go:349-371: whatever the sizes and however   *)
(* often the file is replaced, also between listing and transfer, what the *)
(* planner calls unchanged is the remote file, unless a transfer was       *)
(* interrupted.                                                            *)
THEOREM UnchangedIsExact == Spec => []UnchangedMeansExact
<1>1. ASSUME Inv PROVE UnchangedMeansExact
  <2> SUFFICES ASSUME LooksUnchanged, Uninterrupted PROVE Exact
    BY DEF UnchangedMeansExact
  <2>1. /\ pc = "idle" /\ current # Gone /\ final # << >>
        /\ Unchanged(RemoteEntryOf(current), LocalEntryOf(final[1]))
    BY DEF LooksUnchanged
  <2>2. changes \in 0..MaxChanges /\ current = changes + 1
    BY <1>1, <2>1 DEF Inv, TypeOK
  <2>3. PICK v \in 1..(changes + 1) : \E l \in 1..v :
          final[1].blocks = Blocks(v) /\ final[1].mtime = MTime(l)
    BY <1>1, <2>1 DEF Inv, CleanInv
  <2>4. PICK l \in 1..v : final[1].blocks = Blocks(v) /\ final[1].mtime = MTime(l)
    BY <2>3
  <2>5. timesEq(final[1].mtime, MTime(current))
    BY <2>1 DEF Unchanged, RemoteEntryOf, LocalEntryOf, FileEntry
  <2>6. current \in Nat /\ l \in Nat /\ v \in Nat /\ l <= v /\ v <= current
    BY <2>2, <2>3, <2>4
  <2>7. current = l
    BY <2>4, <2>5, <2>6, Times
  <2>8. v = current
    BY <2>6, <2>7
  <2> QED
    BY <2>1, <2>4, <2>8 DEF Exact
<1> QED
  BY <1>1, DownloadInvariance, PTL

-----------------------------------------------------------------------------
(* The web store.                                                          *)
USE DEF Content, NoFile, Empty, Torn, Whole

(* The invariant holds initially: nobody saves, nothing is answered. *)
LEMMA StoreInvInit == StoreInit => StoreInv
<1> SUFFICES ASSUME StoreInit PROVE StoreInv
  OBVIOUS
<1>1. StoreTypeOK
  BY DEF StoreInit, StoreTypeOK, Contents
<1>2. AloneInv /\ DurableInv /\ UpInv
  BY DEF StoreInit, AloneInv, DurableInv, UpInv, Saving, Loadable
<1> QED
  BY <1>1, <1>2 DEF StoreInv

(* What WriteTmp may leave behind is a content. *)
LEMMA OverContents ==
  ASSUME NEW old \in Contents, NEW new \in Contents
  PROVE  Over(old, new) \subseteq Contents
BY DEF Over, Contents

(* Types are preserved; an open .tmp exists until it is renamed. *)
LEMMA StoreTypesStep == StoreInv /\ [StoreNext]_storeVars => StoreTypeOK'
<1> SUFFICES ASSUME StoreInv, [StoreNext]_storeVars PROVE StoreTypeOK'
  OBVIOUS
<1> USE DEF StoreInv, StoreTypeOK, Goto
<1>1. CASE MarkRunning
  BY <1>1 DEF MarkRunning, files, threads, acks, limits
<1>2. CASE Stop
  <2>1. /\ at' = [th \in Threads |-> "idle"] /\ data' = [th \in Threads |-> 0]
        /\ fd' = [th \in Threads |-> "none"] /\ made' = [th \in Threads |-> 0]
    BY <1>2 DEF Stop
  <2>2. /\ stops' \in Nat /\ version' = 0 /\ up' = FALSE
        /\ UNCHANGED <<file, tmp, answered, alone, writeFaults>>
    BY <1>2 DEF Stop, files
  <2>3. {alone, up}' \subseteq BOOLEAN
    BY <2>2
  <2>4. /\ at' \in [Threads -> {"idle", "save", "open", "write", "rename", "saved"}]
        /\ data' \in [Threads -> Nat] /\ made' \in [Threads -> Nat]
        /\ fd' \in [Threads -> {"tmp", "path", "none"}]
    BY <2>1
  <2>5. \A th \in Threads : fd'[th] = "none"
    BY <2>1
  <2> QED
    BY <2>2, <2>3, <2>4, <2>5
<1>3. CASE LoadStore
  BY <1>3 DEF LoadStore, files, threads, acks, limits, Contents
<1>4. CASE UNCHANGED storeVars
  BY <1>4 DEF storeVars, files, threads, acks, limits
<1>5. ASSUME NEW th \in Threads, ThreadStep(th) PROVE StoreTypeOK'
  <2>1. CASE Change(th)
    BY <2>1 DEF Change, files, limits
  <2>2. CASE Marshal(th)
    BY <2>2 DEF Marshal, files, acks, limits
  <2>3. CASE OpenTmp(th)
    BY <2>3 DEF OpenTmp, acks, limits, Contents
  <2>4. CASE WriteTmp(th)
    <3>1. Whole(data[th]) \in Contents
      BY DEF Contents
    <3>2. file' \in Contents /\ tmp' \in Contents
      BY <2>4, <3>1, OverContents DEF WriteTmp, files
    <3>3. tmp # NoFile => tmp' # NoFile
      BY <2>4 DEF WriteTmp, files, Over
    <3> QED
      BY <2>4, <3>2, <3>3 DEF WriteTmp, acks, limits
  <2>5. CASE SaveFails(th)
    BY <2>5 DEF SaveFails, files, acks, Contents
  <2>6. CASE RenameTmp(th)
    BY <2>6 DEF RenameTmp, files, acks, limits, Contents
  <2>7. CASE Answer(th)
    BY <2>7 DEF Answer, files, limits
  <2> QED
    BY <1>5, <2>1, <2>2, <2>3, <2>4, <2>5, <2>6, <2>7 DEF ThreadStep
<1> QED
  BY <1>1, <1>2, <1>3, <1>4, <1>5 DEF StoreNext

(* The rest is preserved.  A save that has had .tmp to itself since it     *)
(* took its copy renames exactly that copy over an older one.              *)
LEMMA StoreInvStep ==
  StoreInv /\ StoreTypeOK' /\ [StoreNext]_storeVars => (AloneInv /\ DurableInv /\ UpInv)'
<1> SUFFICES ASSUME StoreInv, StoreTypeOK', [StoreNext]_storeVars
             PROVE  (AloneInv /\ DurableInv /\ UpInv)'
  OBVIOUS
<1> USE DEF StoreInv, StoreTypeOK, Contents, Goto, AloneInv, DurableInv,
            UpInv, Saving, Loadable
<1>1. CASE MarkRunning
  BY <1>1 DEF MarkRunning, files, threads, acks, limits
<1>2. CASE Stop
  <2>1. /\ at' = [th \in Threads |-> "idle"] /\ made' = [th \in Threads |-> 0]
        /\ version' = 0 /\ up' = FALSE /\ UNCHANGED <<file, tmp, answered, alone, writeFaults>>
    BY <1>2 DEF Stop, files
  <2>2. \A th \in Threads : at'[th] = "idle" /\ made'[th] = 0
    BY <2>1
  <2> QED
    BY <2>1, <2>2
<1>3. CASE LoadStore
  BY <1>3 DEF LoadStore, files, threads, acks, limits
<1>4. CASE UNCHANGED storeVars
  BY <1>4 DEF storeVars, files, threads, acks, limits
<1>5. ASSUME NEW th \in Threads, ThreadStep(th)
      PROVE  (AloneInv /\ DurableInv /\ UpInv)'
  <2>1. CASE Change(th)
    BY <2>1 DEF Change, files, limits
  <2>2. CASE Marshal(th)
    <3>1. alone' => alone /\ \A o \in Threads \ {th} : ~Saving(o)
      BY <2>2, Zenon DEF Marshal
    <3>2. /\ at[th] = "save" /\ at' = [at EXCEPT ![th] = "open"]
          /\ data' = [data EXCEPT ![th] = version]
          /\ UNCHANGED <<version, file, tmp, fd, made, answered, up, writeFaults, stops>>
      BY <2>2 DEF Marshal, files, acks, limits
    <3> QED
      BY <3>1, <3>2
  <2>3. CASE OpenTmp(th)
    BY <2>3 DEF OpenTmp, acks, limits
  <2>4. CASE WriteTmp(th)
    BY <2>4 DEF WriteTmp, files, acks, limits, Over
  <2>5. CASE SaveFails(th)
    BY <2>5 DEF SaveFails, files, acks
  <2>6. CASE RenameTmp(th)
    BY <2>6 DEF RenameTmp, files, acks, limits
  <2>7. CASE Answer(th)
    BY <2>7 DEF Answer, files, limits
  <2> QED
    BY <1>5, <2>1, <2>2, <2>3, <2>4, <2>5, <2>6, <2>7 DEF ThreadStep
<1> QED
  BY <1>1, <1>2, <1>3, <1>4, <1>5 DEF StoreNext

(* store.go:109-125: the invariant of Save. *)
THEOREM StoreInvariance == StoreSpec => []StoreInv
<1>1. StoreInv /\ [StoreNext]_storeVars => StoreInv'
  BY StoreTypesStep, StoreInvStep DEF StoreInv
<1> QED
  BY <1>1, StoreInvInit, PTL DEF StoreSpec

(* The store's variables have their types in every reachable state.        *)
THEOREM StoreTypeCorrect == StoreSpec => []StoreTypeOK
  BY StoreInvariance, PTL DEF StoreInv

(* Without overlapping saves what is on disk can be loaded at any moment,  *)
(* and without failing saves it holds every change that was answered.      *)
THEOREM AnswersAreDurable == StoreSpec => []AnsweredIsDurable
<1>1. StoreInv => AnsweredIsDurable
  BY DEF StoreInv, StoreTypeOK, Contents, AloneInv, DurableInv,
         AnsweredIsDurable
<1> QED
  BY <1>1, StoreInvariance, PTL

(* What a start would load, while saves are alone: the file's version.     *)
LEMMA SavedIsVersion ==
  ASSUME StoreInv, alone
  PROVE  /\ Loadable /\ file.version \in Nat
         /\ (IF Loadable THEN file.version ELSE -1) = file.version
BY DEF StoreInv, StoreTypeOK, AloneInv, Contents

(* A step of a save that is alone before and after it is a step of what is *)
(* promised, or none: the rename publishes, everything before it does not. *)
LEMMA DurableThreadStep ==
  ASSUME StoreInv, StoreInv', alone, alone' = TRUE, NEW th \in Threads, ThreadStep(th)
  PROVE  AsDurable!Kept \/ UNCHANGED AsDurable!dvars
<1> DEFINE Saved == IF Loadable THEN file.version ELSE -1
<1> USE DEF AsDurable!Kept, AsDurable!dvars
<1>1. /\ Loadable /\ Saved = file.version /\ file.version \in Nat
      /\ Loadable' /\ Saved' = file'.version /\ file'.version \in Nat
  BY SavedIsVersion DEF StoreInv, StoreTypeOK, AloneInv, Contents
<1>2. up
  BY DEF ThreadStep, Change, Marshal, OpenTmp, WriteTmp, SaveFails, RenameTmp, Answer,
         Saving, StoreInv, UpInv
<1>3. /\ version \in Nat /\ answered \in Nat /\ writeFaults \in Nat
      /\ made \in [Threads -> Nat] /\ data \in [Threads -> Nat]
      /\ at \in [Threads -> {"idle", "save", "open", "write", "rename", "saved"}]
  BY DEF StoreInv, StoreTypeOK
<1>4. CASE Change(th)
  BY <1>1, <1>2, <1>4 DEF Change, files, limits, AsDurable!Change, Loadable
<1>5. CASE Marshal(th)
  BY <1>1, <1>5 DEF Marshal, files, acks, limits, Loadable
<1>6. CASE OpenTmp(th)
  BY <1>1, <1>6 DEF OpenTmp, acks, limits, Loadable
<1>7. CASE WriteTmp(th)
  <2>1. fd[th] = "tmp"
    BY <1>7 DEF WriteTmp, StoreInv, AloneInv
  <2> QED
    BY <1>1, <1>7, <2>1 DEF WriteTmp, acks, limits, Loadable
<1>8. CASE SaveFails(th)
  <2>1. fd[th] # "path"
    BY <1>8 DEF SaveFails, Saving, StoreInv, StoreTypeOK, AloneInv
  <2>2. /\ UNCHANGED <<version, file, answered, alone, up>> /\ writeFaults' = writeFaults + 1
    BY <1>8, <2>1 DEF SaveFails, files, acks
  <2> QED
    BY <1>1, <1>2, <1>3, <2>2 DEF AsDurable!WriteFails, Loadable
<1>9. CASE RenameTmp(th)
  <2>1. tmp = Whole(data[th]) /\ file.version <= data[th] /\ data[th] <= version
    BY <1>9 DEF RenameTmp, StoreInv, AloneInv, Saving
  <2>2. file' = Whole(data[th])
    BY <1>9, <2>1 DEF RenameTmp
  <2>3. file'.version \in file.version..version
    BY <1>1, <1>3, <2>1, <2>2
  <2>4. UNCHANGED <<version, answered, writeFaults, up>>
    BY <1>9 DEF RenameTmp, acks, limits
  <2> QED
    BY <1>1, <1>2, <2>3, <2>4 DEF AsDurable!Save
<1>10. CASE Answer(th)
  <2>1. at[th] = "saved" /\ made[th] \in Nat /\ made[th] <= version
    BY <1>3, <1>10 DEF Answer, StoreInv, UpInv
  <2>2. writeFaults = 0 => made[th] <= file.version
    BY <2>1 DEF StoreInv, DurableInv
  <2>3. /\ answered' = IF made[th] > answered THEN made[th] ELSE answered
        /\ UNCHANGED <<version, file, alone, up, writeFaults>>
    BY <1>10 DEF Answer, files, limits
  <2>4. CASE made[th] > answered
    <3>1. answered' \in (answered + 1)..(IF writeFaults > 0 THEN version ELSE Saved)
      BY <1>1, <1>3, <2>1, <2>2, <2>3, <2>4
    <3> QED
      BY <1>1, <1>2, <2>3, <3>1 DEF AsDurable!Answer
  <2> QED
    BY <1>1, <2>3, <2>4
<1> QED
  BY <1>4, <1>5, <1>6, <1>7, <1>8, <1>9, <1>10 DEF ThreadStep

(* So is every other step; where saves overlap, nothing is promised.       *)
LEMMA DurableStep ==
  StoreInv /\ StoreInv' /\ [StoreNext]_storeVars => [AsDurable!Next]_(AsDurable!dvars)
<1> SUFFICES ASSUME StoreInv, StoreInv', [StoreNext]_storeVars
             PROVE  [AsDurable!Next]_(AsDurable!dvars)
  OBVIOUS
<1>1. alone \in BOOLEAN /\ alone' \in BOOLEAN /\ (alone' => alone)
  <2>1. alone \in BOOLEAN /\ alone' \in BOOLEAN
    BY DEF StoreInv, StoreTypeOK
  <2>2. ASSUME NEW th \in Threads, ThreadStep(th) PROVE alone' => alone
    <3>1. Marshal(th) => (alone' => alone)
      BY Zenon DEF Marshal
    <3>2. ~Marshal(th) => alone' = alone
      BY <2>2 DEF ThreadStep, Change, OpenTmp, WriteTmp, SaveFails, RenameTmp, Answer
    <3> QED
      BY <3>1, <3>2
  <2>3. MarkRunning \/ Stop \/ LoadStore \/ UNCHANGED storeVars => alone' = alone
    BY DEF MarkRunning, Stop, LoadStore, storeVars
  <2> QED
    BY <2>1, <2>2, <2>3 DEF StoreNext
<1>2. CASE ~alone'
  BY <1>1, <1>2 DEF AsDurable!Next, AsDurable!Overlap
<1>3. CASE alone'
  <2>1. alone /\ alone' = TRUE
    BY <1>1, <1>3
  <2>2. Loadable /\ Loadable'
    BY <2>1 DEF StoreInv, AloneInv
  <2> USE DEF AsDurable!Kept, AsDurable!dvars
  <2>3. CASE \E th \in Threads : ThreadStep(th)
    <3>1. PICK th \in Threads : ThreadStep(th)
      BY <2>3
    <3> QED
      BY <2>1, <3>1, DurableThreadStep DEF AsDurable!Next
  <2>4. CASE MarkRunning
    BY <2>1, <2>2, <2>4 DEF MarkRunning, files, threads, acks, limits, Loadable,
       AsDurable!Next, AsDurable!Change
  <2>5. CASE Stop
    BY <2>1, <2>2, <2>5 DEF Stop, files, Loadable, AsDurable!Next, AsDurable!Stop
  <2>6. CASE LoadStore
    BY <2>1, <2>2, <2>6 DEF LoadStore, files, threads, acks, limits, Loadable,
       AsDurable!Next, AsDurable!Start
  <2>7. CASE UNCHANGED storeVars
    BY <2>7 DEF storeVars, files, threads, acks, limits, Loadable
  <2> QED
    BY <2>3, <2>4, <2>5, <2>6, <2>7 DEF StoreNext
<1> QED
  BY <1>2, <1>3

(* store.go:87-125: while saves do not overlap, Save and LoadStore are what *)
(* their callers rely on, whatever the threads do and wherever the process  *)
(* ends.                                                                    *)
THEOREM StoreIsDurable == StoreSpec => ImplementsDurable
<1>1. StoreInit => AsDurable!Init
  BY DEF StoreInit, AsDurable!Init, Loadable
<1>2. StoreInv /\ StoreInv' /\ [StoreNext]_storeVars => [AsDurable!Next]_(AsDurable!dvars)
  BY DurableStep
<1> QED
  BY <1>1, <1>2, StoreInvariance, PTL DEF StoreSpec, ImplementsDurable, AsDurable!Spec
=============================================================================
