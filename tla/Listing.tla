------------------------------- MODULE Listing -------------------------------
(***************************************************************************)
(* How a pass sees a tree that users change while it is read: remoteTree   *)
(* walks it with the paged answers of ListAll, localTree with WalkDir      *)
(* (internal/syncer/tree.go, internal/client/client.go).                   *)
(***************************************************************************)
EXTENDS Integers, FiniteSets, Sequences

CONSTANTS
  Entries,     \* everything that may ever exist, numbered in name order
  Dirs,        \* the entries that are directories
  Parts,       \* the entries whose name ends in .part
  ParentOf,    \* entry -> the directory it lives in, or Root
  Per,         \* per_page
  MaxPage,     \* the runaway limit (100000)
  MaxChanges   \* bound: changes by users during the scan

Root == 0

ASSUME EntriesAssumption ==
  /\ IsFiniteSet(Entries) /\ Entries \subseteq Nat \ {Root}
  /\ Dirs \subseteq Entries /\ Parts \subseteq Entries
  /\ ParentOf \in [Entries -> Dirs \union {Root}]
  /\ \A e \in Entries : ParentOf[e] < e
ASSUME PagesAssumption == Per \in Nat \ {0} /\ MaxPage \in Nat \ {0} /\ MaxChanges \in Nat

VARIABLES
  side,       \* which of the two walks this is: remote or local
  sendsMore,  \* the server's answers carry has_more
  tree,       \* what exists now
  phase,      \* list (the next page of dir), visit, done or failed
  dir,        \* the directory ListAll is reading
  page,       \* the page it asks for next
  items,      \* what it has got so far
  stack,      \* the listings still to be looped over, innermost first
  seen,       \* the keys of the tree the scan returns
  always,     \* history: what has existed all the time
  ever,       \* history: what has existed at some time
  shifted,    \* history: what slid from an unread page to one already read
  cut,        \* history: what the server never offered, for lack of has_more
  creations, deletions   \* history: how often users did either
scan == <<phase, dir, page, items, stack, seen>>
past == <<always, ever, shifted, cut, creations, deletions>>
listingVars == <<side, sendsMore, tree, scan, past>>

-----------------------------------------------------------------------------
Whole(t) == \A e \in t : ParentOf[e] \in t \union {Root}

\* An entry and the directories above it: what every whole tree with it has.
Ancestors == [e \in Entries |->
                {a \in Entries : \A t \in SUBSET Entries : Whole(t) /\ e \in t => a \in t}]

\* A directory and what is in and under it.
Below(d) == {e \in Entries : d \in Ancestors[e]}

Children(t, d) == {e \in t : ParentOf[e] = d}

\* Which one an entry is in the listing of its directory.
Place(t, e) == Cardinality({x \in Children(t, ParentOf[e]) : x <= e})

\* The server's, or the operating system's, listing of a directory.
Listing(t, d) == [i \in 1..Cardinality(Children(t, d)) |->
                    CHOOSE e \in Children(t, d) : Place(t, e) = i]

\* The page of a listing an answer carries; ReadDir reads all of it.
PageOf(list, p) ==
  IF side = "local" THEN list
                    ELSE SubSeq(list, (p - 1) * Per + 1, IF p * Per < Len(list)
                                                          THEN p * Per ELSE Len(list))

ListingInit ==
  /\ side \in {"remote", "local"}
  /\ sendsMore \in BOOLEAN /\ (side = "local" => sendsMore)
  /\ tree \in {t \in SUBSET Entries : Whole(t)}
  /\ phase = "list" /\ dir = Root /\ page = 1 /\ items = << >>
  /\ stack = << >> /\ seen = {}
  /\ always = tree /\ ever = tree /\ shifted = {} /\ cut = {}
  /\ creations = 0 /\ deletions = 0

Exists(d) == d = Root \/ d \in tree

\* The walk of dir goes on over what ListAll returned.
Loop(list) ==
  /\ phase' = "visit" /\ page' = 1 /\ items' = << >>
  /\ stack' = <<list>> \o stack

\* !d.HasMore || len(d.Content) == 0 || page*per >= d.Total
LastPage(content, total) ==
  \/ side = "local"
  \/ ~(sendsMore /\ page * Per < total)
  \/ content = << >>
  \/ page * Per >= total

\* One request of ListAll, answered.
ListPage ==
  /\ phase = "list" /\ Exists(dir)
  /\ LET list == Listing(tree, dir)  content == PageOf(list, page) IN
       /\ IF LastPage(content, Len(list)) THEN Loop(items \o content)
          ELSE IF page < MaxPage
                 THEN /\ items' = items \o content /\ page' = page + 1
                      /\ UNCHANGED <<phase, stack>>
                 ELSE phase' = "failed" /\ UNCHANGED <<page, items, stack>>
       /\ cut' = IF side = "remote" /\ ~sendsMore
                   THEN cut \union {list[i] : i \in (page * Per + 1)..Len(list)}
                   ELSE cut
  /\ UNCHANGED <<side, sendsMore, tree, dir, seen, always, ever, shifted, creations, deletions>>

\* Mutants of ListFails: a subdirectory that cannot be listed is left out; the
\* request is made again for ever.
ListFailsLightly ==
  /\ phase = "list"
  /\ IF dir = Root THEN phase' = "failed" ELSE phase' = "visit"
  /\ items' = << >> /\ page' = 1
  /\ UNCHANGED <<side, sendsMore, tree, dir, stack, seen, past>>

ListFailsAndRepeats ==
  /\ phase = "list"
  /\ items' = << >> /\ page' = 1
  /\ UNCHANGED <<side, sendsMore, tree, phase, dir, stack, seen, past>>

\* A request fails, or the directory is gone: the scan returns the error.
ListFails ==
  /\ phase = "list"
  /\ phase' = "failed"
  /\ UNCHANGED <<side, sendsMore, tree, dir, page, items, stack, seen, past>>

Rest == <<Tail(Head(stack))>> \o Tail(stack)

\* for _, it := range items: a .part entry is skipped, remotely with what is
\* below it (continue); locally the walk goes into it all the same.
Visit ==
  /\ phase = "visit" /\ stack # << >> /\ Head(stack) # << >>
  /\ LET e == Head(Head(stack))
         recorded == e \notin Parts
         entered == e \in Dirs /\ (recorded \/ side = "local")
     IN  /\ side = "local" /\ recorded /\ e \notin Dirs => e \in tree  \* d.Info()
         /\ seen' = IF recorded THEN seen \union {e} ELSE seen
         /\ IF entered THEN phase' = "list" /\ dir' = e ELSE UNCHANGED <<phase, dir>>
  /\ stack' = Rest
  /\ UNCHANGED <<side, sendsMore, tree, page, items, past>>

\* localTree: the file is gone when d.Info() looks at it.
InfoFails ==
  /\ phase = "visit" /\ side = "local" /\ stack # << >> /\ Head(stack) # << >>
  /\ Head(Head(stack)) \notin tree \union Dirs \union Parts
  /\ phase' = "failed"
  /\ UNCHANGED <<side, sendsMore, tree, dir, page, items, stack, seen, past>>

\* The end of one directory's loop, and of the walk.
LoopEnds ==
  /\ phase = "visit" /\ stack # << >> /\ Head(stack) = << >>
  /\ stack' = Tail(stack)
  /\ phase' = IF Tail(stack) = << >> THEN "done" ELSE "visit"
  /\ UNCHANGED <<side, sendsMore, tree, dir, page, items, seen, past>>

-----------------------------------------------------------------------------
Scanning == phase \in {"list", "visit"}

\* What a change moves to a page of the directory being read that is past.
Slid(old, new) ==
  {e \in Children(old \intersect new, dir) :
     /\ side = "remote" /\ phase = "list"
     /\ Place(old, e) > (page - 1) * Per /\ Place(new, e) <= (page - 1) * Per}

\* External: users create and delete while the scan runs.
Change(new) ==
  /\ tree' = new
  /\ shifted' = shifted \union Slid(tree, new)
  /\ UNCHANGED <<side, sendsMore, scan, cut>>

Create(e) ==
  /\ Scanning /\ creations + deletions < MaxChanges
  /\ e \notin tree /\ e \notin ever /\ Exists(ParentOf[e])
  /\ Change(tree \union {e})
  /\ ever' = ever \union {e}
  /\ creations' = creations + 1
  /\ UNCHANGED <<always, deletions>>

Delete(e) ==
  /\ Scanning /\ creations + deletions < MaxChanges
  /\ e \in tree
  /\ Change(tree \ Below(e))
  /\ always' = always \ Below(e)
  /\ deletions' = deletions + 1
  /\ UNCHANGED <<ever, creations>>

Ended == ~Scanning /\ UNCHANGED listingVars

Scan == ListPage \/ ListFails \/ Visit \/ InfoFails \/ LoopEnds

ListingNext == Scan \/ (\E e \in Entries : Create(e) \/ Delete(e)) \/ Ended

ListingSpec == ListingInit /\ [][ListingNext]_listingVars

\* The server answers or the connection breaks; the file system answers.
FairListingSpec == ListingSpec /\ WF_listingVars(Scan)

-----------------------------------------------------------------------------
\* What the walk still has before it.
Listed(e)  == \E i \in DOMAIN stack : \E j \in DOMAIN stack[i] : stack[i][j] = e
Pending(e) == \/ Listed(e)
              \/ /\ phase = "list" /\ ParentOf[e] = dir
                 /\ \/ \E j \in DOMAIN items : items[j] = e
                    \/ Place(tree, e) > (page - 1) * Per

\* A directory the walk may be in: remotely one that the scan returns.
Opened(d) == side = "remote" => d \in seen \union {Root}

Hidden == IF side = "remote"
            THEN {e \in Entries : Ancestors[e] \intersect Parts # {}}
            ELSE Parts

(* A scan that succeeds saw everything that was there all the time, and    *)
(* nothing that never was, although it never was one state of the tree:    *)
(* but for entries that a deletion slid onto a page already read - at most *)
(* one for each deletion - and entries a server without has_more does not  *)
(* offer, each with what is below it.  With an entry a remote scan has the *)
(* directories above it, which the planner relies on (tree.go:50).  A scan *)
(* that met an error returns none of this (tree.go:42, 77; client.go:240). *)
ScanIsBetween ==
  /\ phase = "done" =>
       /\ \A e \in always \ Hidden : \/ e \in seen
                                     \/ Ancestors[e] \intersect (shifted \union cut) # {}
       /\ seen \subseteq ever \ Hidden
  /\ Cardinality(shifted) <= deletions
  /\ side = "remote" => \A e \in seen : ParentOf[e] \in seen \union {Root}

\* What is there all the time, has not slid and is not behind something that has,
\* is seen, or still before the walk, it or a directory above it; what was seen
\* did exist, and the walk got to it through what it returns.
WalkInv ==
  /\ side \in {"remote", "local"} /\ tree \subseteq ever /\ ever \subseteq Entries /\ Whole(tree)
  /\ always \subseteq tree /\ Whole(always)
  /\ dir \in Dirs \union {Root} /\ page \in Nat \ {0} /\ (side = "local" => page = 1)
  /\ items \in Seq(ever) /\ stack \in Seq(Seq(ever))
  /\ phase = "done" => stack = << >>
  /\ phase = "visit" => page = 1 /\ items = << >>

SeenInv ==
  /\ seen \subseteq ever \ Hidden
  /\ \A e \in ever : e \in seen \/ Listed(e) => Opened(ParentOf[e])
  /\ phase = "list" => Opened(dir)
  /\ \A i \in DOMAIN items : ParentOf[items[i]] = dir

CoveredInv ==
  phase # "failed" =>
    \A e \in always \ Hidden :
      e \in seen \/ \E a \in Ancestors[e] : a \in shifted \union cut \/ Pending(a)

SlidInv ==
  /\ IsFiniteSet(shifted) /\ deletions \in Nat /\ Cardinality(shifted) <= deletions

ListingInv == WalkInv /\ SeenInv /\ CoveredInv /\ SlidInv

(* Every scan ends, whatever the users do meanwhile (client.go:242-248).   *)
ScanEnds == <>(phase \in {"done", "failed"})
=============================================================================
