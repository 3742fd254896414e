----------------------------- MODULE ClientProofs -----------------------------
(***************************************************************************)
(* Proofs about the client: the trees its listings make, for every tree,   *)
(* page size and number of changes (Listing), and its token, for any       *)
(* number of goroutines, calls and faults (Client).                        *)
(***************************************************************************)
EXTENDS Client, Listing, SequenceTheorems, FiniteSetTheorems, WellFoundedInduction, TLAPS

-----------------------------------------------------------------------------
(* Trees and listings. *)

\* The ancestors of an entry are its own and those of its directory.
LEMMA AncestorsUnfold ==
  ASSUME NEW e \in Entries
  PROVE  /\ Ancestors[e] \subseteq Entries /\ e \in Ancestors[e] /\ Whole(Ancestors[e])
         /\ ParentOf[e] \in Entries \union {Root}
         /\ ParentOf[e] # Root => Ancestors[e] = {e} \union Ancestors[ParentOf[e]]
         /\ ParentOf[e] = Root => Ancestors[e] = {e}
<1>1. ParentOf[e] \in Entries \union {Root}
  BY EntriesAssumption
<1>2. \A d \in Entries : Ancestors[d] \subseteq Entries /\ d \in Ancestors[d]
  BY DEF Ancestors
<1>3. ASSUME NEW d \in Entries PROVE Whole(Ancestors[d])
  <2> SUFFICES ASSUME NEW x \in Ancestors[d], ParentOf[x] # Root
               PROVE  ParentOf[x] \in Ancestors[d]
    BY DEF Whole
  <2>1. x \in Entries /\ ParentOf[x] \in Entries
    BY EntriesAssumption DEF Ancestors
  <2>2. ASSUME NEW t \in SUBSET Entries, Whole(t), d \in t PROVE ParentOf[x] \in t
    BY <2>2 DEF Ancestors, Whole
  <2> QED
    BY <2>1, <2>2 DEF Ancestors
<1>4. ASSUME ParentOf[e] # Root
      PROVE  Ancestors[e] = {e} \union Ancestors[ParentOf[e]]
  <2> DEFINE d == ParentOf[e]
             t == {e} \union Ancestors[d]
  <2>1. d \in Entries
    BY <1>1, <1>4
  <2>2. t \in SUBSET Entries /\ e \in t /\ Whole(t)
    BY <1>2, <1>3, <2>1 DEF Whole
  <2>3. Ancestors[e] \subseteq t
    BY <2>2 DEF Ancestors
  <2>4. Ancestors[d] \subseteq Ancestors[e]
    BY <1>4, <2>1 DEF Ancestors, Whole
  <2> QED
    BY <1>2, <2>3, <2>4
<1>5. ASSUME ParentOf[e] = Root PROVE Ancestors[e] = {e}
  <2>1. Whole({e}) /\ {e} \in SUBSET Entries
    BY <1>5 DEF Whole
  <2>2. Ancestors[e] \subseteq {e}
    BY <2>1 DEF Ancestors
  <2> QED
    BY <1>2, <2>2
<1> QED
  BY <1>1, <1>2, <1>3, <1>4, <1>5

\* A directory above an entry has the entry or another one above it.
LEMMA NextOnTheWay ==
  ASSUME NEW e \in Entries, NEW d \in Ancestors[e], d # e
  PROVE  \E a \in Ancestors[e] : ParentOf[a] = d
<1> SUFFICES ASSUME \A a \in Ancestors[e] : ParentOf[a] # d PROVE FALSE
  OBVIOUS
<1> DEFINE t == Ancestors[e] \ {d}
<1>1. t \in SUBSET Entries /\ e \in t
  BY AncestorsUnfold
<1>2. Whole(t)
  BY AncestorsUnfold DEF Whole
<1>3. Ancestors[e] \subseteq t
  BY <1>1, <1>2 DEF Ancestors
<1> QED
  BY <1>3

\* A whole tree with an entry has what is above it.
LEMMA WholeHasAncestors ==
  ASSUME NEW t \in SUBSET Entries, Whole(t), NEW e \in t
  PROVE  Ancestors[e] \subseteq t
  BY DEF Ancestors

LEMMA ChildrenFinite ==
  ASSUME NEW t \in SUBSET Entries, NEW d
  PROVE  /\ IsFiniteSet(Children(t, d)) /\ Cardinality(Children(t, d)) \in Nat
         /\ Children(t, d) \subseteq Entries
<1>1. Children(t, d) \in SUBSET Entries
  BY DEF Children
<1> QED
  BY <1>1, EntriesAssumption, FS_Subset, FS_CardinalityType

\* Places are numbered from one to the number of entries, each given once.
LEMMA PlaceBounds ==
  ASSUME NEW t \in SUBSET Entries, NEW d, NEW e \in Children(t, d)
  PROVE  Place(t, e) \in 1..Cardinality(Children(t, d))
<1> DEFINE upTo == {x \in Children(t, d) : x <= e}
<1>1. ParentOf[e] = d /\ e \in upTo
  BY ChildrenFinite, EntriesAssumption DEF Children
<1>2. Place(t, e) = Cardinality(upTo)
  BY <1>1 DEF Place
<1>3. upTo \in SUBSET Children(t, d)
  OBVIOUS
<1> HIDE DEF upTo
<1>4. /\ IsFiniteSet(upTo) /\ Cardinality(upTo) <= Cardinality(Children(t, d))
      /\ Cardinality(upTo) \in Nat /\ Cardinality(Children(t, d)) \in Nat
  BY <1>3, ChildrenFinite, FS_Subset, FS_CardinalityType
<1>5. Cardinality(upTo) # 0
  BY <1>1, <1>4, FS_EmptySet
<1> QED
  BY <1>2, <1>4, <1>5

LEMMA PlaceOrder ==
  ASSUME NEW t \in SUBSET Entries, NEW d, NEW e \in Children(t, d), NEW f \in Children(t, d),
         e < f
  PROVE  Place(t, e) < Place(t, f)
<1> DEFINE upToE == {x \in Children(t, d) : x <= e}
           upToF == {x \in Children(t, d) : x <= f}
<1>1. \A x \in Children(t, d) : x \in Nat
  BY ChildrenFinite, EntriesAssumption
<1>2. upToE \in SUBSET upToF /\ f \in upToF /\ f \notin upToE
  BY <1>1
<1>3. Place(t, e) = Cardinality(upToE) /\ Place(t, f) = Cardinality(upToF)
  BY DEF Place, Children
<1>4. upToF \in SUBSET Children(t, d)
  OBVIOUS
<1> HIDE DEF upToE, upToF
<1>5. IsFiniteSet(upToF)
  BY <1>4, ChildrenFinite, FS_Subset
<1>6. /\ Cardinality(upToE) <= Cardinality(upToF)
      /\ Cardinality(upToE) = Cardinality(upToF) => upToE = upToF
      /\ Cardinality(upToE) \in Nat /\ Cardinality(upToF) \in Nat
  BY <1>2, <1>5, FS_Subset, FS_CardinalityType
<1> QED
  BY <1>2, <1>3, <1>6

LEMMA PlaceOnce ==
  ASSUME NEW t \in SUBSET Entries, NEW d, NEW e \in Children(t, d), NEW f \in Children(t, d),
         Place(t, e) = Place(t, f)
  PROVE  e = f
<1>1. Children(t, d) \subseteq Nat
  BY ChildrenFinite, EntriesAssumption
<1>2. e \in Nat /\ f \in Nat
  BY <1>1
<1>3. Place(t, e) \in Int
  <2>1. Cardinality(Children(t, d)) \in Nat
    BY ChildrenFinite
  <2> QED
    BY <2>1, PlaceBounds
<1>4. ~(e < f) /\ ~(f < e)
  BY <1>3, PlaceOrder
<1> QED
  BY <1>2, <1>4

\* A listing has each entry of the directory at its place, and nothing else.
LEMMA ListingPlaces ==
  ASSUME NEW t \in SUBSET Entries, NEW d
  PROVE  /\ Listing(t, d) \in Seq(Children(t, d))
         /\ Len(Listing(t, d)) = Cardinality(Children(t, d))
         /\ \A e \in Children(t, d) : /\ Place(t, e) \in 1..Len(Listing(t, d))
                                      /\ Listing(t, d)[Place(t, e)] = e
<1> DEFINE here == Children(t, d)
           n == Cardinality(here)
           place == [e \in here |-> Place(t, e)]
<1>1. IsFiniteSet(here) /\ n \in Nat
  BY ChildrenFinite
<1>2. place \in [here -> 1..n]
  BY PlaceBounds
<1>3. place \in Injection(here, 1..n)
  <2>1. \A e, f \in here : place[e] = place[f] => e = f
    BY PlaceOnce
  <2> HIDE DEF place
  <2> QED
    BY <1>2, <2>1 DEF Injection, IsInjective
<1>4. IsFiniteSet(1..n) /\ Cardinality(1..n) = n
  BY <1>1, FS_Interval
<1>5. place \in Surjection(here, 1..n)
  <2> HIDE DEF place, here
  <2> QED
    BY <1>3, <1>4, FS_Injection
<1>6. \A i \in 1..n : \E e \in here : Place(t, e) = i
  BY <1>5 DEF Surjection
<1>7. Listing(t, d) = [i \in 1..n |-> CHOOSE e \in here : Place(t, e) = i]
  BY DEF Listing
<1>8. \A i \in 1..n : Listing(t, d)[i] \in here /\ Place(t, Listing(t, d)[i]) = i
  BY <1>6, <1>7
<1> HIDE DEF here, n
<1>9. Listing(t, d) \in [1..n -> here]
  BY <1>7, <1>8
<1>10. Listing(t, d) \in Seq(here) /\ Len(Listing(t, d)) = n
  BY <1>1, <1>9, SeqDef
<1>11. \A e \in here : Place(t, e) \in 1..n /\ Listing(t, d)[Place(t, e)] = e
  <2> SUFFICES ASSUME NEW e \in here
               PROVE  Place(t, e) \in 1..n /\ Listing(t, d)[Place(t, e)] = e
    OBVIOUS
  <2>1. Place(t, e) \in 1..n
    BY PlaceBounds DEF here, n
  <2>2. Listing(t, d)[Place(t, e)] \in here
        /\ Place(t, Listing(t, d)[Place(t, e)]) = Place(t, e)
    BY <1>8, <2>1
  <2> QED
    BY <2>1, <2>2, PlaceOnce DEF here
<1> QED
  BY <1>10, <1>11 DEF here, n

\* Creating an entry moves none to an earlier place.
LEMMA CreationSlidesNone ==
  ASSUME NEW t \in SUBSET Entries, NEW u \in SUBSET Entries, t \subseteq u,
         NEW d, NEW e \in Children(t, d)
  PROVE  Place(t, e) <= Place(u, e)
<1> DEFINE old == {x \in Children(t, d) : x <= e}
           new == {x \in Children(u, d) : x <= e}
<1>1. old \in SUBSET new /\ new \in SUBSET Children(u, d)
  BY DEF Children
<1>2. Place(t, e) = Cardinality(old) /\ Place(u, e) = Cardinality(new)
  BY DEF Place, Children
<1> HIDE DEF old, new
<1> QED
  BY <1>1, <1>2, ChildrenFinite, FS_Subset

\* Deleting one moves the later ones of its directory by one place.
LEMMA DeletionSlidesByOne ==
  ASSUME NEW t \in SUBSET Entries, NEW x \in t,
         NEW d, NEW e \in Children(t \ Below(x), d)
  PROVE  Place(t, e) <= Place(t \ Below(x), e) + 1
<1> DEFINE u == t \ Below(x)
           old == {y \in Children(t, d) : y <= e}
           new == {y \in Children(u, d) : y <= e}
<1>1. e \in Entries /\ e \notin Below(x) /\ ParentOf[e] = d /\ e \in Children(t, d)
  BY DEF Children
<1>2. ASSUME NEW y \in old, y \in Below(x) PROVE y = x
  <2>1. y \in Entries /\ ParentOf[y] = d /\ x \in Ancestors[y]
    BY <1>2 DEF Children, Below
  <2>2. ASSUME y # x PROVE FALSE
    <3>1. d # Root /\ d \in Entries /\ x \in Ancestors[d]
      BY <2>1, <2>2, AncestorsUnfold
    <3>2. x \in Ancestors[e]
      BY <1>1, <3>1, AncestorsUnfold
    <3> QED
      BY <1>1, <3>2 DEF Below
  <2> QED
    BY <2>2
<1>3. old \ {x} \in SUBSET new /\ new \in SUBSET Children(u, d) /\ old \in SUBSET Children(t, d)
  BY <1>2 DEF Children
<1>4. Place(t, e) = Cardinality(old) /\ Place(u, e) = Cardinality(new)
  BY DEF Place, Children
<1> HIDE DEF old, new
<1>5. IsFiniteSet(old) /\ IsFiniteSet(new)
  BY <1>3, ChildrenFinite, FS_Subset
<1>6. /\ Cardinality(old) \in Nat /\ Cardinality(new) \in Nat
      /\ Cardinality(old \ {x}) = IF x \in old THEN Cardinality(old) - 1 ELSE Cardinality(old)
      /\ Cardinality(old \ {x}) <= Cardinality(new)
  BY <1>3, <1>5, FS_CardinalityType, FS_RemoveElement, FS_Subset
<1> QED
  BY <1>4, <1>6

-----------------------------------------------------------------------------
(* The walk's lists. *)

Has(list, e) == \E j \in DOMAIN list : list[j] = e
On(lists, e) == \E i \in DOMAIN lists : Has(lists[i], e)

LEMMA HasConcat ==
  ASSUME NEW S, NEW s \in Seq(S), NEW t \in Seq(S), NEW e
  PROVE  Has(s \o t, e) <=> Has(s, e) \/ Has(t, e)
<1>1. /\ Len(s) \in Nat /\ Len(t) \in Nat
      /\ DOMAIN s = 1..Len(s) /\ DOMAIN t = 1..Len(t)
  BY LenProperties
<1>2. /\ s \o t \in Seq(S) /\ Len(s \o t) = Len(s) + Len(t)
      /\ \A i \in 1 .. Len(s) + Len(t) :
           (s \o t)[i] = IF i <= Len(s) THEN s[i] ELSE t[i - Len(s)]
  BY ConcatProperties
<1>3. DOMAIN (s \o t) = 1..(Len(s) + Len(t))
  BY <1>2, LenProperties
<1>4. Has(s \o t, e) => Has(s, e) \/ Has(t, e)
  <2> SUFFICES ASSUME NEW i \in 1..(Len(s) + Len(t)), (s \o t)[i] = e
               PROVE  Has(s, e) \/ Has(t, e)
    BY <1>3 DEF Has
  <2>1. CASE i <= Len(s)
    BY <1>1, <1>2, <2>1 DEF Has
  <2>2. CASE i > Len(s)
    <3>1. i - Len(s) \in DOMAIN t /\ t[i - Len(s)] = e
      BY <1>1, <1>2, <2>2
    <3> QED
      BY <3>1 DEF Has
  <2> QED
    BY <1>1, <2>1, <2>2
<1>5. Has(s, e) => Has(s \o t, e)
  BY <1>1, <1>2, <1>3 DEF Has
<1>6. Has(t, e) => Has(s \o t, e)
  <2> SUFFICES ASSUME NEW i \in 1..Len(t), t[i] = e PROVE Has(s \o t, e)
    BY <1>1 DEF Has
  <2>1. i + Len(s) \in DOMAIN (s \o t) /\ (s \o t)[i + Len(s)] = e
    BY <1>1, <1>2, <1>3
  <2> QED
    BY <2>1 DEF Has
<1> QED
  BY <1>4, <1>5, <1>6

LEMMA HasHead ==
  ASSUME NEW S, NEW s \in Seq(S), s # << >>, NEW e
  PROVE  Has(s, e) <=> e = Head(s) \/ Has(Tail(s), e)
<1>1. Len(s) \in Nat \ {0} /\ DOMAIN s = 1..Len(s) /\ Head(s) = s[1]
  BY EmptySeq, LenProperties DEF Head
<1>2. /\ Tail(s) \in Seq(S) /\ Len(Tail(s)) = Len(s) - 1
      /\ \A i \in 1..Len(Tail(s)) : Tail(s)[i] = s[i + 1]
  BY HeadTailProperties
<1>3. DOMAIN Tail(s) = 1..(Len(s) - 1)
  BY <1>2, LenProperties
<1>4. ASSUME NEW i \in 1..Len(s), s[i] = e PROVE e = Head(s) \/ Has(Tail(s), e)
  <2>1. CASE i = 1
    BY <1>1, <1>4, <2>1
  <2>2. CASE i # 1
    <3>1. i - 1 \in 1..(Len(s) - 1) /\ Tail(s)[i - 1] = e
      BY <1>1, <1>2, <1>4, <2>2
    <3> QED
      BY <1>3, <3>1 DEF Has
  <2> QED
    BY <2>1, <2>2
<1>5. ASSUME NEW i \in 1..(Len(s) - 1), Tail(s)[i] = e PROVE Has(s, e)
  <2>1. i + 1 \in DOMAIN s /\ s[i + 1] = e
    BY <1>1, <1>2, <1>5
  <2> QED
    BY <2>1 DEF Has
<1>6. Has(s, Head(s))
  BY <1>1 DEF Has
<1> QED
  BY <1>1, <1>3, <1>4, <1>5, <1>6 DEF Has

\* Listings are pushed, shortened and popped.
LEMMA OnPush ==
  ASSUME NEW S, NEW lists \in Seq(Seq(S)), NEW list \in Seq(S), NEW e
  PROVE  /\ <<list>> \o lists \in Seq(Seq(S))
         /\ On(<<list>> \o lists, e) <=> Has(list, e) \/ On(lists, e)
<1>1. <<list>> \in Seq(Seq(S)) /\ Len(<<list>>) = 1 /\ <<list>>[1] = list
  OBVIOUS
<1>2. Len(lists) \in Nat /\ DOMAIN lists = 1..Len(lists)
  BY LenProperties
<1> DEFINE more == <<list>> \o lists
<1>3. /\ more \in Seq(Seq(S)) /\ Len(more) = 1 + Len(lists)
      /\ \A i \in 1..(1 + Len(lists)) : more[i] = IF i <= 1 THEN <<list>>[i] ELSE lists[i - 1]
  BY <1>1, ConcatProperties
<1>4. DOMAIN more = 1..(1 + Len(lists))
  BY <1>3, LenProperties
<1> HIDE DEF more
<1>5. more[1] = list /\ 1 \in DOMAIN more /\ \A i \in 1..Len(lists) : more[i + 1] = lists[i]
  <2>1. 1 \in DOMAIN more
    BY <1>2, <1>4
  <2>2. more[1] = <<list>>[1]
    BY <1>2, <1>3
  <2>3. ASSUME NEW i \in 1..Len(lists) PROVE more[i + 1] = lists[i]
    <3>1. i + 1 \in 1..(1 + Len(lists)) /\ ~(i + 1 <= 1) /\ (i + 1) - 1 = i
      BY <1>2
    <3> QED
      BY <1>3, <3>1
  <2> QED
    BY <1>1, <2>1, <2>2, <2>3
<1>6. ASSUME NEW i \in DOMAIN more, Has(more[i], e) PROVE Has(list, e) \/ On(lists, e)
  <2>1. CASE i = 1
    BY <1>5, <1>6, <2>1
  <2>2. CASE i # 1
    <3>1. i - 1 \in DOMAIN lists /\ more[i] = lists[i - 1]
      BY <1>2, <1>3, <1>4, <2>2
    <3> QED
      BY <1>6, <3>1 DEF On
  <2> QED
    BY <2>1, <2>2
<1>7. ASSUME NEW i \in DOMAIN lists, Has(lists[i], e) PROVE On(more, e)
  <2>1. i + 1 \in DOMAIN more /\ more[i + 1] = lists[i]
    BY <1>2, <1>4, <1>5
  <2> QED
    BY <1>7, <2>1 DEF On
<1> QED
  BY <1>3, <1>5, <1>6, <1>7 DEF On, more

LEMMA OnHead ==
  ASSUME NEW S, NEW lists \in Seq(Seq(S)), lists # << >>, NEW e
  PROVE  /\ Head(lists) \in Seq(S) /\ Tail(lists) \in Seq(Seq(S))
         /\ On(lists, e) <=> Has(Head(lists), e) \/ On(Tail(lists), e)
<1>1. Head(lists) \in Seq(S) /\ Tail(lists) \in Seq(Seq(S))
  BY HeadTailProperties
<1>2. Len(lists) \in Nat \ {0} /\ DOMAIN lists = 1..Len(lists) /\ Head(lists) = lists[1]
  BY EmptySeq, LenProperties DEF Head
<1>3. /\ Len(Tail(lists)) = Len(lists) - 1
      /\ \A i \in 1..(Len(lists) - 1) : Tail(lists)[i] = lists[i + 1]
  BY HeadTailProperties
<1>4. DOMAIN Tail(lists) = 1..(Len(lists) - 1)
  BY <1>1, <1>3, LenProperties
<1>5. ASSUME NEW i \in DOMAIN lists, Has(lists[i], e)
      PROVE  Has(Head(lists), e) \/ On(Tail(lists), e)
  <2>1. CASE i = 1
    BY <1>2, <1>5, <2>1
  <2>2. CASE i # 1
    <3>1. i - 1 \in DOMAIN Tail(lists) /\ Tail(lists)[i - 1] = lists[i]
      BY <1>2, <1>3, <1>4, <2>2
    <3> QED
      BY <1>5, <3>1 DEF On
  <2> QED
    BY <2>1, <2>2
<1>6. ASSUME NEW i \in DOMAIN Tail(lists), Has(Tail(lists)[i], e) PROVE On(lists, e)
  <2>1. i + 1 \in DOMAIN lists /\ lists[i + 1] = Tail(lists)[i]
    BY <1>2, <1>3, <1>4
  <2> QED
    BY <1>6, <2>1 DEF On
<1>7. Has(Head(lists), e) => On(lists, e)
  BY <1>2 DEF On
<1> QED
  BY <1>1, <1>5, <1>6, <1>7 DEF On

-----------------------------------------------------------------------------
(* The pages. *)

\* What a page carries, and what is left of the listing after it.
LEMMA PageHas ==
  ASSUME WalkInv, phase = "list"
  PROVE  LET list == Listing(tree, dir)  content == PageOf(list, page)
         IN  /\ content \in Seq(Children(tree, dir))
             /\ \A e \in Children(tree, dir) :
                  Place(tree, e) > (page - 1) * Per =>
                    \/ Has(content, e)
                    \/ /\ side = "remote" /\ Place(tree, e) > page * Per
                       /\ content # << >>
                       /\ Place(tree, e) \in 1..Len(list) /\ list[Place(tree, e)] = e
<1> DEFINE here    == Children(tree, dir)
           list    == Listing(tree, dir)
           content == PageOf(list, page)
           n       == Len(list)
           K       == (page - 1) * Per
           M       == page * Per
<1>1. tree \in SUBSET Entries
  BY DEF WalkInv
<1>2. /\ list \in Seq(here) /\ n \in Nat /\ DOMAIN list = 1..n
      /\ \A i \in 1..n : list[i] \in here
      /\ \A e \in here : Place(tree, e) \in 1..n /\ list[Place(tree, e)] = e
  BY <1>1, ListingPlaces, LenProperties, ElementOfSeq
<1>3. K \in Nat /\ M = K + Per /\ Per \in Nat \ {0}
  BY PagesAssumption DEF WalkInv
<1> HIDE DEF here, list, K, M
<1>4. CASE side = "local"
  BY <1>2, <1>4 DEF PageOf, Has, here, list
<1>5. CASE side # "local"
  <2> DEFINE last == IF M < n THEN M ELSE n
  <2>1. content = SubSeq(list, K + 1, last)
    BY <1>5 DEF PageOf, K, M
  <2>2. /\ last \in Nat /\ last <= n /\ last <= M /\ n \in Nat
        /\ \A q \in Nat : q <= n /\ q <= M => q <= last
        /\ M <= n => last = M
    BY <1>2, <1>3
  <2> HIDE DEF content, last, n
  <2>3. \A i \in (K + 1)..last : list[i] \in here
    BY <1>2, <1>3, <2>2
  <2>4. /\ content \in Seq(here)
        /\ Len(content) = IF K + 1 <= last THEN last - K ELSE 0
        /\ \A i \in 1..(last - K) : content[i] = list[K + i]
    <3>1. /\ content \in Seq(here)
          /\ Len(content) = IF K + 1 <= last THEN last - (K + 1) + 1 ELSE 0
          /\ \A i \in 1..(last - (K + 1) + 1) : content[i] = list[(K + 1) + i - 1]
      BY <1>3, <2>1, <2>2, <2>3, SubSeqProperties
    <3>2. last - (K + 1) + 1 = last - K
      BY <1>3, <2>2
    <3>3. ASSUME NEW i \in 1..(last - K) PROVE content[i] = list[K + i]
      <4>1. (K + 1) + i - 1 = K + i
        BY <1>3, <2>2
      <4>2. content[i] = list[(K + 1) + i - 1]
        BY <3>1, <3>2
      <4> QED
        BY <4>1, <4>2
    <3> QED
      BY <3>1, <3>2, <3>3
  <2>5. DOMAIN content = 1..Len(content)
    BY <2>4, LenProperties
  <2>6. ASSUME NEW e \in here, Place(tree, e) > K, Place(tree, e) <= M PROVE Has(content, e)
    <3> DEFINE i == Place(tree, e) - K
    <3>1. Place(tree, e) \in 1..n /\ list[Place(tree, e)] = e
      BY <1>2
    <3>2. i \in 1..(last - K) /\ K + i = Place(tree, e) /\ K + 1 <= last
      BY <1>2, <1>3, <2>2, <2>6, <3>1
    <3>3. content[i] = e /\ i \in DOMAIN content
      BY <2>4, <2>5, <3>1, <3>2
    <3> QED
      BY <3>3 DEF Has
  <2>7. ASSUME NEW e \in here, Place(tree, e) > M PROVE content # << >>
    <3>1. Place(tree, e) \in 1..n
      BY <1>2
    <3>2. Len(content) = Per
      <4>1. last = M /\ last - K = Per
        BY <1>3, <2>2, <2>7, <3>1
      <4> QED
        BY <1>3, <2>2, <2>4, <4>1
    <3> QED
      BY <1>3, <3>2, EmptySeq
  <2>8. side = "remote"
    BY <1>5 DEF WalkInv
  <2>9. ASSUME NEW e \in here, Place(tree, e) > K, ~Has(content, e)
        PROVE  /\ Place(tree, e) > M /\ content # << >>
               /\ Place(tree, e) \in 1..n /\ list[Place(tree, e)] = e
    <3>1. Place(tree, e) \in 1..n /\ list[Place(tree, e)] = e
      BY <1>2
    <3>2. Place(tree, e) > M
      BY <1>3, <2>2, <2>6, <2>9, <3>1
    <3> QED
      BY <2>7, <3>1, <3>2
  <2> QED
    BY <2>4, <2>8, <2>9 DEF here, list, K, M, content, n
<1> QED
  BY <1>4, <1>5

-----------------------------------------------------------------------------
(* The invariant. *)

\* An entry that was there all the time stays covered when what was before the
\* walk is still before it, or has slid or was not offered.
LEMMA CoveredStep ==
  ASSUME WalkInv, CoveredInv, phase # "failed", side' = side, always' \subseteq always,
         Whole(always'), seen \subseteq seen', shifted \subseteq shifted', cut \subseteq cut',
         \A a \in always' : Pending(a) => a \in shifted' \union cut' \/ Pending(a)'
  PROVE  CoveredInv'
<1> SUFFICES ASSUME NEW e \in always' \ Hidden, e \notin seen'
             PROVE  \E a \in Ancestors[e] : a \in shifted' \union cut' \/ Pending(a)'
  BY DEF CoveredInv, Hidden
<1>1. e \in always \ Hidden /\ e \notin seen
  OBVIOUS
<1>2. PICK a \in Ancestors[e] : a \in shifted \union cut \/ Pending(a)
  BY <1>1 DEF CoveredInv
<1>3. always' \in SUBSET Entries
  BY DEF WalkInv
<1>4. a \in always'
  BY <1>3, WholeHasAncestors
<1> QED
  BY <1>2, <1>4

\* The way to an entry begins in the root.
LEMMA FirstOnTheWay ==
  ASSUME NEW e \in Entries
  PROVE  \E a \in Ancestors[e] : ParentOf[a] = Root
<1>1. Ancestors[e] \subseteq Nat /\ Ancestors[e] # {}
  BY AncestorsUnfold, EntriesAssumption
<1>2. PICK a \in Ancestors[e] : \A d \in Ancestors[e] : ~(<<d, a>> \in OpToRel(<, Nat))
  BY <1>1, NatLessThanWellFounded, WFMin
<1>3. \A d \in Ancestors[e] : d < a => <<d, a>> \in OpToRel(<, Nat)
  BY <1>1 DEF OpToRel
<1>4. ParentOf[a] < a
  BY AncestorsUnfold, EntriesAssumption
<1>5. ParentOf[a] \in Ancestors[e] \union {Root}
  BY AncestorsUnfold DEF Whole
<1> QED
  BY <1>2, <1>3, <1>4, <1>5

LEMMA ListedIsOn == ASSUME NEW e PROVE Listed(e) <=> On(stack, e)
  BY DEF Listed, On, Has

LEMMA InitHolds == ListingInit => ListingInv
<1> SUFFICES ASSUME ListingInit PROVE ListingInv
  OBVIOUS
<1> USE DEF ListingInit
<1>1. tree \in SUBSET Entries /\ Whole(tree) /\ tree = ever /\ tree = always
  OBVIOUS
<1>2. WalkInv
  BY <1>1, EmptySeq DEF WalkInv
<1>3. SeenInv
  BY <1>1 DEF SeenInv, Listed, Opened
<1>4. SlidInv
  BY FS_EmptySet DEF SlidInv
<1>5. CoveredInv
  <2> SUFFICES ASSUME NEW e \in tree
               PROVE  \E a \in Ancestors[e] : Pending(a)
    BY <1>1 DEF CoveredInv
  <2>1. e \in Entries /\ Ancestors[e] \subseteq tree
    BY <1>1, WholeHasAncestors
  <2>2. Root \notin Entries
    BY EntriesAssumption
  <2>3. PICK a \in Ancestors[e] : ParentOf[a] = Root
    BY <2>1, FirstOnTheWay
  <2>4. Place(tree, a) \in 1..Cardinality(Children(tree, Root))
    BY <1>1, <2>1, <2>3, PlaceBounds DEF Children
  <2> QED
    BY <2>1, <2>3, <2>4, ChildrenFinite, PagesAssumption DEF Pending
<1> QED
  BY <1>2, <1>3, <1>4, <1>5 DEF ListingInv

\* What is listed is pushed behind the rest.
LEMMA LoopStep ==
  ASSUME WalkInv, NEW list \in Seq(ever), Loop(list)
  PROVE  /\ stack' \in Seq(Seq(ever)) /\ stack' # << >>
         /\ phase' = "visit" /\ page' = 1 /\ items' = << >>
         /\ \A e : On(stack', e) <=> Has(list, e) \/ On(stack, e)
<1>1. stack \in Seq(Seq(ever))
  BY DEF WalkInv
<1>2. phase' = "visit" /\ page' = 1 /\ items' = << >> /\ stack' = <<list>> \o stack
  BY DEF Loop
<1>3. stack' \in Seq(Seq(ever)) /\ \A e : On(stack', e) <=> Has(list, e) \/ On(stack, e)
  BY <1>1, <1>2, OnPush
<1>4. stack' # << >>
  BY <1>1, <1>2
<1> QED
  BY <1>2, <1>3, <1>4

LEMMA ListPageStep ==
  ASSUME ListingInv, ListPage
  PROVE  ListingInv'
<1> DEFINE here    == Children(tree, dir)
           list    == Listing(tree, dir)
           content == PageOf(list, page)
           got     == items \o content
<1>1. /\ phase = "list"
      /\ UNCHANGED <<side, tree, dir, seen, always, ever, shifted, creations, deletions>>
  BY DEF ListPage
<1>2. WalkInv /\ SeenInv /\ CoveredInv /\ SlidInv
  BY DEF ListingInv
<1>3. /\ content \in Seq(here)
      /\ \A e \in here :
           Place(tree, e) > (page - 1) * Per =>
             \/ Has(content, e)
             \/ /\ side = "remote" /\ Place(tree, e) > page * Per /\ content # << >>
                /\ Place(tree, e) \in 1..Len(list) /\ list[Place(tree, e)] = e
  BY <1>1, <1>2, PageHas
<1>4. here \subseteq ever /\ \A e \in here : ParentOf[e] = dir
  BY <1>2 DEF Children, WalkInv
<1>5. items \in Seq(ever) /\ content \in Seq(ever)
  BY <1>2, <1>3, <1>4, SeqMonotonic DEF WalkInv
<1>6. got \in Seq(ever) /\ \A e : Has(got, e) <=> Has(items, e) \/ Has(content, e)
  BY <1>5, ConcatProperties, HasConcat
<1>7. \A e : Has(got, e) => ParentOf[e] = dir
  <2>1. \A e : Has(items, e) => ParentOf[e] = dir
    BY <1>2 DEF SeenInv, Has
  <2>2. \A e : Has(content, e) => e \in here
    BY <1>3, LenProperties, ElementOfSeq DEF Has
  <2> QED
    BY <1>4, <1>6, <2>1, <2>2
<1>8. cut \subseteq cut'
      /\ (side = "remote" /\ ~sendsMore
            => {list[i] : i \in (page * Per + 1)..Len(list)} \subseteq cut')
  BY DEF ListPage
<1>9. \/ LastPage(content, Len(list)) /\ Loop(got)
      \/ /\ ~LastPage(content, Len(list))
         /\ items' = got /\ page' = page + 1 /\ UNCHANGED <<phase, stack>>
      \/ /\ ~LastPage(content, Len(list))
         /\ phase' = "failed" /\ UNCHANGED <<page, items, stack>>
  BY DEF ListPage
<1> HIDE DEF here, list, content, got
<1>10. WalkInv'
  <2>1. CASE Loop(got)
    <3>1. /\ stack' \in Seq(Seq(ever)) /\ stack' # << >>
          /\ phase' = "visit" /\ page' = 1 /\ items' = << >>
      BY <1>2, <1>6, <2>1, LoopStep
    <3>2. items' \in Seq(ever)
      BY <3>1, EmptySeq
    <3> QED
      BY <1>1, <1>2, <3>1, <3>2 DEF WalkInv
  <2>2. CASE ~LastPage(content, Len(list)) /\ items' = got /\ page' = page + 1
             /\ UNCHANGED <<phase, stack>>
    <3>1. side # "local"
      BY <2>2 DEF LastPage
    <3> QED
      BY <1>1, <1>2, <1>6, <2>2, <3>1 DEF WalkInv
  <2>3. CASE phase' = "failed" /\ UNCHANGED <<page, items, stack>>
    BY <1>1, <1>2, <2>3 DEF WalkInv
  <2> QED
    BY <1>9, <2>1, <2>2, <2>3
<1>11. \A e : On(stack', e) => On(stack, e) \/ (Loop(got) /\ Has(got, e))
  BY <1>2, <1>6, <1>9, LoopStep
<1>12. SeenInv'
  <2>1. Opened(dir)
    BY <1>1, <1>2 DEF SeenInv
  <2>2. \A d : Opened(d)' = Opened(d)
    BY <1>1 DEF Opened
  <2>3. \A e \in ever : e \in seen \/ On(stack', e) => Opened(ParentOf[e])
    BY <1>2, <1>7, <1>11, <2>1, ListedIsOn DEF SeenInv
  <2>4. \A i \in DOMAIN items' : ParentOf[items'[i]] = dir
    <3>1. CASE items' = << >>
      BY <3>1
    <3>2. CASE items' = got
      BY <1>7, <3>2 DEF Has
    <3>3. CASE items' = items
      BY <1>2, <3>3 DEF SeenInv
    <3> QED
      BY <1>9, <3>1, <3>2, <3>3 DEF Loop
  <2>5. \A e : Listed(e)' <=> On(stack', e)
    BY DEF Listed, On, Has
  <2>6. Hidden' = Hidden
    BY <1>1 DEF Hidden
  <2> QED
    BY <1>1, <1>2, <2>1, <2>2, <2>3, <2>4, <2>5, <2>6 DEF SeenInv
<1>13. CoveredInv'
  <2> SUFFICES ASSUME phase' # "failed" PROVE CoveredInv'
    BY DEF CoveredInv
  <2>1. \A e : Listed(e)' <=> On(stack', e)
    BY DEF Listed, On, Has
  <2>2. ASSUME NEW a \in always, Pending(a) PROVE a \in cut' \/ Pending(a)'
    <3>1. On(stack, a) \/ (ParentOf[a] = dir /\ (Has(items, a) \/ Place(tree, a) > (page - 1) * Per))
      BY <2>2, ListedIsOn DEF Pending, Has
    <3>2. CASE On(stack, a)
      <4>1. On(stack', a)
        BY <1>2, <1>6, <1>9, <3>2, LoopStep
      <4> QED
        BY <2>1, <4>1 DEF Pending
    <3>3. CASE ParentOf[a] = dir /\ Has(got, a)
      <4>1. CASE Loop(got)
        BY <1>2, <1>6, <2>1, <3>3, <4>1, LoopStep DEF Pending
      <4>2. CASE items' = got /\ UNCHANGED phase
        BY <1>1, <3>3, <4>2 DEF Pending, Has
      <4> QED
        BY <1>9, <4>1, <4>2
    <3>4. CASE ParentOf[a] = dir /\ ~Has(got, a) /\ Place(tree, a) > (page - 1) * Per
      <4>1. a \in here
        BY <1>2, <3>4 DEF here, Children, WalkInv
      <4>2. /\ side = "remote" /\ Place(tree, a) > page * Per /\ content # << >>
            /\ Place(tree, a) \in 1..Len(list) /\ list[Place(tree, a)] = a
        BY <1>3, <1>6, <3>4, <4>1
      <4>3. page * Per \in Nat
        BY <1>2, PagesAssumption DEF WalkInv
      <4>4. Len(list) \in Nat /\ page * Per < Len(list)
        <5>1. tree \in SUBSET Entries
          BY <1>2 DEF WalkInv
        <5>2. Len(list) \in Nat
          BY <5>1, ListingPlaces, ChildrenFinite DEF list
        <5> QED
          BY <4>2, <4>3, <5>2
      <4>5. CASE ~sendsMore
        <5>1. Place(tree, a) \in (page * Per + 1)..Len(list)
          BY <4>2, <4>3, <4>4
        <5> QED
          BY <1>8, <4>2, <4>5, <5>1
      <4>6. CASE sendsMore
        <5>1. ~LastPage(content, Len(list))
          BY <4>2, <4>3, <4>4, <4>6 DEF LastPage
        <5>2. phase' = phase /\ page' - 1 = page
          BY <1>2, <1>9, <5>1 DEF WalkInv
        <5> QED
          BY <1>1, <3>4, <4>2, <5>2 DEF Pending
      <4> QED
        BY <4>5, <4>6
    <3> QED
      BY <1>6, <3>1, <3>2, <3>3, <3>4
  <2>3. Whole(always)
    BY <1>2 DEF WalkInv
  <2> QED
    BY <1>1, <1>2, <1>8, <2>2, <2>3, CoveredStep
<1>14. SlidInv'
  BY <1>1, <1>2 DEF SlidInv
<1> QED
  BY <1>10, <1>12, <1>13, <1>14 DEF ListingInv

LEMMA FailStep ==
  ASSUME ListingInv, ListFails \/ InfoFails
  PROVE  ListingInv'
<1>1. /\ phase' = "failed"
      /\ UNCHANGED <<side, sendsMore, tree, dir, page, items, stack, seen, past>>
  BY DEF ListFails, InfoFails
<1>2. WalkInv'
  BY <1>1 DEF ListingInv, WalkInv, past
<1>3. SeenInv'
  BY <1>1 DEF ListingInv, SeenInv, Listed, Opened, Hidden, past
<1>4. CoveredInv' /\ SlidInv'
  BY <1>1 DEF ListingInv, CoveredInv, SlidInv, past
<1> QED
  BY <1>2, <1>3, <1>4 DEF ListingInv

LEMMA LoopEndsStep ==
  ASSUME ListingInv, LoopEnds
  PROVE  ListingInv'
<1>1. WalkInv /\ SeenInv /\ CoveredInv /\ SlidInv
  BY DEF ListingInv
<1>2. /\ phase = "visit" /\ stack # << >> /\ Head(stack) = << >> /\ stack' = Tail(stack)
      /\ phase' = IF Tail(stack) = << >> THEN "done" ELSE "visit"
      /\ UNCHANGED <<side, sendsMore, tree, dir, page, items, seen, past>>
  BY DEF LoopEnds
<1>3. stack \in Seq(Seq(ever))
  BY <1>1 DEF WalkInv
<1>4. stack' \in Seq(Seq(ever)) /\ \A e : On(stack', e) <=> On(stack, e)
  <2>1. \A e : ~Has(<< >>, e)
    BY DEF Has
  <2> QED
    BY <1>2, <1>3, <2>1, OnHead
<1>5. WalkInv'
  BY <1>1, <1>2, <1>4 DEF WalkInv, past
<1>6. \A e : (Listed(e)' <=> On(stack', e)) /\ (Listed(e) <=> On(stack, e))
  BY DEF Listed, On, Has
<1>7. SeenInv'
  <2>1. \A e : Listed(e)' <=> Listed(e)
    BY <1>4, <1>6
  <2>2. Hidden' = Hidden /\ \A d : Opened(d)' <=> Opened(d)
    BY <1>2 DEF Hidden, Opened, past
  <2> QED
    BY <1>1, <1>2, <2>1, <2>2 DEF SeenInv, past
<1>8. CoveredInv'
  <2>1. \A a \in always' : Pending(a) => Pending(a)'
    BY <1>2, <1>4, <1>6 DEF Pending
  <2>2. Whole(always)
    BY <1>1 DEF WalkInv
  <2> QED
    BY <1>1, <1>2, <2>1, <2>2, CoveredStep DEF past
<1>9. SlidInv'
  BY <1>1, <1>2 DEF SlidInv, past
<1> QED
  BY <1>5, <1>7, <1>8, <1>9 DEF ListingInv

\* An entry is seen when the walk comes to it, and what is below it is before the
\* walk from then on.
LEMMA VisitStep ==
  ASSUME ListingInv, Visit
  PROVE  ListingInv'
<1> DEFINE e        == Head(Head(stack))
           recorded == e \notin Parts
           entered  == e \in Dirs /\ (recorded \/ side = "local")
<1>1. WalkInv /\ SeenInv /\ CoveredInv /\ SlidInv
  BY DEF ListingInv
<1>2. /\ phase = "visit" /\ stack # << >> /\ Head(stack) # << >> /\ stack' = Rest
      /\ seen' = IF recorded THEN seen \union {e} ELSE seen
      /\ IF entered THEN phase' = "list" /\ dir' = e ELSE UNCHANGED <<phase, dir>>
      /\ UNCHANGED <<side, sendsMore, tree, page, items, past>>
  BY DEF Visit
<1>3. /\ stack \in Seq(Seq(ever)) /\ page = 1 /\ items = << >> /\ ever \subseteq Entries
      /\ tree \in SUBSET Entries /\ always \subseteq tree /\ Whole(always)
  BY <1>1, <1>2 DEF WalkInv
<1>4. /\ Head(stack) \in Seq(ever) /\ Tail(stack) \in Seq(Seq(ever))
      /\ \A a : On(stack, a) <=> Has(Head(stack), a) \/ On(Tail(stack), a)
  BY <1>2, <1>3, OnHead
<1>5. /\ e \in ever /\ Tail(Head(stack)) \in Seq(ever)
      /\ \A a : Has(Head(stack), a) <=> a = e \/ Has(Tail(Head(stack)), a)
  BY <1>2, <1>4, HeadTailProperties, HasHead
<1>6. /\ stack' \in Seq(Seq(ever))
      /\ \A a : On(stack', a) <=> Has(Tail(Head(stack)), a) \/ On(Tail(stack), a)
  BY <1>2, <1>4, <1>5, OnPush DEF Rest
<1> HIDE DEF e
<1>7. \A a : On(stack, a) <=> a = e \/ On(stack', a)
  BY <1>4, <1>5, <1>6
<1>8. \A a : (Listed(a)' <=> On(stack', a)) /\ (Listed(a) <=> On(stack, a))
  BY DEF Listed, On, Has
<1>9. WalkInv'
  BY <1>1, <1>2, <1>3, <1>5, <1>6 DEF WalkInv, past
<1>10. SeenInv'
  <2>1. Hidden' = Hidden /\ ever' = ever /\ side' = side
    BY <1>2 DEF Hidden, past
  <2>2. Opened(ParentOf[e])
    BY <1>1, <1>5, <1>7, <1>8 DEF SeenInv
  <2>3. \A d : Opened(d) => Opened(d)'
    BY <1>2 DEF Opened, past
  <2>4. recorded => e \notin Hidden
    <3> SUFFICES ASSUME recorded, side = "remote" PROVE Ancestors[e] \intersect Parts = {}
      BY DEF Hidden
    <3>1. ParentOf[e] # Root => ParentOf[e] \in seen /\ ParentOf[e] \notin Hidden
      BY <1>1, <2>2 DEF Opened, SeenInv
    <3>2. e \in Entries
      BY <1>3, <1>5
    <3>3. ParentOf[e] # Root => Ancestors[ParentOf[e]] \intersect Parts = {}
      BY <3>1, <3>2, AncestorsUnfold DEF Hidden
    <3> QED
      BY <3>2, <3>3, AncestorsUnfold
  <2>5. seen' \subseteq ever \ Hidden
    BY <1>1, <1>2, <1>5, <2>4 DEF SeenInv
  <2>6. \A a \in ever : a \in seen' \/ On(stack', a) => Opened(ParentOf[a])
    BY <1>1, <1>2, <1>7, <1>8, <2>2 DEF SeenInv
  <2>7. phase' = "list" => Opened(dir)'
    BY <1>2 DEF Opened
  <2>8. \A i \in DOMAIN items' : ParentOf[items'[i]] = dir'
    BY <1>2, <1>3
  <2> QED
    BY <1>8, <2>1, <2>3, <2>5, <2>6, <2>7, <2>8 DEF SeenInv
<1>11. CoveredInv'
  <2> SUFFICES ASSUME NEW x \in always \ Hidden, x \notin seen'
               PROVE  \E a \in Ancestors[x] : a \in shifted \union cut \/ Pending(a)'
    BY <1>2 DEF CoveredInv, Hidden, past
  <2>1. x \in Entries /\ x \notin seen /\ phase # "failed"
    BY <1>2, <1>3
  <2>2. PICK a \in Ancestors[x] : a \in shifted \union cut \/ Pending(a)
    BY <1>1, <2>1 DEF CoveredInv
  <2>3. CASE a \in shifted \union cut
    BY <2>3
  <2>4. CASE On(stack', a)
    BY <1>8, <2>4 DEF Pending
  <2>5. CASE a \notin shifted \union cut /\ ~On(stack', a)
    <3>1. a = e
      BY <1>2, <1>7, <1>8, <2>2, <2>5 DEF Pending
    <3>2. a # x
      <4>1. x \notin Parts
        <5>1. side = "remote" => x \in Ancestors[x] /\ Ancestors[x] \intersect Parts = {}
          BY <2>1, AncestorsUnfold DEF Hidden
        <5> QED
          BY <5>1 DEF Hidden
      <4> QED
        BY <1>2, <3>1, <4>1
    <3>3. PICK b \in Ancestors[x] : ParentOf[b] = e
      BY <2>1, <3>1, <3>2, NextOnTheWay
    <3>4. e \in Dirs
      <4>1. b \in Entries /\ e # Root
        BY <2>1, <3>1, <3>3, AncestorsUnfold, EntriesAssumption
      <4> QED
        BY <3>3, <4>1, EntriesAssumption
    <3>5. recorded \/ side = "local"
      <4>1. side = "remote" => Ancestors[x] \intersect Parts = {}
        BY <2>1 DEF Hidden
      <4> QED
        BY <1>1, <3>1, <4>1 DEF WalkInv
    <3>6. phase' = "list" /\ dir' = e /\ page' = 1 /\ tree' = tree
      BY <1>2, <1>3, <3>4, <3>5
    <3>7. b \in Children(tree, e)
      BY <1>3, <3>3, WholeHasAncestors DEF Children
    <3>8. Place(tree, b) > 0
      BY <1>3, <3>7, PlaceBounds, ChildrenFinite
    <3>9. (page' - 1) * Per = 0
      BY <3>6, PagesAssumption
    <3>10. Pending(b)'
      BY <3>3, <3>6, <3>8, <3>9 DEF Pending
    <3> QED
      BY <3>3, <3>10
  <2> QED
    BY <2>3, <2>4, <2>5
<1>12. SlidInv'
  BY <1>1, <1>2 DEF SlidInv, past
<1> QED
  BY <1>9, <1>10, <1>11, <1>12 DEF ListingInv

-----------------------------------------------------------------------------
(* What users change meanwhile. *)

\* Among what a change leaves in place, nothing but what slid is passed by.
LEMMA ChangeCovers ==
  ASSUME WalkInv, NEW new \in SUBSET Entries, Change(new),
         NEW a \in tree \intersect new, Pending(a)
  PROVE  a \in shifted' \/ Pending(a)'
<1>1. /\ UNCHANGED <<phase, dir, page, items, stack, side>> /\ tree' = new
      /\ shifted' = shifted \union Slid(tree, new)
  BY DEF Change, scan
<1>2. CASE Listed(a)
  BY <1>1, <1>2 DEF Pending, Listed
<1>3. CASE phase = "list" /\ ParentOf[a] = dir /\ \E j \in DOMAIN items : items[j] = a
  BY <1>1, <1>3 DEF Pending
<1>4. CASE phase = "list" /\ ParentOf[a] = dir /\ Place(tree, a) > (page - 1) * Per
  <2>1. a \in Children(tree \intersect new, dir) /\ a \in Children(new, dir)
    BY <1>4 DEF Children
  <2>2. Place(new, a) \in 1..Cardinality(Children(new, dir))
    BY <2>1, PlaceBounds
  <2>3. Place(new, a) \in Nat \ {0} /\ (page - 1) * Per \in Nat
    BY <2>2, ChildrenFinite, PagesAssumption DEF WalkInv
  <2>4. CASE Place(new, a) > (page - 1) * Per
    BY <1>1, <1>4, <2>4 DEF Pending
  <2>5. CASE Place(new, a) <= (page - 1) * Per
    <3>1. side = "remote"
      <4>1. side = "local" => (page - 1) * Per = 0
        BY PagesAssumption DEF WalkInv
      <4> QED
        BY <2>3, <2>5, <4>1 DEF WalkInv
    <3> QED
      BY <1>1, <1>4, <2>1, <2>5, <3>1 DEF Slid
  <2> QED
    BY <2>3, <2>4, <2>5
<1> QED
  BY <1>2, <1>3, <1>4 DEF Pending

\* A deletion slides at most one entry, a creation none.
LEMMA DeletionSlides ==
  ASSUME WalkInv, NEW x \in tree
  PROVE  /\ IsFiniteSet(Slid(tree, tree \ Below(x)))
         /\ Cardinality(Slid(tree, tree \ Below(x))) \in {0, 1}
<1> DEFINE new  == tree \ Below(x)
           slid == Slid(tree, new)
           K    == (page - 1) * Per
<1>1. tree \in SUBSET Entries /\ K \in Nat
  BY PagesAssumption DEF WalkInv
<1>2. ASSUME NEW e \in slid PROVE e \in Children(tree, dir) /\ Place(tree, e) = K + 1
  <2>1. /\ e \in Children(tree, dir) /\ e \in Children(new, dir)
        /\ Place(tree, e) > K /\ Place(new, e) <= K
    BY <1>2 DEF Slid, Children
  <2>2. Place(tree, e) <= Place(new, e) + 1
    BY <1>1, <2>1, DeletionSlidesByOne
  <2>3. Place(tree, e) \in Nat /\ Place(new, e) \in Nat
    <3>1. new \in SUBSET Entries
      BY <1>1
    <3>2. /\ Place(tree, e) \in 1..Cardinality(Children(tree, dir))
          /\ Place(new, e) \in 1..Cardinality(Children(new, dir))
      BY <1>1, <2>1, <3>1, PlaceBounds
    <3>3. Cardinality(Children(tree, dir)) \in Nat /\ Cardinality(Children(new, dir)) \in Nat
      BY <1>1, <3>1, ChildrenFinite
    <3> HIDE DEF new
    <3> QED
      BY <3>2, <3>3
  <2> HIDE DEF K, new
  <2> QED
    BY <1>1, <2>1, <2>2, <2>3
<1> HIDE DEF slid, K
<1>3. \A e, f \in slid : e = f
  BY <1>1, <1>2, PlaceOnce
<1>4. slid = {} \/ \E e : slid = {e}
  BY <1>3
<1> QED
  BY <1>4, FS_EmptySet, FS_Singleton DEF slid

LEMMA CreationSlides ==
  ASSUME WalkInv, NEW x \in Entries
  PROVE  Slid(tree, tree \union {x}) = {}
<1> DEFINE new == tree \union {x}
<1>1. tree \in SUBSET Entries /\ new \in SUBSET Entries /\ (page - 1) * Per \in Nat
  BY PagesAssumption DEF WalkInv
<1>2. ASSUME NEW e \in Slid(tree, new) PROVE FALSE
  <2>1. /\ e \in Children(tree, dir) /\ e \in Children(new, dir)
        /\ Place(tree, e) > (page - 1) * Per /\ Place(new, e) <= (page - 1) * Per
    BY <1>2 DEF Slid, Children
  <2>2. Place(tree, e) <= Place(new, e)
    BY <1>1, <2>1, CreationSlidesNone
  <2>3. Place(tree, e) \in Int /\ Place(new, e) \in Int
    <3>1. /\ Place(tree, e) \in 1..Cardinality(Children(tree, dir))
          /\ Place(new, e) \in 1..Cardinality(Children(new, dir))
      BY <1>1, <2>1, PlaceBounds
    <3>2. Cardinality(Children(tree, dir)) \in Nat /\ Cardinality(Children(new, dir)) \in Nat
      BY <1>1, ChildrenFinite
    <3> HIDE DEF new
    <3> QED
      BY <3>1, <3>2
  <2> QED
    BY <1>1, <2>1, <2>2, <2>3
<1> QED
  BY <1>2

LEMMA WholeWithoutBelow ==
  ASSUME NEW t \in SUBSET Entries, Whole(t), NEW x
  PROVE  Whole(t \ Below(x))
<1> SUFFICES ASSUME NEW e \in t \ Below(x), ParentOf[e] # Root, ParentOf[e] \in Below(x)
             PROVE  FALSE
  BY DEF Whole
<1>1. e \in Entries /\ x \in Ancestors[ParentOf[e]]
  BY DEF Below
<1>2. x \in Ancestors[e]
  BY <1>1, AncestorsUnfold
<1> QED
  BY <1>1, <1>2 DEF Below

\* What the walk has is as it was; what it is yet to be given may not be.
LEMMA ChangeStep ==
  ASSUME ListingInv, NEW new \in SUBSET Entries, Change(new), Whole(new),
         phase \in {"list", "visit"}, ever \subseteq ever', new \subseteq ever',
         ever' \subseteq Entries, always' \subseteq always, always' \subseteq new, Whole(always')
  PROVE  WalkInv' /\ SeenInv' /\ CoveredInv'
<1>1. WalkInv /\ SeenInv /\ CoveredInv
  BY DEF ListingInv
<1>2. /\ UNCHANGED <<side, sendsMore, phase, dir, page, items, stack, seen, cut>> /\ tree' = new
      /\ shifted \subseteq shifted'
  BY DEF Change, scan
<1>3. items \in Seq(ever') /\ stack \in Seq(Seq(ever'))
  <2>1. items \in Seq(ever) /\ stack \in Seq(Seq(ever))
    BY <1>1 DEF WalkInv
  <2>2. Seq(ever) \subseteq Seq(ever')
    BY SeqMonotonic
  <2> QED
    BY <2>1, <2>2, SeqMonotonic
<1>4. WalkInv'
  BY <1>1, <1>2, <1>3 DEF WalkInv
<1>5. SeenInv'
  <2>1. Hidden' = Hidden /\ (\A d : Opened(d)' <=> Opened(d)) /\ \A e : Listed(e)' <=> Listed(e)
    BY <1>2 DEF Hidden, Opened, Listed
  <2>2. ASSUME NEW e \in ever', e \in seen \/ Listed(e) PROVE e \in ever
    <3>1. stack \in Seq(Seq(ever)) /\ seen \subseteq ever
      BY <1>1 DEF WalkInv, SeenInv
    <3>2. \A i \in DOMAIN stack : stack[i] \in Seq(ever)
      BY <3>1, LenProperties, ElementOfSeq
    <3>3. \A i \in DOMAIN stack : \A j \in DOMAIN stack[i] : stack[i][j] \in ever
      BY <3>2, LenProperties, ElementOfSeq
    <3> QED
      BY <2>2, <3>1, <3>3 DEF Listed
  <2> QED
    BY <1>1, <1>2, <2>1, <2>2 DEF SeenInv
<1>6. CoveredInv'
  <2>1. \A a \in always' : a \in tree \intersect new
    BY <1>1 DEF WalkInv
  <2>2. \A a \in always' : Pending(a) => a \in shifted' \union cut' \/ Pending(a)'
    BY <1>1, <2>1, ChangeCovers
  <2> QED
    BY <1>1, <1>2, <2>2, CoveredStep
<1> QED
  BY <1>4, <1>5, <1>6

LEMMA CreateStep ==
  ASSUME ListingInv, NEW x \in Entries, Create(x)
  PROVE  ListingInv'
<1> DEFINE new == tree \union {x}
<1>1. /\ Change(new) /\ Exists(ParentOf[x]) /\ phase \in {"list", "visit"}
      /\ ever' = ever \union {x} /\ always' = always /\ deletions' = deletions
  BY DEF Create, Scanning
<1>2. WalkInv /\ SlidInv
  BY DEF ListingInv
<1>3. new \in SUBSET Entries /\ Whole(new)
  BY <1>1, <1>2 DEF WalkInv, Whole, Exists
<1>4. WalkInv' /\ SeenInv' /\ CoveredInv'
  <2>1. /\ ever \subseteq ever' /\ new \subseteq ever' /\ ever' \subseteq Entries
        /\ always' \subseteq always /\ always' \subseteq new /\ Whole(always')
    BY <1>1, <1>2 DEF WalkInv
  <2> HIDE DEF new
  <2> QED
    BY <1>1, <1>3, <2>1, ChangeStep
<1>5. SlidInv'
  <2>1. shifted' = shifted
    BY <1>1, <1>2, CreationSlides DEF Change
  <2> QED
    BY <1>1, <1>2, <2>1 DEF SlidInv
<1> QED
  BY <1>4, <1>5 DEF ListingInv

LEMMA DeleteStep ==
  ASSUME ListingInv, NEW x \in Entries, Delete(x)
  PROVE  ListingInv'
<1> DEFINE new == tree \ Below(x)
<1>1. /\ Change(new) /\ x \in tree /\ phase \in {"list", "visit"}
      /\ ever' = ever /\ always' = always \ Below(x) /\ deletions' = deletions + 1
  BY DEF Delete, Scanning
<1>2. WalkInv /\ SlidInv
  BY DEF ListingInv
<1>3. new \in SUBSET Entries /\ Whole(new) /\ Whole(always')
  BY <1>1, <1>2, WholeWithoutBelow DEF WalkInv
<1>4. WalkInv' /\ SeenInv' /\ CoveredInv'
  <2>1. /\ ever \subseteq ever' /\ new \subseteq ever' /\ ever' \subseteq Entries
        /\ always' \subseteq always /\ always' \subseteq new
    BY <1>1, <1>2 DEF WalkInv
  <2> HIDE DEF new
  <2> QED
    BY <1>1, <1>3, <2>1, ChangeStep
<1>5. SlidInv'
  <2> DEFINE slid == Slid(tree, new)
  <2>1. IsFiniteSet(slid) /\ Cardinality(slid) \in {0, 1}
    BY <1>1, <1>2, DeletionSlides
  <2>2. shifted' = shifted \union slid
    BY <1>1 DEF Change
  <2> HIDE DEF slid
  <2>3. /\ IsFiniteSet(shifted) /\ deletions \in Nat /\ Cardinality(shifted) <= deletions
        /\ Cardinality(shifted) \in Nat
    BY <1>2, FS_CardinalityType DEF SlidInv
  <2>4. /\ IsFiniteSet(shifted') /\ Cardinality(shifted \intersect slid) \in Nat
        /\ Cardinality(shifted')
             = Cardinality(shifted) + Cardinality(slid) - Cardinality(shifted \intersect slid)
    BY <2>1, <2>2, <2>3, FS_Union, FS_Intersection, FS_CardinalityType
  <2> QED
    BY <1>1, <2>1, <2>3, <2>4 DEF SlidInv
<1> QED
  BY <1>4, <1>5 DEF ListingInv

(* The invariant of the walk: whatever users do while pages are read.      *)
THEOREM ListingInvariance == ListingSpec => []ListingInv
<1>1. ListingInv /\ [ListingNext]_listingVars => ListingInv'
  <2> SUFFICES ASSUME ListingInv, [ListingNext]_listingVars PROVE ListingInv'
    OBVIOUS
  <2>1. CASE UNCHANGED listingVars
    <3>1. WalkInv' /\ SlidInv'
      BY <2>1 DEF ListingInv, WalkInv, SlidInv, listingVars, scan, past
    <3>2. SeenInv'
      BY <2>1 DEF ListingInv, SeenInv, Opened, Listed, Hidden, listingVars, scan, past
    <3>3. CoveredInv'
      BY <2>1 DEF ListingInv, CoveredInv, Pending, Listed, Hidden, listingVars, scan, past
    <3> QED
      BY <3>1, <3>2, <3>3 DEF ListingInv
  <2>2. CASE Scan
    BY <2>2, ListPageStep, FailStep, VisitStep, LoopEndsStep DEF Scan
  <2>3. CASE \E e \in Entries : Create(e) \/ Delete(e)
    BY <2>3, CreateStep, DeleteStep
  <2> QED
    BY <2>1, <2>2, <2>3 DEF ListingNext, Ended
<1> QED
  BY <1>1, InitHolds, PTL DEF ListingSpec

(* A scan that succeeds is between what was there all the time and what    *)
(* ever was, but for what slid - one entry a deletion - or was not offered. *)
THEOREM ScanHolds == ListingSpec => []ScanIsBetween
<1>1. ListingInv => ScanIsBetween
  <2> SUFFICES ASSUME ListingInv PROVE ScanIsBetween
    OBVIOUS
  <2>1. WalkInv /\ SeenInv /\ CoveredInv /\ SlidInv
    BY DEF ListingInv
  <2>2. ASSUME phase = "done", NEW e \in always \ Hidden
        PROVE  e \in seen \/ Ancestors[e] \intersect (shifted \union cut) # {}
    <3>1. \A a : ~Pending(a)
      BY <2>1, <2>2 DEF WalkInv, Pending, Listed
    <3> QED
      BY <2>1, <2>2, <3>1 DEF CoveredInv
  <2>3. seen \subseteq ever \ Hidden
    BY <2>1 DEF SeenInv
  <2>4. side = "remote" => \A e \in seen : ParentOf[e] \in seen \union {Root}
    BY <2>1 DEF SeenInv, Opened
  <2> QED
    BY <2>1, <2>2, <2>3, <2>4 DEF ScanIsBetween, SlidInv
<1> QED
  BY <1>1, ListingInvariance, PTL

-----------------------------------------------------------------------------
(* The token. *)

USE BoundsAssumption, NoOneAssumption DEF NoToken, Tokens, NoOuter

LEMMA NoCallType == NoCall \in Calls /\ NoCall.ensures = 0
  BY DEF NoCall, Attempt, Calls, Ops

(* The invariant holds initially: no one is at work. *)
LEMMA InitInv == Init => Inv /\ AnonymousOnlyIfDiscarded
<1> SUFFICES ASSUME Init PROVE Inv /\ AnonymousOnlyIfDiscarded
  OBVIOUS
<1>1. canLogin \in BOOLEAN /\ torn \in BOOLEAN /\ died \in BOOLEAN
  BY Zenon DEF Init
<1>2. TypeOK
  BY <1>1, NoCallType DEF Init, TypeOK
<1>3. LockInv /\ LoginInv /\ NewerInv /\ HeaderInv
  BY DEF Init, LockInv, LoginInv, NewerInv, HeaderInv
<1>4. RetriesWithAnother /\ AnonymousOnlyIfDiscarded
  BY DEF Init, RetriesWithAnother, AnonymousOnlyIfDiscarded
<1> QED
  BY <1>2, <1>3, <1>4 DEF Inv

(* The Boolean variables keep their type. *)
LEMMA BooleanStep ==
  TypeOK /\ Next => canLogin' \in BOOLEAN /\ torn' \in BOOLEAN /\ died' \in BOOLEAN
<1> SUFFICES ASSUME TypeOK, Next
             PROVE  canLogin' \in BOOLEAN /\ torn' \in BOOLEAN /\ died' \in BOOLEAN
  OBVIOUS
<1> USE DEF TypeOK, cell
<1>1. CASE Expire
  BY <1>1, Zenon DEF Expire
<1>2. ASSUME NEW g \in Callers, Begin(g) \/ Step(g)
      PROVE  canLogin' \in BOOLEAN /\ torn' \in BOOLEAN /\ died' \in BOOLEAN
  BY <1>2, Zenon DEF Begin, Step, EnsureAuth, TakeLock, Login, LoginFails, Tear,
     ReadHeader, Serve, ServeFails, LockToWipe, Wipe, AskSign, UseSign, End
<1> QED
  BY <1>1, <1>2, Zenon DEF Next

(* What the parts of a step do to a call's record, label and histories. *)
Sound(g) ==
  /\ pc' \in [Callers -> {"idle", "ensure", "wantLogin", "login", "header",
                          "sent", "answered", "wipe"}]
  /\ call' \in [Callers -> Calls]
  /\ \A h \in Callers \ {g} : pc'[h] = pc[h] /\ call'[h] = call[h]
  /\ pc'[g] \in {"ensure", "wantLogin", "login"} => call'[g].ensures > 0

LEMMA PassedSound ==
  ASSUME NEW g \in Callers, TypeOK, pc[g] \in {"ensure", "wantLogin", "login"},
         Passed(g, call[g].ensures)
  PROVE  Sound(g) /\ discarded' = discarded \ {g} /\ UNCHANGED <<sent, refused>>
         /\ pc'[g] \in {"ensure", "header"}
  BY DEF TypeOK, Passed, Goto, Set, Calls, Sound

LEMMA ReturnSound ==
  ASSUME NEW g \in Callers, TypeOK, Return(g)
  PROVE  Sound(g) /\ discarded' = discarded \ {g} /\ pc'[g] = "idle"
         /\ sent' = [sent EXCEPT ![g] = NoToken]
         /\ refused' = [refused EXCEPT ![g] = NoToken]
  BY NoCallType DEF TypeOK, Return, Forget, Goto, Set, Sound

LEMMA WaitSound ==
  ASSUME NEW g \in Callers, TypeOK, pc[g] = "ensure", Wait(g)
  PROVE  Sound(g) /\ pc'[g] = "wantLogin" /\ UNCHANGED <<sent, refused, discarded>>
  BY DEF TypeOK, Wait, Goto, Sound, hist

(* A new record of the right type is a sound step. *)
LEMMA SetSound ==
  ASSUME NEW g \in Callers, NEW c \in Calls, NEW label, TypeOK,
         Set(g, c), Goto(g, label),
         label \in {"idle", "ensure", "wantLogin", "login", "header",
                    "sent", "answered", "wipe"},
         label \in {"ensure", "wantLogin", "login"} => c.ensures > 0
  PROVE  Sound(g)
  BY DEF TypeOK, Set, Goto, Sound

(* Every step of a caller is sound in this sense. *)
LEMMA StepSound ==
  ASSUME NEW g \in Callers, TypeOK, Begin(g) \/ Step(g)
  PROVE  Sound(g)
<1>1. CASE Begin(g)
  <2>1. PICK op \in Ops, sign \in {"fresh", "stale"} :
          /\ Set(g, Attempt(op, 0, NoOuter, IF op = "put" THEN 0 ELSE 1, sign))
          /\ Goto(g, IF op = "put" THEN "header" ELSE "ensure")
    BY <1>1 DEF Begin
  <2> DEFINE c == Attempt(op, 0, NoOuter, IF op = "put" THEN 0 ELSE 1, sign)
             label == IF op = "put" THEN "header" ELSE "ensure"
  <2>2. c \in Calls /\ (op # "put" => c.ensures = 1)
    BY DEF NoCall, Attempt, Calls, Ops
  <2>3. label = "header" \/ (label = "ensure" /\ op # "put")
    OBVIOUS
  <2>4. Set(g, c) /\ Goto(g, label)
    BY <2>1
  <2> HIDE DEF c, label
  <2> QED
    BY <2>2, <2>3, <2>4, SetSound
<1>2. CASE EnsureAuth(g)
  BY <1>2, PassedSound, ReturnSound, WaitSound DEF EnsureAuth
<1>3. CASE TakeLock(g)
  <2>1. CASE token # NoToken
    BY <1>3, <2>1, PassedSound DEF TakeLock
  <2>2. CASE token = NoToken
    BY <1>3, <2>2 DEF TakeLock, TypeOK, Goto, Sound
  <2> QED
    BY <2>1, <2>2
<1>4. CASE Login(g)
  BY <1>4, PassedSound DEF Login
<1>5. CASE LoginFails(g) \/ ServeFails(g) \/ End(g)
  BY <1>5, ReturnSound DEF LoginFails, ServeFails, End
<1>6. CASE Tear(g)
  BY <1>6 DEF Tear, TypeOK, Sound
<1>7. CASE ReadHeader(g)
  BY <1>7 DEF ReadHeader, TypeOK, Sound, Goto
<1>8. CASE Serve(g)
  BY <1>8 DEF Serve, TypeOK, Sound, Goto, Set, Calls
<1>9. CASE LockToWipe(g)
  BY <1>9 DEF LockToWipe, TypeOK, Sound, Goto
<1>10. CASE Wipe(g)
  <2> DEFINE c == Attempt(call[g].op, 1, call[g].outer,
                          IF call[g].op = "get" THEN 2 ELSE 1, call[g].sign)
  <2>1. c \in Calls /\ c.ensures > 0
    BY DEF TypeOK, Calls, Attempt
  <2>2. Set(g, c) /\ Goto(g, "ensure")
    BY <1>10 DEF Wipe, Retry
  <2> HIDE DEF c
  <2> QED
    BY <2>1, <2>2, SetSound
<1>11. CASE AskSign(g)
  <2> DEFINE c == Attempt("json", 0, call[g].attempt, 1, "fresh")
  <2>1. call[g].attempt \in 0..2
    BY <1>11 DEF AskSign, AsksForSign, TypeOK, Calls
  <2>2. c \in Calls /\ c.ensures > 0
    BY <2>1 DEF Calls, Attempt, Ops
  <2>3. Set(g, c) /\ Goto(g, "ensure")
    BY <1>11 DEF AskSign
  <2> HIDE DEF c
  <2> QED
    BY <2>2, <2>3, SetSound
<1>12. CASE UseSign(g)
  <2>1. PICK sign \in {"fresh", "stale"} :
          Set(g, Attempt("get", call[g].outer + 1, NoOuter, 1, sign))
    BY <1>12 DEF UseSign
  <2> DEFINE c == Attempt("get", call[g].outer + 1, NoOuter, 1, sign)
  <2>2. call[g].outer \in 0..2
    BY <1>12 DEF UseSign, TypeOK, Calls
  <2>3. c \in Calls /\ c.ensures > 0
    BY <2>2 DEF Calls, Attempt, Ops
  <2>4. Set(g, c) /\ Goto(g, "ensure")
    BY <1>12, <2>1 DEF UseSign
  <2> HIDE DEF c
  <2> QED
    BY <2>3, <2>4, SetSound
<1> QED
  BY <1>1, <1>2, <1>3, <1>4, <1>5, <1>6, <1>7, <1>8, <1>9, <1>10, <1>11, <1>12 DEF Step

(* The parts of the invariant that relate the callers to the token. *)
Good == /\ LockInv /\ LoginInv /\ NewerInv /\ HeaderInv
        /\ RetriesWithAnother /\ AnonymousOnlyIfDiscarded

LEMMA BeginGood ==
  ASSUME NEW g \in Callers, TypeOK, Good, Begin(g)
  PROVE  Good'
<1> USE DEF Good
<1>1. Sound(g) /\ UNCHANGED <<token, torn, lock, issued, sent, refused, discarded>>
  BY StepSound DEF Begin, cell, net, hist
<1>2. pc[g] = "idle" /\ \/ pc'[g] = "ensure"
                        \/ pc'[g] = "header" /\ call'[g].op = "put"
  <2>1. PICK op \in Ops, sign \in {"fresh", "stale"} :
          /\ Set(g, Attempt(op, 0, NoOuter, IF op = "put" THEN 0 ELSE 1, sign))
          /\ Goto(g, IF op = "put" THEN "header" ELSE "ensure")
    BY DEF Begin
  <2> QED
    BY <2>1 DEF Begin, Set, Goto, Attempt, TypeOK
<1>3. LockInv'
  BY <1>1, <1>2 DEF LockInv, Sound
<1>4. (LoginInv /\ NewerInv)'
  BY <1>1, <1>2 DEF LoginInv, NewerInv, Sound
<1>5. (HeaderInv /\ RetriesWithAnother /\ AnonymousOnlyIfDiscarded)'
  BY <1>1, <1>2 DEF HeaderInv, RetriesWithAnother, AnonymousOnlyIfDiscarded, Sound
<1> QED
  BY <1>3, <1>4, <1>5

(* A caller that passes ensureAuth has seen a token, or one being written. *)
LEMMA PassedGood ==
  ASSUME NEW g \in Callers, TypeOK, Good, Sound(g),
         pc[g] \in {"ensure", "wantLogin"}, pc'[g] \in {"ensure", "header"},
         token # NoToken \/ torn,
         UNCHANGED <<token, torn, lock, issued, sent, refused>>,
         discarded' = discarded \ {g}
  PROVE  Good'
<1> USE DEF Good, Sound
<1>1. LockInv'
  BY DEF LockInv
<1>2. (LoginInv /\ NewerInv)'
  BY DEF LoginInv, NewerInv
<1>3. (HeaderInv /\ RetriesWithAnother /\ AnonymousOnlyIfDiscarded)'
  BY DEF HeaderInv, RetriesWithAnother, AnonymousOnlyIfDiscarded
<1> QED
  BY <1>1, <1>2, <1>3

(* A call that returns leaves the rest as it was, and gives the lock back. *)
LEMMA ReturnGood ==
  ASSUME NEW g \in Callers, TypeOK, Good, Sound(g), pc'[g] = "idle",
         UNCHANGED <<token, torn, issued>>, discarded' = discarded \ {g},
         sent' = [sent EXCEPT ![g] = NoToken],
         refused' = [refused EXCEPT ![g] = NoToken],
         \/ pc[g] = "login" /\ lock' = NoOne /\ ~torn
         \/ pc[g] \notin {"login", "wipe"} /\ lock' = lock
  PROVE  Good'
<1> USE DEF Good, Sound
<1>1. LockInv'
  BY DEF LockInv
<1>2. (LoginInv /\ NewerInv)'
  BY DEF LoginInv, NewerInv, TypeOK
<1>3. (HeaderInv /\ RetriesWithAnother /\ AnonymousOnlyIfDiscarded)'
  BY DEF HeaderInv, RetriesWithAnother, AnonymousOnlyIfDiscarded, TypeOK
<1> QED
  BY <1>1, <1>2, <1>3

LEMMA EnsureAuthGood ==
  ASSUME NEW g \in Callers, TypeOK, Good, EnsureAuth(g)
  PROVE  Good'
<1>1. Sound(g) /\ pc[g] = "ensure" /\ UNCHANGED <<token, torn, lock, issued>>
  BY StepSound DEF Step, EnsureAuth, cell, net
<1>2. CASE (token # NoToken \/ torn) /\ Passed(g, call[g].ensures)
  BY <1>1, <1>2, PassedSound, PassedGood
<1>3. CASE Return(g)
  BY <1>1, <1>3, ReturnSound, ReturnGood
<1>4. CASE Wait(g)
  <2>1. pc'[g] = "wantLogin" /\ UNCHANGED <<sent, refused, discarded>>
    BY <1>1, <1>4, WaitSound
  <2> USE DEF Good, Sound
  <2>2. LockInv'
    BY <1>1, <2>1 DEF LockInv
  <2>3. (LoginInv /\ NewerInv)'
    BY <1>1, <2>1 DEF LoginInv, NewerInv
  <2>4. (HeaderInv /\ RetriesWithAnother /\ AnonymousOnlyIfDiscarded)'
    BY <1>1, <2>1 DEF HeaderInv, RetriesWithAnother, AnonymousOnlyIfDiscarded
  <2> QED
    BY <2>2, <2>3, <2>4 DEF Good
<1> QED
  BY <1>2, <1>3, <1>4 DEF EnsureAuth

LEMMA TakeLockGood ==
  ASSUME NEW g \in Callers, TypeOK, Good, TakeLock(g)
  PROVE  Good'
<1>1. Sound(g) /\ pc[g] = "wantLogin" /\ lock = NoOne /\ UNCHANGED <<token, torn, issued>>
  BY StepSound DEF Step, TakeLock, net
<1>2. CASE token # NoToken
  <2>1. Passed(g, call[g].ensures) /\ lock' = lock
    BY <1>2 DEF TakeLock
  <2> QED
    BY <1>1, <1>2, <2>1, PassedSound, PassedGood
<1>3. CASE token = NoToken
  <2>1. pc'[g] = "login" /\ lock' = g /\ UNCHANGED <<sent, refused, discarded>>
    BY <1>1, <1>3 DEF TakeLock, Goto, hist, TypeOK
  <2> USE DEF Good, Sound
  <2>2. LockInv'
    BY <1>1, <2>1 DEF LockInv
  <2>3. (LoginInv /\ NewerInv)'
    BY <1>1, <1>3, <2>1 DEF LoginInv, NewerInv
  <2>4. (HeaderInv /\ RetriesWithAnother /\ AnonymousOnlyIfDiscarded)'
    BY <1>1, <2>1 DEF HeaderInv, RetriesWithAnother, AnonymousOnlyIfDiscarded
  <2> QED
    BY <2>2, <2>3, <2>4 DEF Good
<1> QED
  BY <1>2, <1>3

LEMMA LoginGood ==
  ASSUME NEW g \in Callers, TypeOK, Good, Login(g)
  PROVE  Good'
<1>1. /\ Sound(g) /\ pc[g] = "login" /\ pc'[g] \in {"ensure", "header"}
      /\ issued' = issued + 1 /\ token' = issued + 1 /\ ~torn' /\ lock' = NoOne
      /\ discarded' = discarded \ {g} /\ UNCHANGED <<sent, refused>>
  BY StepSound, PassedSound DEF Step, Login
<1> USE DEF Good, Sound
<1>2. LockInv'
  BY <1>1 DEF LockInv
<1>3. \A h \in Callers : pc'[h] # "login"
  BY <1>1 DEF LockInv
<1>4. (LoginInv /\ NewerInv)'
  BY <1>1, <1>3 DEF LoginInv, NewerInv, TypeOK
<1>5. (HeaderInv /\ RetriesWithAnother /\ AnonymousOnlyIfDiscarded)'
  BY <1>1 DEF HeaderInv, RetriesWithAnother, AnonymousOnlyIfDiscarded, TypeOK
<1> QED
  BY <1>2, <1>4, <1>5

LEMMA TearGood ==
  ASSUME NEW g \in Callers, TypeOK, Good, Tear(g)
  PROVE  Good'
<1>1. /\ UNCHANGED <<token, lock, issued, pc, call, sent, refused, discarded>>
      /\ torn' /\ pc[g] \in {"login", "wipe"} /\ (pc[g] = "wipe" => token # NoToken)
  BY DEF Tear, net, hist
<1> USE DEF Good
<1>2. LockInv'
  BY <1>1 DEF LockInv
<1>3. (LoginInv /\ NewerInv)'
  BY <1>1 DEF LoginInv, NewerInv
<1>4. (HeaderInv /\ RetriesWithAnother /\ AnonymousOnlyIfDiscarded)'
  BY <1>1 DEF HeaderInv, RetriesWithAnother, AnonymousOnlyIfDiscarded
<1> QED
  BY <1>2, <1>3, <1>4

LEMMA ReadHeaderGood ==
  ASSUME NEW g \in Callers, TypeOK, Good, ReadHeader(g)
  PROVE  Good'
<1>1. /\ Sound(g) /\ pc[g] = "header" /\ call' = call
      /\ UNCHANGED <<token, torn, lock, issued, refused, discarded>>
      /\ \/ UNCHANGED <<pc, sent>>
         \/ pc'[g] = "sent" /\ sent' = [sent EXCEPT ![g] = token] /\ ~torn
  BY StepSound DEF Step, ReadHeader, cell, net, hist, Goto, TypeOK
<1> USE DEF Good, Sound
<1>2. LockInv'
  BY <1>1 DEF LockInv
<1>3. (LoginInv /\ NewerInv)'
  BY <1>1 DEF LoginInv, NewerInv, TypeOK
<1>4. (HeaderInv /\ RetriesWithAnother /\ AnonymousOnlyIfDiscarded)'
  BY <1>1 DEF HeaderInv, NewerInv, RetriesWithAnother, AnonymousOnlyIfDiscarded, TypeOK
<1> QED
  BY <1>2, <1>3, <1>4

LEMMA ServeGood ==
  ASSUME NEW g \in Callers, TypeOK, Good, Serve(g)
  PROVE  Good'
<1>1. /\ Sound(g) /\ pc[g] = "sent" /\ pc'[g] = "answered" /\ call'[g].op = call[g].op
      /\ UNCHANGED <<token, torn, lock, issued, sent, refused, discarded>>
  BY StepSound DEF Step, Serve, cell, net, hist, Goto, Set, TypeOK, Calls
<1> USE DEF Good, Sound
<1>2. LockInv'
  BY <1>1 DEF LockInv
<1>3. (LoginInv /\ NewerInv)'
  BY <1>1 DEF LoginInv, NewerInv
<1>4. (HeaderInv /\ RetriesWithAnother /\ AnonymousOnlyIfDiscarded)'
  BY <1>1 DEF HeaderInv, RetriesWithAnother, AnonymousOnlyIfDiscarded
<1> QED
  BY <1>2, <1>3, <1>4

LEMMA LockToWipeGood ==
  ASSUME NEW g \in Callers, TypeOK, Good, LockToWipe(g)
  PROVE  Good'
<1>1. /\ Sound(g) /\ pc[g] = "answered" /\ pc'[g] = "wipe" /\ call' = call
      /\ lock = NoOne /\ lock' = g
      /\ UNCHANGED <<token, torn, issued, sent, refused, discarded>>
  BY StepSound DEF Step, LockToWipe, net, hist, Goto, TypeOK
<1> USE DEF Good, Sound
<1>2. LockInv'
  BY <1>1 DEF LockInv
<1>3. (LoginInv /\ NewerInv)'
  BY <1>1 DEF LoginInv, NewerInv
<1>4. (HeaderInv /\ RetriesWithAnother /\ AnonymousOnlyIfDiscarded)'
  BY <1>1 DEF HeaderInv, RetriesWithAnother, AnonymousOnlyIfDiscarded
<1> QED
  BY <1>2, <1>3, <1>4

LEMMA WipeGood ==
  ASSUME NEW g \in Callers, TypeOK, Good, Wipe(g)
  PROVE  Good'
<1>1. /\ Sound(g) /\ pc[g] = "wipe" /\ pc'[g] = "ensure"
      /\ token' = NoToken /\ ~torn' /\ lock' = NoOne /\ issued' = issued
      /\ sent' = [sent EXCEPT ![g] = NoToken]
      /\ refused' = [refused EXCEPT ![g] = sent[g]]
      /\ discarded' = discarded \union {h \in Callers : pc[h] = "header"}
  BY StepSound DEF Step, Wipe, Retry, Forget, Goto, net, TypeOK
<1> USE DEF Good, Sound
<1>2. LockInv'
  BY <1>1 DEF LockInv
<1>3. (LoginInv /\ NewerInv)'
  BY <1>1 DEF LoginInv, NewerInv, LockInv, TypeOK
<1>4. (HeaderInv /\ RetriesWithAnother /\ AnonymousOnlyIfDiscarded)'
  BY <1>1 DEF HeaderInv, RetriesWithAnother, AnonymousOnlyIfDiscarded, TypeOK
<1> QED
  BY <1>2, <1>3, <1>4

LEMMA SignGood ==
  ASSUME NEW g \in Callers, TypeOK, Good, AskSign(g) \/ UseSign(g)
  PROVE  Good'
<1>1. /\ Sound(g) /\ pc[g] = "answered" /\ pc'[g] = "ensure"
      /\ UNCHANGED <<token, torn, lock, issued, refused, discarded>>
      /\ sent' = [sent EXCEPT ![g] = NoToken]
  BY StepSound DEF Step, AskSign, UseSign, Forget, cell, net, hist, Goto, TypeOK
<1> USE DEF Good, Sound
<1>2. LockInv'
  BY <1>1 DEF LockInv
<1>3. (LoginInv /\ NewerInv)'
  BY <1>1 DEF LoginInv, NewerInv, TypeOK
<1>4. (HeaderInv /\ RetriesWithAnother /\ AnonymousOnlyIfDiscarded)'
  BY <1>1 DEF HeaderInv, RetriesWithAnother, AnonymousOnlyIfDiscarded, TypeOK
<1> QED
  BY <1>2, <1>3, <1>4

LEMMA EndsGood ==
  ASSUME NEW g \in Callers, TypeOK, Good, LoginFails(g) \/ ServeFails(g) \/ End(g)
  PROVE  Good'
<1>1. Sound(g) /\ Return(g) /\ UNCHANGED <<token, torn, issued>>
  BY StepSound DEF Step, LoginFails, ServeFails, End, cell, net
<1>2. \/ pc[g] = "login" /\ lock' = NoOne /\ ~torn
      \/ pc[g] \notin {"login", "wipe"} /\ lock' = lock
  BY DEF LoginFails, ServeFails, End, cell
<1> QED
  BY <1>1, <1>2, ReturnSound, ReturnGood

(* The variables that Sound and BooleanStep do not speak of keep their type. *)
LEMMA TypeStep == TypeOK /\ Next => TypeOK'
<1> SUFFICES ASSUME TypeOK, Next PROVE TypeOK'
  OBVIOUS
<1> DEFINE RestOK ==
      /\ token \in Tokens /\ issued \in Tokens \ {NoToken} /\ valid \subseteq 1..issued
      /\ lock \in Callers \union {NoOne}
      /\ sent \in [Callers -> Tokens] /\ refused \in [Callers -> Tokens]
      /\ discarded \subseteq Callers /\ begun \in Nat /\ faults \in Nat
<1>1. CASE Expire
  BY <1>1, BooleanStep DEF Expire, cell, hist, TypeOK
<1>2. ASSUME NEW g \in Callers, Begin(g) \/ Step(g) PROVE RestOK'
  <2> USE DEF TypeOK
  <2>1. CASE Begin(g)
    BY <2>1 DEF Begin, cell, net, hist
  <2>2. CASE EnsureAuth(g)
    BY <2>2, PassedSound, ReturnSound, WaitSound DEF EnsureAuth, cell, net, count
  <2>3. CASE TakeLock(g)
    <3>1. CASE token # NoToken
      BY <2>3, <3>1, PassedSound DEF TakeLock, net, count
    <3>2. CASE token = NoToken
      BY <2>3, <3>2 DEF TakeLock, net, count, hist
    <3> QED
      BY <3>1, <3>2
  <2>4. CASE Login(g)
    BY <2>4, PassedSound DEF Login, count
  <2>5. CASE LoginFails(g) \/ ServeFails(g) \/ End(g)
    <3>1. UNCHANGED <<token, issued, valid>> /\ lock' \in {lock, NoOne} /\ Return(g)
      BY <2>5 DEF LoginFails, ServeFails, End, cell, net
    <3>2. begun' \in Nat /\ faults' \in Nat
      BY <2>5 DEF LoginFails, ServeFails, End, count
    <3> QED
      BY <3>1, <3>2, ReturnSound
  <2>6. CASE Tear(g)
    BY <2>6 DEF Tear, hist, net, count
  <2>7. CASE ReadHeader(g)
    BY <2>7 DEF ReadHeader, cell, net, hist, count
  <2>8. CASE Serve(g) \/ LockToWipe(g)
    BY <2>8 DEF Serve, LockToWipe, cell, net, hist, count
  <2>9. CASE Wipe(g)
    BY <2>9 DEF Wipe, Forget, net, count
  <2>10. CASE AskSign(g) \/ UseSign(g)
    <3>1. /\ UNCHANGED <<token, issued, valid, lock, refused, discarded, begun>>
          /\ sent' = [sent EXCEPT ![g] = NoToken]
      BY <2>10 DEF AskSign, UseSign, Forget, cell, net, hist, count
    <3>2. faults' \in Nat
      BY <2>10 DEF AskSign, UseSign, count
    <3> QED
      BY <3>1, <3>2
  <2> QED
    BY <1>2, <2>1, <2>2, <2>3, <2>4, <2>5, <2>6, <2>7, <2>8, <2>9, <2>10 DEF Step
<1>3. ASSUME NEW g \in Callers, Begin(g) \/ Step(g) PROVE TypeOK'
  <2>1. /\ pc' \in [Callers -> {"idle", "ensure", "wantLogin", "login", "header",
                                "sent", "answered", "wipe"}]
        /\ call' \in [Callers -> Calls]
        /\ \A h \in Callers : pc'[h] \in {"ensure", "wantLogin", "login"}
                                => call'[h].ensures > 0
    BY <1>3, StepSound DEF Sound, TypeOK
  <2>2. canLogin' \in BOOLEAN /\ torn' \in BOOLEAN /\ died' \in BOOLEAN
    BY BooleanStep
  <2> QED
    BY <1>2, <1>3, <2>1, <2>2 DEF TypeOK
<1> QED
  BY <1>1, <1>3 DEF Next

(* Every step preserves the invariant; none replaces a token by another. *)
LEMMA InnerStep ==
  TypeOK /\ Good /\ [Next]_vars
    => TypeOK' /\ Good' /\ (token # NoToken => token' \in {NoToken, token})
<1> SUFFICES ASSUME TypeOK, Good, [Next]_vars
             PROVE  TypeOK' /\ Good' /\ (token # NoToken => token' \in {NoToken, token})
  OBVIOUS
<1>1. ASSUME Expire PROVE Good' /\ token' = token
  <2>1. UNCHANGED <<token, torn, lock, issued, pc, call, sent, refused, discarded>>
    BY <1>1 DEF Expire, cell, hist
  <2> QED
    BY <2>1 DEF Good, LockInv, LoginInv, NewerInv, HeaderInv, RetriesWithAnother,
       AnonymousOnlyIfDiscarded
<1>2. ASSUME NEW g \in Callers, Begin(g) \/ Step(g)
      PROVE  Good' /\ (token # NoToken => token' \in {NoToken, token})
  <2>1. Good'
    BY <1>2, BeginGood, EnsureAuthGood, TakeLockGood, LoginGood, TearGood, ReadHeaderGood,
       ServeGood, LockToWipeGood, WipeGood, SignGood, EndsGood DEF Step
  <2>2. Login(g) => token = NoToken
    BY DEF Login, Good, LoginInv
  <2>3. ~Login(g) => token' \in {NoToken, token}
    BY <1>2 DEF Begin, Step, EnsureAuth, TakeLock, LoginFails, Tear, ReadHeader,
       Serve, ServeFails, LockToWipe, Wipe, AskSign, UseSign, End, cell
  <2> QED
    BY <2>1, <2>2, <2>3
<1>3. CASE UNCHANGED vars
  BY <1>3 DEF vars, cell, net, hist, count, TypeOK, Good, LockInv, LoginInv, NewerInv,
     HeaderInv, RetriesWithAnother, AnonymousOnlyIfDiscarded
<1>4. CASE Next
  BY <1>1, <1>2, <1>4, TypeStep DEF Next
<1> QED
  BY <1>3, <1>4

(* The inductive invariant of the token, the mutex and the calls.          *)
THEOREM Invariance == Spec => []Inv
<1>1. Init => TypeOK /\ Good
  BY InitInv DEF Inv, Good
<1>2. TypeOK /\ Good /\ [Next]_vars => (TypeOK /\ Good)'
  BY InnerStep
<1>3. TypeOK /\ Good => Inv
  BY DEF Inv, Good
<1> QED
  BY <1>1, <1>2, <1>3, PTL DEF Spec

(* A request without a token is sent only after another caller discarded   *)
(* the token (client.go:141, 177, 344), for any number of goroutines.      *)
THEOREM AnonymousIsDiscarded == Spec => []AnonymousOnlyIfDiscarded
<1>1. Init => TypeOK /\ Good
  BY InitInv DEF Inv, Good
<1>2. TypeOK /\ Good /\ [Next]_vars => (TypeOK /\ Good)'
  BY InnerStep
<1>3. TypeOK /\ Good => AnonymousOnlyIfDiscarded
  BY DEF Good
<1> QED
  BY <1>1, <1>2, <1>3, PTL DEF Spec

(* A token is never overwritten by a login (client.go:149), for any number *)
(* of goroutines.                                                          *)
THEOREM TokenKept == Spec => TokenNotOverwritten
<1>1. Init => TypeOK /\ Good
  BY InitInv DEF Inv, Good
<1>2. TypeOK /\ Good /\ [Next]_vars
        => (TypeOK /\ Good)' /\ [token # NoToken => token' \in {NoToken, token}]_vars
  BY InnerStep
<1> QED
  BY <1>1, <1>2, PTL DEF Spec, TokenNotOverwritten


-----------------------------------------------------------------------------
(* Why every call ends, but for the scheduling of goroutines and requests   *)
(* that are answered, of which nothing can be proved here.                  *)

\* The requests that may still follow: a download has up to three fresh signs,
\* each of them and every other JSON request may log in once.
RoundsLeft(c) == CASE c.op = "put" -> 0
                   [] c.op = "get" -> 5 * (3 - c.attempt) + 4
                   [] c.op = "json" /\ c.outer = NoOuter -> 3 - c.attempt
                   [] c.op = "json" /\ c.outer # NoOuter -> 5 * (3 - c.outer) + 3 - c.attempt

\* The steps to the answer of one request, ensures calls of ensureAuth ahead.
Stage(ensures, label) ==
  [ensure |-> 4 + 3 * ensures, wantLogin |-> 3 + 3 * ensures, login |-> 2 + 3 * ensures,
   header |-> 3, sent |-> 2, answered |-> 1, wipe |-> 0][label]

Left(c, label, tearing) ==
  IF label = "idle" THEN 0
  ELSE 2 * (11 * RoundsLeft(c) + Stage(c.ensures, label))
         + IF label \in {"login", "wipe"} /\ ~tearing THEN 2 ELSE 1

StepsLeft(g) == Left(call[g], pc[g], torn)

\* 19 rounds of 11 places, each with a write of the token in two halves.
MostSteps == 440

(* A call takes a bounded number of steps, whatever other goroutines do to *)
(* its token meanwhile: each of its own steps brings it nearer to its end, *)
(* nobody else's takes it away from there (client.go:205-222, 356-398).    *)
CallsAreBounded ==
  [][\A g \in Callers :
       /\ StepsLeft(g)' \in 0..MostSteps
       /\ Step(g) => died' \/ StepsLeft(g)' < StepsLeft(g)
       /\ pc[g] # "idle" => StepsLeft(g)' <= StepsLeft(g)]_vars

\* The guards of a caller's steps, the mutex included.
CanStep(g) ==
  \/ pc[g] \in {"ensure", "login", "header", "sent", "wipe"}
  \/ pc[g] = "wantLogin" /\ lock = NoOne
  \/ pc[g] = "answered" /\ (LogsInAgain(call[g]) => lock = NoOne)

(* While a call is under way some call can go on: whoever waits for the    *)
(* mutex waits for a caller who does not (client.go:146, 155).             *)
NeverStuck == (\E g \in Callers : pc[g] # "idle") => \E g \in Callers : CanStep(g)

\* Only GetInfo is called inside another call; only a first attempt wipes.
Fit(c, label) == /\ c.outer # NoOuter => c.op = "json"
                 /\ label = "wipe" => c.op # "put" /\ c.attempt = 0
FitInv == \A g \in Callers : Fit(call[g], pc[g])

Labels == {"idle", "ensure", "wantLogin", "login", "header", "sent", "answered", "wipe"}

LEMMA RoundBounds ==
  ASSUME NEW c \in Calls
  PROVE  RoundsLeft(c) \in 0..19
<1>1. /\ c.op \in {"json", "put", "get"} /\ c.attempt \in 0..3
      /\ c.outer # NoOuter => c.outer \in 0..2
  BY DEF Calls, Ops
<1> QED
  BY <1>1 DEF RoundsLeft

LEMMA StageBounds ==
  ASSUME NEW e \in 0..2, NEW label \in Labels \ {"idle"}
  PROVE  Stage(e, label) \in 0..10
BY DEF Stage, Labels

LEMMA LeftBounds ==
  ASSUME NEW c \in Calls, NEW label \in Labels, NEW t
  PROVE  /\ Left(c, label, t) \in 0..MostSteps
         /\ label # "idle" => Left(c, label, t) > 0
<1>1. c.ensures \in 0..2
  BY DEF Calls
<1> QED
  BY <1>1, RoundBounds, StageBounds DEF Left, MostSteps

(* Nearer to the end: a later place of the same round, or a later round.   *)
LEMMA Nearer ==
  ASSUME NEW c \in Calls, NEW d \in Calls, NEW l \in Labels \ {"idle"}, NEW m \in Labels,
         NEW t, NEW u,
         \/ m = "idle"
         \/ RoundsLeft(d) < RoundsLeft(c)
         \/ RoundsLeft(d) = RoundsLeft(c) /\ Stage(d.ensures, m) < Stage(c.ensures, l)
  PROVE  Left(d, m, u) < Left(c, l, t)
<1>1. CASE m = "idle"
  BY <1>1, LeftBounds DEF Left
<1>2. CASE m # "idle"
  <2>1. c.ensures \in 0..2 /\ d.ensures \in 0..2
    BY DEF Calls
  <2>2. Stage(c.ensures, l) \in 0..10 /\ Stage(d.ensures, m) \in 0..10
    BY <1>2, <2>1, StageBounds
  <2>3. RoundsLeft(c) \in 0..19 /\ RoundsLeft(d) \in 0..19
    BY RoundBounds
  <2>4. /\ Left(d, m, u) <= 2 * (11 * RoundsLeft(d) + Stage(d.ensures, m)) + 2
        /\ Left(c, l, t) >= 2 * (11 * RoundsLeft(c) + Stage(c.ensures, l)) + 1
    BY <1>2, <2>2, <2>3 DEF Left
  <2>5. Left(d, m, u) \in Int /\ Left(c, l, t) \in Int
    BY LeftBounds
  <2> QED
    BY <1>2, <2>2, <2>3, <2>4, <2>5
<1> QED
  BY <1>1, <1>2

LEMMA CallTypes ==
  ASSUME TypeOK, NEW g \in Callers
  PROVE  /\ call[g] \in Calls /\ pc[g] \in Labels
         /\ call[g].op \in Ops /\ call[g].ensures \in 0..2 /\ call[g].attempt \in 0..3
         /\ call[g].outer \in {NoOuter} \union 0..2
         /\ pc[g] \in {"ensure", "wantLogin", "login"} => call[g].ensures > 0
  BY DEF TypeOK, Calls, Labels

\* A step of g: its call is still proper, and nearer to its end.
Ahead(g) == /\ Fit(call'[g], pc'[g])
            /\ Left(call'[g], pc'[g], torn') < Left(call[g], pc[g], torn)

(* The parts steps are made of.                                            *)
LEMMA PassedAhead ==
  ASSUME TypeOK, TypeOK', NEW g \in Callers, Fit(call[g], pc[g]),
         pc[g] \in {"ensure", "wantLogin", "login"}, Passed(g, call[g].ensures)
  PROVE  Ahead(g)
<1> DEFINE c == call[g]  d == call'[g]
<1>1. /\ c \in Calls /\ d \in Calls /\ c.ensures \in 1..2
      /\ pc[g] \in Labels \ {"idle"} /\ pc'[g] \in Labels
  BY CallTypes DEF TypeOK, Labels
<1>2. /\ d = [c EXCEPT !.ensures = c.ensures - 1]
      /\ pc'[g] = IF c.ensures > 1 THEN "ensure" ELSE "header"
  BY DEF Passed, Goto, Set, TypeOK
<1>3. d.ensures = c.ensures - 1 /\ d.op = c.op /\ d.outer = c.outer /\ d.attempt = c.attempt
  BY <1>1, <1>2 DEF Calls
<1>4. Fit(d, pc'[g]) /\ RoundsLeft(d) = RoundsLeft(c)
  BY <1>2, <1>3 DEF Fit, RoundsLeft
<1>5. Stage(d.ensures, pc'[g]) < Stage(c.ensures, pc[g])
  BY <1>1, <1>2, <1>3 DEF Stage
<1> QED
  BY <1>1, <1>4, <1>5, Nearer DEF Ahead

LEMMA ReturnAhead ==
  ASSUME TypeOK, NEW g \in Callers, pc[g] # "idle", Return(g)
  PROVE  Ahead(g)
<1>1. call'[g] = NoCall /\ pc'[g] = "idle"
  BY DEF Return, Goto, Set, TypeOK
<1>2. Fit(NoCall, "idle") /\ NoCall \in Calls
  BY NoCallType DEF NoCall, Attempt, Fit
<1> QED
  BY <1>1, <1>2, CallTypes, Nearer DEF Ahead, Labels

\* The same call, one place further.
LEMMA GoAhead ==
  ASSUME TypeOK, NEW g \in Callers, Fit(call[g], pc[g]), UNCHANGED call,
         <<pc[g], pc'[g]>> \in {<<"ensure", "wantLogin">>, <<"wantLogin", "login">>,
                               <<"header", "sent">>, <<"answered", "wipe">>},
         pc'[g] = "wipe" => LogsInAgain(call[g])
  PROVE  Ahead(g)
<1> Fit(call'[g], pc'[g])
  BY DEF Fit, LogsInAgain
<1>1. pc[g] \in Labels \ {"idle"} /\ pc'[g] \in Labels
  BY DEF Labels
<1>2. Stage(call[g].ensures, pc'[g]) < Stage(call[g].ensures, pc[g])
  BY CallTypes DEF Stage
<1> QED
  BY <1>1, <1>2, CallTypes, Nearer DEF Ahead

\* A new attempt, or GetInfo for one.
LEMMA RoundAhead ==
  ASSUME TypeOK, NEW g \in Callers, pc[g] # "idle", NEW d \in Calls,
         Fit(d, "ensure"), call'[g] = d, pc'[g] = "ensure", RoundsLeft(d) < RoundsLeft(call[g])
  PROVE  Ahead(g)
  BY CallTypes, Nearer DEF Ahead, Labels

(* Every step of a caller, unless the process dies of it.                  *)
LEMMA StepAhead ==
  ASSUME TypeOK, TypeOK', LockInv, NEW g \in Callers, Fit(call[g], pc[g]), Step(g)
  PROVE  \/ Ahead(g)
         \/ died' /\ UNCHANGED <<call, pc, torn>>
<1> USE DEF hist
<1>1. CASE EnsureAuth(g)
  <2>1. pc[g] = "ensure" /\ (Passed(g, call[g].ensures) \/ Wait(g) \/ Return(g))
    BY <1>1 DEF EnsureAuth
  <2>2. Wait(g) => UNCHANGED call /\ pc'[g] = "wantLogin"
    BY DEF Wait, Goto, TypeOK
  <2> QED
    BY <2>1, <2>2, PassedAhead, GoAhead, ReturnAhead
<1>2. CASE TakeLock(g)
  <2>1. /\ pc[g] = "wantLogin"
        /\ \/ Passed(g, call[g].ensures)
           \/ UNCHANGED call /\ pc'[g] = "login"
    BY <1>2 DEF TakeLock, Goto, TypeOK
  <2> QED
    BY <2>1, PassedAhead, GoAhead
<1>3. CASE Login(g) \/ LoginFails(g)
  <2>1. pc[g] = "login" /\ (Passed(g, call[g].ensures) \/ Return(g))
    BY <1>3 DEF Login, LoginFails
  <2> QED
    BY <2>1, PassedAhead, ReturnAhead
<1>4. CASE Tear(g)
  <2>1. /\ pc[g] \in {"login", "wipe"} /\ ~torn /\ torn' = TRUE
        /\ UNCHANGED <<pc, call>>
    BY <1>4 DEF Tear
  <2>2. /\ RoundsLeft(call[g]) \in 0..19 /\ Stage(call[g].ensures, pc[g]) \in 0..10
    BY <2>1, CallTypes, RoundBounds, StageBounds DEF Labels
  <2> DEFINE k == 2 * (11 * RoundsLeft(call[g]) + Stage(call[g].ensures, pc[g]))
  <2>3. k \in Int
    BY <2>2
  <2>4. Left(call[g], pc[g], torn) = k + 2
    BY <2>1 DEF Left
  <2>5. Left(call[g], pc[g], TRUE) = k + 1
    BY <2>1 DEF Left
  <2> HIDE DEF k
  <2>6. k + 1 < k + 2
    BY <2>3
  <2>7. Left(call[g], pc[g], TRUE) < Left(call[g], pc[g], torn)
    BY <2>4, <2>5, <2>6, Zenon
  <2> QED
    BY <2>1, <2>7 DEF Ahead
<1>5. CASE ReadHeader(g)
  <2>1. CASE torn
    BY <1>5, <2>1 DEF ReadHeader, cell
  <2>2. CASE ~torn
    BY <1>5, <2>2, GoAhead DEF ReadHeader, Goto, TypeOK
  <2> QED
    BY <2>1, <2>2
<1>6. CASE Serve(g)
  <2>1. PICK a \in {"ok", "401"} : call'[g] = [call[g] EXCEPT !.answer = a]
    BY <1>6 DEF Serve, Set, TypeOK
  <2>2. pc[g] = "sent" /\ pc'[g] = "answered"
    BY <1>6 DEF Serve, Goto, TypeOK
  <2>3. /\ call'[g] \in Calls /\ call[g] \in Calls
        /\ call'[g].op = call[g].op /\ call'[g].outer = call[g].outer
        /\ call'[g].attempt = call[g].attempt /\ call'[g].ensures = call[g].ensures
    BY <2>1, CallTypes DEF Calls
  <2>4. /\ Fit(call'[g], "answered") /\ RoundsLeft(call'[g]) = RoundsLeft(call[g])
    BY <2>2, <2>3 DEF Fit, RoundsLeft
  <2>5. Stage(call'[g].ensures, "answered") < Stage(call[g].ensures, "sent")
    BY <2>3 DEF Stage
  <2> QED
    BY <2>2, <2>3, <2>4, <2>5, Nearer DEF Ahead, Labels
<1>7. CASE ServeFails(g) \/ End(g)
  BY <1>7, ReturnAhead DEF ServeFails, End
<1>8. CASE LockToWipe(g)
  BY <1>8, GoAhead DEF LockToWipe, Goto, TypeOK
<1>9. CASE Wipe(g)
  <2> DEFINE c == call[g]
             d == Attempt(c.op, 1, c.outer, IF c.op = "get" THEN 2 ELSE 1, c.sign)
  <2>1. pc[g] = "wipe" /\ call'[g] = d /\ pc'[g] = "ensure"
    BY <1>9 DEF Wipe, Retry, Set, Goto, TypeOK
  <2>2. c \in Calls /\ c.op \in {"json", "get"} /\ c.attempt = 0 /\ d \in Calls
    BY <2>1, CallTypes DEF Fit, Calls, Ops, Attempt
  <2>3. d.op = c.op /\ d.attempt = 1 /\ d.outer = c.outer
    BY DEF Attempt
  <2>4. Fit(d, "ensure") /\ RoundsLeft(d) < RoundsLeft(c)
    BY <2>2, <2>3, CallTypes DEF Fit, RoundsLeft
  <2> QED
    BY <2>1, <2>2, <2>4, RoundAhead
<1>10. CASE AskSign(g)
  <2> DEFINE c == call[g]
             d == Attempt("json", 0, c.attempt, 1, "fresh")
  <2>1. /\ pc[g] = "answered" /\ call'[g] = d /\ pc'[g] = "ensure"
        /\ c.op = "get" /\ c.attempt <= 2
    BY <1>10 DEF AskSign, AsksForSign, Set, Goto, TypeOK
  <2>2. c \in Calls /\ c.attempt \in 0..2 /\ d \in Calls
    BY <2>1, CallTypes DEF Calls, Ops, Attempt
  <2>3. d.op = "json" /\ d.attempt = 0 /\ d.outer = c.attempt /\ d.outer # NoOuter
    BY <2>2 DEF Attempt
  <2>4. Fit(d, "ensure") /\ RoundsLeft(d) < RoundsLeft(c)
    BY <2>1, <2>2, <2>3 DEF Fit, RoundsLeft
  <2> QED
    BY <2>1, <2>2, <2>4, RoundAhead
<1>11. CASE UseSign(g)
  <2> DEFINE c == call[g]
  <2>1. PICK sign \in {"fresh", "stale"} :
          call'[g] = Attempt("get", c.outer + 1, NoOuter, 1, sign)
    BY <1>11 DEF UseSign, Set, TypeOK
  <2>2. pc[g] = "answered" /\ pc'[g] = "ensure" /\ c.outer # NoOuter
    BY <1>11 DEF UseSign, Goto, TypeOK
  <2> DEFINE d == Attempt("get", c.outer + 1, NoOuter, 1, sign)
  <2>3. c \in Calls /\ c.op = "json" /\ c.outer \in 0..2 /\ c.attempt \in 0..3 /\ d \in Calls
    BY <2>2, CallTypes DEF Fit, Calls, Ops, Attempt
  <2>4. d.op = "get" /\ d.attempt = c.outer + 1 /\ d.outer = NoOuter
    BY DEF Attempt
  <2>5. Fit(d, "ensure") /\ RoundsLeft(d) < RoundsLeft(c)
    BY <2>2, <2>3, <2>4 DEF Fit, RoundsLeft
  <2> QED
    BY <2>1, <2>2, <2>3, <2>5, RoundAhead
<1> QED
  BY <1>1, <1>2, <1>3, <1>4, <1>5, <1>6, <1>7, <1>8, <1>9, <1>10, <1>11 DEF Step
LEMMA StepsLeftAfter ==
  ASSUME NEW g \in Callers
  PROVE  StepsLeft(g)' = Left(call'[g], pc'[g], torn')
  BY DEF StepsLeft

LEMMA FitStep ==
  TypeOK /\ TypeOK' /\ LockInv /\ FitInv /\ [Next]_vars
    => FitInv' /\ [\A g \in Callers :
                     /\ StepsLeft(g)' \in 0..MostSteps
                     /\ Step(g) => died' \/ StepsLeft(g)' < StepsLeft(g)
                     /\ pc[g] # "idle" => StepsLeft(g)' <= StepsLeft(g)]_vars
<1> SUFFICES ASSUME TypeOK, TypeOK', LockInv, FitInv, [Next]_vars
             PROVE  /\ FitInv'
                    /\ \A g \in Callers :
                         /\ StepsLeft(g)' \in 0..MostSteps
                         /\ Step(g) => died' \/ StepsLeft(g)' < StepsLeft(g)
                         /\ pc[g] # "idle" => StepsLeft(g)' <= StepsLeft(g)
  OBVIOUS
<1>0. \A g \in Callers : StepsLeft(g)' \in 0..MostSteps
  <2>1. \A g \in Callers : call'[g] \in Calls /\ pc'[g] \in Labels
    BY DEF TypeOK, Labels
  <2> QED
    BY <2>1, LeftBounds, StepsLeftAfter
<1>1. \A g \in Callers : StepsLeft(g) \in 0..MostSteps
  BY CallTypes, LeftBounds DEF StepsLeft
<1>2. ASSUME NEW g \in Callers, Step(g)
      PROVE  (Ahead(g) \/ died') /\ Fit(call'[g], pc'[g])
  <2>1. Fit(call[g], pc[g])
    BY DEF FitInv
  <2> QED
    BY <1>2, <2>1, StepAhead DEF Ahead
<1>3. ASSUME NEW g \in Callers, Step(g) PROVE died' \/ StepsLeft(g)' < StepsLeft(g)
  BY <1>2, <1>3 DEF Ahead, StepsLeft
<1>4. ASSUME NEW g \in Callers, Begin(g) PROVE Fit(call'[g], pc'[g]) /\ pc[g] = "idle" /\ torn' = torn
  <2>1. PICK op \in Ops, sign \in {"fresh", "stale"} :
          /\ call'[g] = Attempt(op, 0, NoOuter, IF op = "put" THEN 0 ELSE 1, sign)
          /\ pc'[g] \in {"header", "ensure"}
    BY <1>4 DEF Begin, Set, Goto, TypeOK
  <2> QED
    BY <1>4, <2>1 DEF Begin, cell, Attempt, Fit
\* What another goroutine does to a call: the token is torn or whole again, for
\* one that holds the mutex and so is not this one.
<1>5. ASSUME NEW g \in Callers, Begin(g) \/ Step(g), NEW h \in Callers \ {g}
      PROVE  Fit(call'[h], pc'[h]) /\ StepsLeft(h)' = StepsLeft(h)
  <2>1. call'[h] = call[h] /\ pc'[h] = pc[h]
    BY <1>5, StepSound DEF Sound
  <2>2. torn' # torn => pc[g] \in {"login", "wipe"}
    BY <1>5 DEF Begin, Step, EnsureAuth, TakeLock, Login, LoginFails, Tear,
       ReadHeader, Serve, ServeFails, LockToWipe, Wipe, AskSign, UseSign, End, cell
  <2>3. torn' # torn => pc[h] \notin {"login", "wipe"}
    BY <2>2 DEF LockInv
  <2>4. Left(call[h], pc[h], torn') = Left(call[h], pc[h], torn)
    BY <2>3 DEF Left
  <2> QED
    BY <2>1, <2>4 DEF FitInv, StepsLeft
<1>6. ASSUME NEW g \in Callers, Begin(g) \/ Step(g)
      PROVE  /\ FitInv'
             /\ \A h \in Callers : pc[h] # "idle" => StepsLeft(h)' <= StepsLeft(h)
  <2>1. FitInv'
    BY <1>2, <1>4, <1>5, <1>6 DEF FitInv
  <2>2. Step(g) /\ ~Ahead(g) => UNCHANGED <<call, pc, torn>>
    BY StepAhead DEF FitInv
  <2>3. pc[g] # "idle" => StepsLeft(g)' <= StepsLeft(g)
    <3>1. CASE Ahead(g)
      <4>1. StepsLeft(g)' < StepsLeft(g) /\ StepsLeft(g)' \in Int /\ StepsLeft(g) \in Int
        <5>1. call'[g] \in Calls /\ pc'[g] \in Labels
          BY DEF TypeOK, Labels
        <5> QED
          BY <1>1, <3>1, <5>1, LeftBounds, StepsLeftAfter DEF Ahead, StepsLeft
      <4> QED
        BY <4>1
    <3>2. CASE ~Ahead(g)
      BY <1>1, <1>4, <1>6, <2>2, <3>2 DEF StepsLeft
    <3> QED
      BY <3>1, <3>2
  <2> QED
    BY <1>1, <1>5, <1>6, <2>1, <2>3
<1>7. CASE Expire \/ UNCHANGED vars
  <2>1. UNCHANGED <<call, pc, torn>>
    BY <1>7 DEF Expire, vars, cell, hist
  <2>2. FitInv' /\ \A g \in Callers : StepsLeft(g)' = StepsLeft(g)
    BY <2>1 DEF FitInv, StepsLeft
  <2> QED
    BY <1>1, <1>3, <2>2
<1> QED
  BY <1>3, <1>6, <1>7, <1>0 DEF Next

(* For any number of callers: what CallsEnd needs besides fairness.        *)
THEOREM CallsTakeFewSteps == Spec => CallsAreBounded
<1>1. Init => FitInv
  <2> SUFFICES ASSUME Init, NEW g \in Callers PROVE Fit(call[g], pc[g])
    BY DEF FitInv
  <2>1. call[g] = NoCall /\ pc[g] = "idle"
    BY DEF Init
  <2>2. NoCall.outer = NoOuter
    BY DEF NoCall, Attempt
  <2> QED
    BY <2>1, <2>2 DEF Fit
<1>2. Inv /\ Inv' => TypeOK /\ TypeOK' /\ LockInv
  BY DEF Inv
<1> QED
  BY <1>1, <1>2, FitStep, Invariance, PTL DEF Spec, CallsAreBounded

(* Whoever holds the mutex is in a login or a wipe, and goes on.           *)
THEOREM CallersNeverStuck == Spec => []NeverStuck
<1>1. Inv => NeverStuck
  <2> SUFFICES ASSUME Inv, NEW g \in Callers, pc[g] # "idle"
               PROVE  \E h \in Callers : CanStep(h)
    BY DEF NeverStuck
  <2>1. CASE lock = NoOne
    BY <2>1, CallTypes DEF Inv, CanStep, Labels
  <2>2. CASE lock # NoOne
    BY <2>2 DEF Inv, TypeOK, LockInv, CanStep
  <2> QED
    BY <2>1, <2>2
<1> QED
  BY <1>1, Invariance, PTL
=============================================================================
