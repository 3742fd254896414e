------------------------------- MODULE Filter -------------------------------
(***************************************************************************)
(* The file filter (internal/syncer/filter.go).  A glob pattern stands for *)
(* the set of base names it matches, so path.Match is membership.  Paths   *)
(* are sequences of names; <<"d", "x">> is the relative path d/x.          *)
(***************************************************************************)
EXTENDS Integers, Sequences

CONSTANT Guess    \* function: base name -> media type its extension suggests

MediaTypes == {"video", "audio", "image", "text"}
NoGuess    == "none"     \* an extension in none of the four lists

ASSUME GuessAssumption ==
  \A name \in DOMAIN Guess : Guess[name] \in MediaTypes \cup {NoGuess}

(***************************************************************************)
(* One item of --include-ext / --exclude-ext: blank text, a bare suffix or *)
(* a glob.  "names" is what the glob, or the *.suffix made of it, matches. *)
(***************************************************************************)
ExtItem(form, names) == [form |-> form, names |-> names]

normalizeExt(items) == {i.names : i \in {i \in items : i.form # "blank"}}

NewFilter(include, exclude, fileTypes) ==
  [include |-> normalizeExt(include),
   exclude |-> normalizeExt(exclude),
   types   |-> fileTypes]

NoFilter == NewFilter({}, {}, {})

Base(rel) == rel[Len(rel)]

matchName(f, name) ==
  /\ f.include # {} => \E p \in f.include : name \in p
  /\ \A p \in f.exclude : name \notin p

\* objType is the server's type field: a media type, or "unknown" for every
\* other code, where the extension decides.
matchType(f, objType, name) ==
  \/ f.types = {}
  \/ objType \in MediaTypes /\ objType \in f.types
  \/ objType = "unknown" /\ Guess[name] \in f.types

\* Remote files: type and name.
Match(f, rel, objType) == matchType(f, objType, Base(rel)) /\ matchName(f, Base(rel))

\* Local files carry no server type: the name filter alone decides.
MatchLocal(f, rel) == matchName(f, Base(rel))
=============================================================================
