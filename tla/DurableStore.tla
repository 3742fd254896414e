----------------------------- MODULE DurableStore ------------------------------
(***************************************************************************)
(* What a caller of Save (internal/web/store.go) relies on, and what a     *)
(* restart finds.  The file moves from one state of the store to a later   *)
(* one, at a time nobody chooses; what was answered is in it; a start      *)
(* continues from it.  The promise covers saves that do not overlap, and   *)
(* a save that has failed takes the part about answers away.               *)
(***************************************************************************)
EXTENDS Integers

VARIABLES version,    \* the state in memory: how many changes made it
          saved,      \* the state a start would load, or Unreadable
          answered,   \* the newest change that was reported saved
          failing,    \* a save has failed
          alone,      \* no two saves were ever under way together
          up          \* the process is alive
dvars == <<version, saved, answered, failing, alone, up>>

Unreadable == -1

Init ==
  /\ version = 0 /\ saved = 0 /\ answered = 0
  /\ failing = FALSE /\ alone = TRUE /\ up = TRUE

Change ==
  /\ up
  /\ version' = version + 1
  /\ UNCHANGED <<saved, answered, failing, up>>

\* A state is published whole, and no older one than is there.
Save ==
  /\ up
  /\ saved' \in saved..version
  /\ UNCHANGED <<version, answered, failing, up>>

\* A change is answered: it is in the file, unless a save has failed.
Answer ==
  /\ up
  /\ answered' \in (answered + 1)..(IF failing THEN version ELSE saved)
  /\ UNCHANGED <<version, saved, failing, up>>

WriteFails ==
  /\ up
  /\ failing' = TRUE
  /\ UNCHANGED <<version, saved, answered, up>>

\* What is in memory only is lost; the next start has what was saved.
Stop ==
  /\ up
  /\ up' = FALSE /\ version' = 0
  /\ UNCHANGED <<saved, answered, failing>>

Start ==
  /\ ~up
  /\ up' = TRUE /\ version' = saved
  /\ UNCHANGED <<saved, answered, failing>>

\* Two saves overlap, or have overlapped: nothing is promised any more.
Overlap == alone' = FALSE

Kept == \/ Change \/ Save \/ Answer \/ WriteFails \/ Stop \/ Start

Next == \/ alone /\ alone' = TRUE /\ Kept
        \/ Overlap

Spec == Init /\ [][Next]_dvars
=============================================================================
