------------------------------ MODULE MCRunner -------------------------------
(***************************************************************************)
(* A small instance of Runner: one connection and one task, requests one   *)
(* at a time beside the scheduler and two goroutines.                      *)
(***************************************************************************)
EXTENDS Runner, TLC

\* Enabled with the default interval, or not enabled.
MCEdits == {[enabled |-> TRUE, interval |-> 0], [enabled |-> FALSE, interval |-> 2]}

\* Nothing stored yet, or a connection with an enabled task that never ran.
NewTask(c) == [connection |-> c, enabled |-> TRUE, interval |-> 0,
               last_run |-> Never, last_status |-> "none"]
MCStartStates ==
  {defaultState} \cup
  {[connections |-> {c}, tasks |-> id :> NewTask(c), interval |-> 1] :
     c \in Connections, id \in TaskIds}
=============================================================================
