------------------------------- MODULE MCStore -------------------------------
(* Small instances of Store. *)
EXTENDS Store, TLC

ThreadSymmetry == Permutations(Threads)
=============================================================================
