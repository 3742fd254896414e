------------------------------ MODULE MCClient -------------------------------
(* Instances of Client: the callers are model values. *)
EXTENDS Client
=============================================================================
