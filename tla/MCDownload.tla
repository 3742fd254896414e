----------------------------- MODULE MCDownload ------------------------------
(* Versions of three and two blocks; versions 1 and 3 have the same size.  *)
EXTENDS Download

MCGuess == [n \in {"f"} |-> "none"]
MCSize  == [v \in Versions |-> CASE v \in {1, 3} -> 3 [] v = 2 -> 2 [] OTHER -> 0]
=============================================================================
