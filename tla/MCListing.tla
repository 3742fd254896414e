------------------------------ MODULE MCListing ------------------------------
(* A root with five names, two directories of which one is named *.part;    *)
(* two names make a page, and a third page is one too many.                 *)
EXTENDS Listing

\*  1 a    2 b.part/ (3 x)    4 d/ (5 x.part  6 y)    7 e    8 f
MCEntries == 1..8
MCDirs    == {2, 4}
MCParts   == {2, 5}
MCParent  == [e \in MCEntries |-> CASE e = 3 -> 2
                                    [] e \in {5, 6} -> 4
                                    [] OTHER -> Root]
=============================================================================
