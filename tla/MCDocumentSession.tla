------------------------- MODULE MCDocumentSession -------------------------
(***************************************************************************)
(* Instances of DocumentSession for TLC.  The connections are              *)
(* interchangeable: no definition chooses among them.                      *)
(***************************************************************************)
EXTENDS DocumentSession, TLC

CONSTANTS c1, c2, c3

Symmetry == Permutations(Conns)
=============================================================================
