--------------------------- MODULE MCLocalMessages ---------------------------
(* The messages of the user are alike.                                      *)
EXTENDS LocalMessages, TLC

Symmetry == Permutations(Ids)
=============================================================================
