---------------------------- MODULE MCNodeTable ----------------------------
(* NodeTable with two stations; words of one bit, so that id 2 has a bit of  *)
(* its own, in the second word, and ids 0 and 1 share one.                     *)
EXTENDS NodeTable, TLC

CONSTANTS n1, n2

MCNodes == {n1, n2}
Symmetry == Permutations(MCNodes)
=============================================================================
