--------------------------- MODULE MCWfdMultiSelect ---------------------------
(* Nothing tells the peers apart. *)
EXTENDS WfdMultiSelect, TLC

CONSTANTS p1, p2, p3

Peers == {p1, p2, p3}
Symmetry == Permutations(Peers)
=============================================================================
