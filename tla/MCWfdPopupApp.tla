---------------------------- MODULE MCWfdPopupApp ----------------------------
(* Two peers, one of whose names is the longer, and a MAC longer than both. *)
EXTENDS WfdPopupApp

CONSTANTS p1, p2

Peers == {p1, p2}
NameLens == [p \in Peers |-> IF p = p1 THEN 1 ELSE 2]
=============================================================================
