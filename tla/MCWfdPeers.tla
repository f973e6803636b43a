------------------------------ MODULE MCWfdPeers ------------------------------
(* Two peers; nothing tells them apart.  A group owner seen by a discovery has *)
(* clients: one without is listed as a free device is, unless we own a group.  *)
EXTENDS WfdPeers, TLC

CONSTANTS p1, p2

Peers == {p1, p2}
Symmetry == Permutations(Peers)
AnyStranger == {Entry("alone", FALSE), Entry("client", TRUE), Entry("owner", TRUE)}
=============================================================================
