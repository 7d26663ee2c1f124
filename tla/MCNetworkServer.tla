-------------------------- MODULE MCNetworkServer --------------------------
(* Instances of NetworkServer for TLC.                                     *)
EXTENDS NetworkServer, TLC

CONSTANTS p1, p2, p3, b1, b2, b3

Peers2 == {p1, p2}
Peers3 == {p1, p2, p3}
Blocks2 == {b1, b2}
Blocks3 == {b1, b2, b3}

(* Peers and heap blocks are interchangeable: no action compares them.     *)
Symmetry33 == Permutations(Peers3) \cup Permutations(Blocks3)
=============================================================================
