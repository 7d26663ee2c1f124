--------------------------- MODULE MCSetupNetwork ---------------------------
(* Devices for TLC.  Nothing tells devices apart, so they are symmetric in *)
(* the run that checks no liveness.                                        *)
EXTENDS SetupNetwork, TLC

CONSTANTS d1, d2, d3

Devices2 == {d1, d2}
Devices3 == {d1, d2, d3}
Symmetry2 == Permutations({d1, d2})
=============================================================================
