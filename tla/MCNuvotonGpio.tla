---------------------------- MODULE MCNuvotonGpio ----------------------------
(* Instances of NuvotonGpio for TLC: the users of sysfs are alike.         *)
EXTENDS NuvotonGpio, TLC

UserSymmetry == Permutations(Users)
=============================================================================
