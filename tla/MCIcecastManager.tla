-------------------------- MODULE MCIcecastManager --------------------------
(* Constants of the IcecastManager instances TLC checks.                   *)
EXTENDS IcecastManager, TLC

OneServer == [m \in Mounts |-> CHOOSE s \in Servers : TRUE]

Symmetry == Permutations(Handles) \cup Permutations(Requests)
=============================================================================
