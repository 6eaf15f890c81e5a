--------------------------- MODULE MCLibraryScan ----------------------------
(* Constants of the LibraryScan instances TLC checks.                      *)
EXTENDS LibraryScan, TLC

Symmetry == Permutations(Files) \cup Permutations(Artists) \cup Permutations(Scans)
=============================================================================
