------------------------ MODULE MCRequestResources ------------------------
(* Small instances of RequestResources for TLC.                            *)
EXTENDS RequestResources, TLC

Symmetry == Permutations(Request)
=============================================================================
