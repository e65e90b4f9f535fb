------------------------- MODULE MCAttemptLimiter -------------------------
(* Small instances of AttemptLimiter for TLC.                              *)
EXTENDS AttemptLimiter, TLC

Symmetry == Permutations(Attempt)
===========================================================================
