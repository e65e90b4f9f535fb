------------------------- MODULE MCBackgroundTasks -------------------------
(* Small instances of BackgroundTasks for TLC.                             *)
EXTENDS BackgroundTasks, TLC

Symmetry == Permutations(Request) \cup Permutations(Worker)
=============================================================================
