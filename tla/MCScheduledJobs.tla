-------------------------- MODULE MCScheduledJobs --------------------------
(* Small instances of ScheduledJobs for TLC.                               *)
EXTENDS ScheduledJobs, TLC

Symmetry == Permutations(Server)
=============================================================================
