---------------------------- MODULE MCJobManager ----------------------------
(* The job manager and its snapshot file for TLC: the jobs are               *)
(* interchangeable.                                                          *)
EXTENDS SnapshotFile, TLC

JobSymmetry == Permutations(Job)
=============================================================================
