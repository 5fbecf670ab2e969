---------------------------- MODULE MCCorrections ----------------------------
(* Model values for the runs of Corrections. *)
EXTENDS Corrections, TLC

CONSTANTS j1, j2, j3, j4

FourJobs == {j1, j2, j3, j4}
JobSymmetry == Permutations(FourJobs)
=============================================================================
