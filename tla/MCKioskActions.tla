---------------------------- MODULE MCKioskActions ----------------------------
(* Model values for the runs of KioskActions. *)
EXTENDS KioskActions, TLC

CONSTANTS ann, bob, j1, j2, j3

Staff == {ann, bob}
ThreeJobs == {j1, j2, j3}
Symmetry == Permutations(Staff) \cup Permutations(Jobs)
=============================================================================
