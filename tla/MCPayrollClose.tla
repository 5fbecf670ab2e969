--------------------------- MODULE MCPayrollClose ---------------------------
(* Model values for the runs of PayrollClose. *)
EXTENDS PayrollClose, TLC

CONSTANTS s1, j1, j2, j3, j4

OneShift == {s1}
ThreeJobs == {j1, j2, j3}
FourJobs == {j1, j2, j3, j4}

\* Jobs are interchangeable.
JobSymmetry == Permutations(FourJobs)
=============================================================================
