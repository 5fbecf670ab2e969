------------------------------- MODULE MCWages -------------------------------
(* Model values for the runs of Wages.  A month has two dates. *)
EXTENDS Wages

CONSTANTS j1, j2, j3

ThreeJobs == {j1, j2, j3}
EvenDates == {d \in Dates : d % 2 = 0}
=============================================================================
