------------------------------ MODULE MCPairing ------------------------------
(* Model values for the runs of Pairing. *)
EXTENDS Pairing

CONSTANTS j1, j2, j3

ThreeJobs == {j1, j2, j3}
=============================================================================
