------------------------------ MODULE MCEmployees ------------------------------
(* Requests are interchangeable, and so are employees. *)
EXTENDS Employees, TLC

Symmetry == Permutations(Slots) \cup Permutations(Codes)
=============================================================================
