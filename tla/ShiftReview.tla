----------------------------- MODULE ShiftReview -----------------------------
(***************************************************************************)
(* What corrections and approvals make of one closed shift (docstring of   *)
(* apps/attendance/services/approvals.py): its current correction only     *)
(* ever gives way to a newer one, and it is approved, or stale because     *)
(* what was approved is not what is current.  The monthly close of         *)
(* PayrollClose reads a shift that changes in these steps.                 *)
(***************************************************************************)
EXTENDS Naturals

VARIABLES
  current,    \* the current correction; 0 for the raw punches
  approval    \* approval_status

vars == <<current, approval>>

Init == current = 0 /\ approval = "PENDING"

Approve == approval' = "APPROVED" /\ UNCHANGED current

\* A correction approves itself.
Correct == current' > current /\ approval' = "APPROVED"

\* Only a corrected shift is ever stale.
Overtake == current > 0 /\ approval' = "STALE" /\ UNCHANGED current

Next == Approve \/ Correct \/ Overtake

Spec == Init /\ [][Next]_vars
=============================================================================
