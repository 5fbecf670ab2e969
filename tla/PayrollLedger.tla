---------------------------- MODULE PayrollLedger ----------------------------
(***************************************************************************)
(* What the monthly close promises (docstrings of apps/payroll/models/     *)
(* close.py and services/close.py): a month is DRAFT or CLOSED, closing it *)
(* adds exactly one snapshot, which supersedes the one before, and no      *)
(* snapshot is ever changed or dropped.  Every close and reopen is atomic: *)
(* there are no requests, locks or blockers here.                          *)
(***************************************************************************)
EXTENDS Naturals, Sequences

CONSTANT Payload

VARIABLES
  status,     \* of the month; "NONE" before its period exists
  snapshots   \* the versions of the month's payroll

vars == <<status, snapshots>>

Init == status = "NONE" /\ snapshots = <<>>

Prepare ==
  /\ status = "NONE"
  /\ status' = "DRAFT"
  /\ UNCHANGED snapshots

Close ==
  /\ status = "DRAFT"
  /\ status' = "CLOSED"
  /\ \E payload \in Payload, reason \in {"manual", "automatic"} :
       snapshots' = Append(snapshots, [version |-> Len(snapshots) + 1,
                                       supersedes |-> Len(snapshots),
                                       payload |-> payload, reason |-> reason])

Reopen ==
  /\ status = "CLOSED"
  /\ status' = "DRAFT"
  /\ UNCHANGED snapshots

Next == Prepare \/ Close \/ Reopen

Spec == Init /\ [][Next]_vars
=============================================================================
