------------------------------ MODULE PunchBook ------------------------------
(***************************************************************************)
(* What the punch service promises (docstring of                           *)
(* apps/attendance/services/punches.py): a tap is recorded at most once,   *)
(* an employee clocks in only when off duty, and takes breaks and clocks   *)
(* out only when on duty.  Every decision is atomic: there are no          *)
(* requests, locks or tables here.                                         *)
(***************************************************************************)
CONSTANTS Employees, Keys

VARIABLES
  tap,        \* the tap of each key: [employee, kind]
  onDuty,     \* employees with an open shift
  recorded    \* keys with an event

vars == <<tap, onDuty, recorded>>

PostedKind == {"CLOCK_IN", "BREAK_START", "BREAK_END", "CLOCK_OUT", "OTHER"}

Init ==
  /\ tap \in [Keys -> [employee : Employees, kind : PostedKind]]
  /\ onDuty = {}
  /\ recorded = {}

ClockIn(k) ==
  /\ tap[k].kind = "CLOCK_IN"
  /\ tap[k].employee \notin onDuty
  /\ onDuty' = onDuty \cup {tap[k].employee}

Break(k) ==
  /\ tap[k].kind \in {"BREAK_START", "BREAK_END"}
  /\ tap[k].employee \in onDuty
  /\ UNCHANGED onDuty

ClockOut(k) ==
  /\ tap[k].kind = "CLOCK_OUT"
  /\ tap[k].employee \in onDuty
  /\ onDuty' = onDuty \ {tap[k].employee}

Record(k) ==
  /\ k \notin recorded
  /\ recorded' = recorded \cup {k}
  /\ ClockIn(k) \/ Break(k) \/ ClockOut(k)
  /\ UNCHANGED tap

Next == \E k \in Keys : Record(k)

Spec == Init /\ [][Next]_vars
=============================================================================
