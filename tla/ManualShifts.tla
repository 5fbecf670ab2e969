----------------------------- MODULE ManualShifts -----------------------------
(***************************************************************************)
(* Shifts that managers enter (apps/attendance/manual_views.py and         *)
(* services/manual_shifts.py) beside the kiosk and beside each other.      *)
(*                                                                         *)
(* A request records one interval, or up to a week of them which it also   *)
(* approves, in one READ COMMITTED transaction.  Each interval has an      *)
(* idempotency key; it is refused if it overlaps a shift of its employee.  *)
(* A transaction locks the Employee row from its first insert on, the      *)
(* unique index on the keys and the approvals it writes.  At the kiosk a   *)
(* clock-in takes opened_at and then inserts its shift, for which the      *)
(* foreign key needs the Employee row too; what else record_punch does is  *)
(* in Punches.  Corrections are in Corrections; audit entries are left out.*)
(***************************************************************************)
EXTENDS Naturals, Sequences

CONSTANTS
  Employees, Jobs, Keys,
  Requests,      \* the forms managers may send
  Earlier,       \* weeks among them, one of which may be recorded already
  Kiosk,         \* in place of a manual key
  Open,          \* closed_at IS NULL
  NoTap,         \* no clock-in is on its way
  MaxTime        \* bound of the clock

Time == 0..MaxTime

\* parse_manual_shift_input and create_manual_week let nothing else through.
Entry == [key : Keys, from : Nat, to : Nat]
ASSUME ManualShiftsAssumption ==
  /\ MaxTime \in Nat /\ Open \notin Nat /\ NoTap \notin Nat /\ Kiosk \notin Keys
  /\ \A r \in Requests :
       /\ r.employee \in Employees /\ r.week \in BOOLEAN
       /\ r.entries \in Seq(Entry) /\ r.entries # <<>>
       /\ \A i \in DOMAIN r.entries : r.entries[i].from < r.entries[i].to
       /\ ~r.week => Len(r.entries) = 1
  /\ Earlier \subseteq Requests /\ \A r \in Earlier : r.week

VARIABLES
  now,
  shifts,        \* attendance_shift with its key: the committed rows
  approved,      \* keys of the shifts with a committed approval
  tap,           \* opened_at of the clock-in on its way, per employee
  request,       \* the form of each job
  pc,            \* where the job is, or how it ended
  at,            \* the entry it is at
  made,          \* rows its transaction has inserted
  touched        \* keys of the shifts its transaction has approved

tables == <<shifts, approved>>
vars == <<now, shifts, approved, tap, request, pc, at, made, touched>>

Shift == [employee : Employees, from : Nat, to : Nat \cup {Open}, key : Keys \cup {Kiosk}]
Failed == {"conflict", "server_error", "deadlock", "dead"}
Ended == Failed \cup {"done"}
Pc == Ended \cup {"find", "lock", "check", "insert", "approve", "commit"}

TypeOK ==
  /\ now \in Time
  /\ shifts \subseteq Shift
  /\ approved \subseteq Keys
  /\ tap \in [Employees -> Time \cup {NoTap}]
  /\ request \in [Jobs -> Requests]
  /\ pc \in [Jobs -> Pc]
  /\ at \in [Jobs -> Nat \ {0}]
  /\ made \in [Jobs -> SUBSET Shift]
  /\ touched \in [Jobs -> SUBSET Keys]

\* The rows that a form asks for.
Wanted(r, entry) == [employee |-> r.employee, from |-> entry.from, to |-> entry.to,
                     key |-> entry.key]
Rows(r) == {Wanted(r, r.entries[i]) : i \in DOMAIN r.entries}

Init ==
  /\ now = 0
  /\ \/ shifts = {} /\ approved = {}
     \/ \E r \in Earlier : shifts = Rows(r) /\ approved = {row.key : row \in Rows(r)}
  /\ tap = [e \in Employees |-> NoTap]
  /\ request \in [Jobs -> Requests]
  /\ pc = [j \in Jobs |-> "find"]
  /\ at = [j \in Jobs |-> 1]
  /\ made = [j \in Jobs |-> {}]
  /\ touched = [j \in Jobs |-> {}]

-----------------------------------------------------------------------------
(* What a job asks, sees and waits for *)

Entries(j) == request[j].entries
Asked(j) == Entries(j)[at[j]]
Seen(j) == shifts \cup made[j]

\* opened_at < ended_at and (closed_at is null or closed_at > started_at).
Overlaps(row, e, entry) ==
  row.employee = e /\ row.from < entry.to /\ (row.to = Open \/ row.to > entry.from)

\* Faulty variant: the employee is read without select_for_update.
HoldsNothing(j) == FALSE
HoldsEmployee(j) == pc[j] \in {"check", "insert"} \/ made[j] # {}

\* Job j waits until the transaction of job k ends.
WaitsFor(j, k) ==
  /\ j # k
  /\ \/ pc[j] = "lock" /\ HoldsEmployee(k) /\ request[k].employee = request[j].employee
     \/ pc[j] = "insert" /\ \E row \in made[k] : row.key = Asked(j).key
     \/ pc[j] = "approve" /\ Asked(j).key \in touched[k]
Waits(j) == \E k \in Jobs : WaitsFor(j, k)

-----------------------------------------------------------------------------
(* record_manual_shift, once or in the loop of create_manual_week *)

Goto(j, label) == pc' = [pc EXCEPT ![j] = label]

NextEntry(j) ==
  IF at[j] < Len(Entries(j))
  THEN at' = [at EXCEPT ![j] = at[j] + 1] /\ Goto(j, "find")
  ELSE Goto(j, "commit") /\ UNCHANGED at

\* record_manual_shift returns a shift; a week approves it.
Returned(j) == IF request[j].week THEN Goto(j, "approve") /\ UNCHANGED at
                                  ELSE NextEntry(j)

\* Rolled back.
Fail(j, label) ==
  /\ Goto(j, label)
  /\ made' = [made EXCEPT ![j] = {}]
  /\ touched' = [touched EXCEPT ![j] = {}]
  /\ UNCHANGED <<tables, at>>

\* The key's shift, whatever it holds, is this one.
FindKey(j) ==
  /\ pc[j] = "find"
  /\ IF \E row \in Seen(j) : row.key = Asked(j).key
     THEN Returned(j)
     ELSE Goto(j, "lock") /\ UNCHANGED at
  /\ UNCHANGED <<tables, made, touched>>

LockEmployee(j) ==
  /\ pc[j] = "lock"
  /\ ~Waits(j)
  /\ Goto(j, "check")
  /\ UNCHANGED <<tables, at, made, touched>>

CheckOverlap(j) ==
  /\ pc[j] = "check"
  /\ IF \E row \in Seen(j) : Overlaps(row, request[j].employee, Asked(j))
     THEN Fail(j, "conflict")
     ELSE Goto(j, "insert") /\ UNCHANGED <<tables, at, made, touched>>

\* In the transaction.
Store(j, row) == made' = [made EXCEPT ![j] = made[j] \cup {row}] /\ UNCHANGED shifts

\* The shift and its two events; the key may have been taken in the meantime,
\* which nothing catches.
Insert(j) ==
  /\ pc[j] = "insert"
  /\ ~Waits(j)
  /\ IF \E row \in shifts : row.key = Asked(j).key
     THEN Fail(j, "server_error")
     ELSE /\ Store(j, Wanted(request[j], Asked(j)))
          /\ Returned(j)
          /\ UNCHANGED <<approved, touched>>

Touched(j) == touched[j] \cup {Asked(j).key}

Approve(j) ==
  /\ pc[j] = "approve"
  /\ ~Waits(j)
  /\ touched' = [touched EXCEPT ![j] = Touched(j)]
  /\ NextEntry(j)
  /\ UNCHANGED <<tables, made>>

\* Faulty variant: the approvals are lost.
CommitShiftsOnly(j) == shifts' = shifts \cup made[j] /\ UNCHANGED approved
Publish(j) == shifts' = shifts \cup made[j] /\ approved' = approved \cup touched[j]

Commit(j) ==
  /\ pc[j] = "commit"
  /\ Publish(j)
  /\ made' = [made EXCEPT ![j] = {}]
  /\ touched' = [touched EXCEPT ![j] = {}]
  /\ Goto(j, "done")
  /\ UNCHANGED at

\* PostgreSQL cancels one of the transactions that wait for each other.
Deadlocked(j) ==
  \E cycle \in SUBSET Jobs :
    /\ j \in cycle
    /\ \A k \in cycle : /\ \E l \in cycle : WaitsFor(k, l)
                        /\ \E l \in cycle : WaitsFor(l, k)
BreakDeadlock(j) == Deadlocked(j) /\ Fail(j, "deadlock")

WorkerDies(j) == pc[j] \notin Ended /\ Fail(j, "dead")

Step(j) ==
  /\ \/ FindKey(j) \/ LockEmployee(j) \/ CheckOverlap(j) \/ Insert(j)
     \/ Approve(j) \/ Commit(j) \/ BreakDeadlock(j)
  /\ UNCHANGED <<now, tap, request>>

-----------------------------------------------------------------------------
(* The kiosk, where each employee comes and goes once *)

Tap(e) ==
  /\ tap[e] = NoTap
  /\ \A row \in shifts : row.employee = e => row.key # Kiosk
  /\ tap' = [tap EXCEPT ![e] = now]
  /\ UNCHANGED <<now, tables, request, pc, at, made, touched>>

ClockIn(e) ==
  /\ tap[e] # NoTap
  /\ \A j \in Jobs : ~(HoldsEmployee(j) /\ request[j].employee = e)
  /\ shifts' = shifts \cup {[employee |-> e, from |-> tap[e], to |-> Open, key |-> Kiosk]}
  /\ tap' = [tap EXCEPT ![e] = NoTap]
  /\ UNCHANGED <<now, approved, request, pc, at, made, touched>>

ClockOut(row) ==
  /\ row.to = Open
  /\ shifts' = (shifts \ {row}) \cup {[row EXCEPT !.to = now]}
  /\ UNCHANGED <<now, approved, tap, request, pc, at, made, touched>>

Tick ==
  /\ now < MaxTime
  /\ now' = now + 1
  /\ UNCHANGED <<tables, tap, request, pc, at, made, touched>>

Next ==
  \/ \E j \in Jobs : Step(j) \/ (WorkerDies(j) /\ UNCHANGED <<now, tap, request>>)
  \/ \E e \in Employees : Tap(e) \/ ClockIn(e)
  \/ \E row \in shifts : ClockOut(row)
  \/ Tick

Spec == Init /\ [][Next]_vars

-----------------------------------------------------------------------------
(* Properties *)

\* What a manager's transaction makes visible overlaps no shift of the
\* employee that is visible then, whoever else was recording at the time.
RecordedApart ==
  [][\A row \in shifts' \ shifts :
       row.key # Kiosk =>
         \A other \in shifts' \ {row} : ~Overlaps(other, row.employee, row)]_vars

\* A request answered with success has every key it asked for recorded, and a
\* week approved; and as it asked, if nobody, now or earlier, uses the key for
\* something else.
Forms == {request[k] : k \in Jobs} \cup Earlier
Unshared(j, entry) ==
  \A r \in Forms : \A row \in Rows(r) :
    row.key = entry.key => row = Wanted(request[j], entry)
DoneIsRecorded ==
  \A j \in Jobs : pc[j] = "done" => \A i \in DOMAIN Entries(j) :
    LET entry == Entries(j)[i] IN
    /\ \E row \in shifts : row.key = entry.key
    /\ request[j].week => entry.key \in approved
    /\ Unshared(j, entry) => Wanted(request[j], entry) \in shifts

\* A form is answered with a server error only if its key is, now or earlier,
\* used for something else: copies of a form that pass the look-up of the key
\* together come apart at the employee's lock, never at the unique index.
ServerErrorIsEarned ==
  \A j \in Jobs : pc[j] = "server_error" => ~Unshared(j, Asked(j))

\* A request sent again is answered as it was the first time
\* (test_manual_range_is_idempotent): it is not in conflict with itself.
ResendAccepted ==
  \A j \in Jobs : pc[j] = "conflict" =>
    \E row \in shifts : /\ Overlaps(row, request[j].employee, Asked(j))
                        /\ row # Wanted(request[j], Asked(j))
=============================================================================
