----------------------------- MODULE PayrollClose -----------------------------
(***************************************************************************)
(* The monthly close (apps/payroll/services/close.py, month_close.py,      *)
(* views.py and the command finalize_previous_payroll) of one month that   *)
(* has ended, run by several web workers and by the daily scheduled task   *)
(* while managers go on approving and correcting the month's shifts.       *)
(*                                                                         *)
(* A job is one request or one run of the command, and a small program     *)
(* over three tables: the month's payroll period (status), its snapshots   *)
(* and the attendance.  The payload is built and the blockers are          *)
(* collected by queries outside any transaction, one shift after the       *)
(* other; only the snapshot and the new status are written under the row   *)
(* lock of the period.                                                     *)
(*                                                                         *)
(* A shift's effective events are named by their version: 0 for the raw    *)
(* punches, n for the n-th correction to become current.  Wages are set    *)
(* and event sequences valid: they only add reasons to block.              *)
(***************************************************************************)
EXTENDS Naturals, Sequences, FiniteSets

CONSTANTS
  Jobs,         \* requests and command runs; each runs once
  Shifts,       \* shifts that are or may become part of the month
  MaxVersion,   \* bound: corrections per shift
  NotPaid       \* what a payload says of a shift it leaves out

ASSUME PayrollCloseAssumption ==
  /\ MaxVersion \in Nat
  /\ NotPaid \notin Nat

VARIABLES
  rows,        \* attendance: each shift's row, as the month's queries see it
  status,      \* PayrollPeriod.status; "NONE" before the row exists
  snapshots,   \* PayrollSnapshot rows, in the order they were committed
  audit,       \* AuditLogEntry rows of the period
  kind,        \* what each job does: "close", "auto" or "reopen"
  pc,          \* where each job is, or how it ended
  todo,        \* shifts the job's current loop has still to visit
  lines,       \* the payload the job has built: the version paid per shift
  seen         \* the latest version the job read under the period's lock

period == <<status, snapshots, audit>>
locals == <<todo, lines, seen>>
vars == <<rows, status, snapshots, audit, kind, pc, todo, lines, seen>>

Row == [state : {"absent", "open", "closed"}, inMonth : BOOLEAN,
        version : 0..MaxVersion, approval : {"PENDING", "APPROVED", "STALE"}]
Payload == [Shifts -> 0..MaxVersion \cup {NotPaid}]
Snapshot == [version : Nat, supersedes : Nat, payload : Payload,
             reason : {"manual", "automatic"}]
Entry == [action : {"CLOSE", "REOPEN"}, version : Nat]
Kind == {"close", "auto", "reopen"}
Ended == {"closed", "already_closed", "blocked", "left_alone", "reopened",
          "not_found", "server_error", "dead"}
Pc == Ended \cup {"idle", "prepare", "look", "build", "open_check", "check",
                  "lock", "write", "reopen", "audit"}

TypeOK ==
  /\ rows \in [Shifts -> Row]
  /\ status \in {"NONE", "DRAFT", "CLOSED"}
  /\ snapshots \in Seq(Snapshot)
  /\ audit \in Seq(Entry)
  /\ kind \in [Jobs -> Kind]
  /\ pc \in [Jobs -> Pc]
  /\ todo \in [Jobs -> SUBSET Shifts]
  /\ lines \in [Jobs -> Payload]
  /\ seen \in [Jobs -> Nat]

NoLines == [s \in Shifts |-> NotPaid]

\* The month's shifts as they may be found when the first job starts.
RawRow(state) == [state |-> state, inMonth |-> TRUE, version |-> 0,
                  approval |-> "PENDING"]

Init ==
  /\ rows \in [Shifts -> {RawRow(state) : state \in {"absent", "open", "closed"}}]
  /\ status = "NONE"
  /\ snapshots = <<>>
  /\ audit = <<>>
  /\ kind \in [Jobs -> Kind]
  /\ pc = [j \in Jobs |-> "idle"]
  /\ todo = [j \in Jobs |-> {}]
  /\ lines = [j \in Jobs |-> NoLines]
  /\ seen = [j \in Jobs |-> 0]

-----------------------------------------------------------------------------
(* What a query sees *)

OpenInMonth(s) == rows[s].state = "open" /\ rows[s].inMonth

\* What monthly_payroll_lines pays for a shift.
Payable(s) == IF rows[s].state = "closed" /\ rows[s].inMonth
              THEN rows[s].version ELSE NotPaid

\* The approval gate of collect_blockers.  Faulty variant: left out.
NeverBlocks(s) == FALSE
Unapproved(s) ==
  /\ rows[s].state = "closed"
  /\ rows[s].inMonth
  /\ rows[s].approval # "APPROVED"

\* SELECT ... FOR UPDATE of the period.
PeriodLockFree == \A j \in Jobs : pc[j] # "write"

\* close_period finds the month closed already.
AlreadyClosed == status = "CLOSED" /\ snapshots # <<>>

\* The unique constraint one_snapshot_per_version.
VersionIndexAllows(v) == \A n \in DOMAIN snapshots : snapshots[n].version # v

\* The snapshot close_period writes.  Faulty variant: supersedes is not set.
Unlinked(j) == [version |-> seen[j] + 1, supersedes |-> 0, payload |-> lines[j],
                reason |-> IF kind[j] = "auto" THEN "automatic" ELSE "manual"]
NewSnapshot(j) ==
  [version |-> seen[j] + 1, supersedes |-> seen[j], payload |-> lines[j],
   reason |-> IF kind[j] = "auto" THEN "automatic" ELSE "manual"]

-----------------------------------------------------------------------------
(* Steps of one job *)

Goto(j, label) == pc' = [pc EXCEPT ![j] = label]

\* The job returns: its local variables go out of scope.
End(j, label) ==
  /\ Goto(j, label)
  /\ todo' = [todo EXCEPT ![j] = {}]
  /\ lines' = [lines EXCEPT ![j] = NoLines]
  /\ seen' = [seen EXCEPT ![j] = 0]

\* Starts a loop over the shifts.
Visit(j, label) == /\ Goto(j, label)
                   /\ todo' = [todo EXCEPT ![j] = Shifts]
                   /\ UNCHANGED <<lines, seen>>
\* Has visited shift s, and leaves the loop after the last one.
Visited(j, s, label, next) ==
  /\ todo' = [todo EXCEPT ![j] = @ \ {s}]
  /\ Goto(j, IF todo[j] = {s} THEN next ELSE label)

\* close_month builds the payload first, the command prepares the period
\* first; reopen_month goes straight to the period.
Start(j) ==
  /\ pc[j] = "idle"
  /\ \/ kind[j] = "close" /\ Visit(j, "build")
     \/ kind[j] = "auto" /\ Goto(j, "prepare") /\ UNCHANGED locals
     \/ kind[j] = "reopen" /\ Goto(j, "reopen") /\ UNCHANGED locals
  /\ UNCHANGED <<rows, period, kind>>

\* build_month_payload: the lines of one shift, or the whole build blocked.
BuildLine(j) ==
  /\ pc[j] = "build"
  /\ \E s \in todo[j] :
       \/ OpenInMonth(s) /\ End(j, "blocked")
       \/ /\ ~OpenInMonth(s)
          /\ lines' = [lines EXCEPT ![j] = [@ EXCEPT ![s] = Payable(s)]]
          /\ Visited(j, s, "build",
                     IF kind[j] = "close" THEN "prepare" ELSE "open_check")
          /\ UNCHANGED seen
  /\ UNCHANGED <<rows, period, kind>>

\* prepare_period: get_or_create.
Prepare(j) ==
  /\ pc[j] = "prepare"
  /\ status' = IF status = "NONE" THEN "DRAFT" ELSE status
  /\ Goto(j, IF kind[j] = "close" THEN "open_check" ELSE "look")
  /\ UNCHANGED <<rows, snapshots, audit, kind, locals>>

\* The command leaves a month alone that has a snapshot, closed or reopened.
Look(j) ==
  /\ pc[j] = "look"
  /\ \/ snapshots # <<>> /\ End(j, "left_alone")
     \/ snapshots = <<>> /\ Visit(j, "build")
  /\ UNCHANGED <<rows, period, kind>>

\* collect_blockers: the query for open shifts, then each closed shift.
CheckOpen(j) ==
  /\ pc[j] = "open_check"
  /\ \/ (\E s \in Shifts : OpenInMonth(s)) /\ End(j, "blocked")
     \/ (\A s \in Shifts : ~OpenInMonth(s)) /\ Visit(j, "check")
  /\ UNCHANGED <<rows, period, kind>>

CheckShift(j) ==
  /\ pc[j] = "check"
  /\ \E s \in todo[j] :
       \/ Unapproved(s) /\ End(j, "blocked")
       \/ ~Unapproved(s) /\ Visited(j, s, "check", "lock") /\ UNCHANGED <<lines, seen>>
  /\ UNCHANGED <<rows, period, kind>>

\* close_period finds the month closed: it returns the latest snapshot, and
\* records nothing.  Faulty variant: it falls through to the audit entry.
FallThrough(j) ==
  /\ Goto(j, "audit")
  /\ seen' = [seen EXCEPT ![j] = Len(snapshots) - 1]
  /\ UNCHANGED <<todo, lines>>
AnswerWithLatest(j) == End(j, "already_closed")

\* The transaction takes the period's row lock and reads what was committed.
LockPeriod(j) ==
  /\ pc[j] = "lock"
  /\ PeriodLockFree
  /\ \/ AlreadyClosed /\ AnswerWithLatest(j)
     \/ /\ ~AlreadyClosed
        /\ seen' = [seen EXCEPT ![j] = Len(snapshots)]
        /\ Goto(j, "write")
        /\ UNCHANGED <<todo, lines>>
  /\ UNCHANGED <<rows, period, kind>>

\* The snapshot and the status, in one commit, unless the index refuses it.
Commit(j) ==
  /\ snapshots' = Append(snapshots, NewSnapshot(j))
  /\ status' = "CLOSED"
  /\ Goto(j, "audit")
  /\ UNCHANGED <<audit, locals>>
Write(j) ==
  /\ pc[j] = "write"
  /\ IF VersionIndexAllows(seen[j] + 1) THEN Commit(j)
     ELSE End(j, "server_error") /\ UNCHANGED period
  /\ UNCHANGED <<rows, kind>>

\* reopen_period: 404 without a period, else DRAFT under the row lock.
Reopen(j) ==
  /\ pc[j] = "reopen"
  /\ \/ status = "NONE" /\ Goto(j, "not_found") /\ UNCHANGED status
     \/ /\ status # "NONE"
        /\ PeriodLockFree
        /\ status' = "DRAFT"
        /\ Goto(j, "audit")
  /\ UNCHANGED <<rows, snapshots, audit, kind, locals>>

\* audit.record, after the transaction has been committed.
RecordAudit(j) ==
  /\ pc[j] = "audit"
  /\ \/ /\ kind[j] = "reopen"
        /\ audit' = Append(audit, [action |-> "REOPEN", version |-> 0])
        /\ End(j, "reopened")
     \/ /\ kind[j] # "reopen"
        /\ audit' = Append(audit, [action |-> "CLOSE", version |-> seen[j] + 1])
        /\ End(j, "closed")
  /\ UNCHANGED <<rows, status, snapshots, kind>>

\* The worker or the task is killed; an open transaction is rolled back.
WorkerDies(j) ==
  /\ pc[j] \notin Ended \cup {"idle"}
  /\ End(j, "dead")
  /\ UNCHANGED <<rows, period, kind>>

Step(j) ==
  \/ Start(j) \/ BuildLine(j) \/ Prepare(j) \/ Look(j) \/ CheckOpen(j)
  \/ CheckShift(j) \/ LockPeriod(j) \/ Write(j) \/ Reopen(j) \/ RecordAudit(j)

-----------------------------------------------------------------------------
(* The attendance, changed by other requests *)

ClosedRow(month, version, approval) ==
  [state |-> "closed", inMonth |-> month, version |-> version, approval |-> approval]

\* The CLOCK_OUT of a shift that was still open.
ClockOut(s) ==
  /\ rows[s].state = "open"
  /\ rows' = [rows EXCEPT ![s] = ClosedRow(rows[s].inMonth, 0, "PENDING")]

\* record_manual_shift; create_manual_week approves it in the same transaction.
AddManualShift(s) ==
  /\ rows[s].state = "absent"
  /\ \E approval \in {"PENDING", "APPROVED"} :
       rows' = [rows EXCEPT ![s] = ClosedRow(TRUE, 0, approval)]

\* The approve_shift view.
ApproveShift(s) ==
  /\ rows[s].state = "closed"
  /\ rows' = [rows EXCEPT ![s] = ClosedRow(rows[s].inMonth, rows[s].version, "APPROVED")]

\* correct_shift_times: a correction and its approval in one transaction.  The
\* corrected times may lie in another month.
CorrectShift(s) ==
  /\ rows[s].state = "closed"
  /\ rows[s].version < MaxVersion
  /\ \E month \in BOOLEAN :
       rows' = [rows EXCEPT ![s] = ClosedRow(month, rows[s].version + 1, "APPROVED")]

\* Of two corrections at once the older one may commit last: the newer stays
\* current, the approval is pinned to the older one.
OvertakenCorrection(s) ==
  /\ rows[s].state = "closed"
  /\ rows[s].version > 0
  /\ rows' = [rows EXCEPT ![s] = ClosedRow(rows[s].inMonth, rows[s].version, "STALE")]

AttendanceChanges ==
  /\ \E s \in Shifts : \/ ClockOut(s) \/ AddManualShift(s) \/ ApproveShift(s)
                       \/ CorrectShift(s) \/ OvertakenCorrection(s)
  /\ UNCHANGED <<period, kind, locals, pc>>

Next == (\E j \in Jobs : Step(j) \/ WorkerDies(j)) \/ AttendanceChanges

Spec == Init /\ [][Next]_vars

-----------------------------------------------------------------------------
(* Properties *)

\* The snapshots of a month form one chain, each superseding the one before,
\* never changed, and a month gains a version only by being closed while it
\* is DRAFT: twenty concurrent closes make one snapshot.
Ledger == INSTANCE PayrollLedger
ImplementsLedger == Ledger!Spec

\* A close that loses the race to another one is answered with the winner's
\* snapshot, never with an error of the version constraint.
CloseNeverFails == \A j \in Jobs : pc[j] # "server_error"

\* The audit log has at most one CLOSE entry per version, and none of a
\* version that was not committed, however many closes raced for it.
OneCloseEntryPerVersion ==
  \A i \in DOMAIN audit : audit[i].action = "CLOSE" =>
    /\ audit[i].version \in DOMAIN snapshots
    /\ \A k \in DOMAIN audit :
         audit[k].action = "CLOSE" /\ audit[k].version = audit[i].version => k = i

\* The gate "every shift touching the month must be approved at its current
\* state", as strong as queries before the lock make it: attendance that was
\* never approved is paid only if it has been corrected since.
UnapprovedPayIsSuperseded ==
  \A n \in DOMAIN snapshots : \A s \in Shifts :
    snapshots[n].payload[s] = rows[s].version => rows[s].approval # "PENDING"

\* The payload that is closed is the month's attendance at that moment: a
\* close from a stale preview is rejected (plan, item 11).
ClosePaysCurrentAttendance ==
  [][\A n \in DOMAIN snapshots' \ DOMAIN snapshots : \A s \in Shifts :
       snapshots'[n].payload[s] = Payable(s)]_vars

\* The command "never automatically recloses a period that a manager
\* explicitly reopened" (infra/terraform/scheduler.tf).
AutoNeverRecloses ==
  \A n \in DOMAIN snapshots : snapshots[n].reason = "automatic" => n = 1
=============================================================================
