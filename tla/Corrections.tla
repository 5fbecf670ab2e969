----------------------------- MODULE Corrections -----------------------------
(***************************************************************************)
(* The two views of apps/attendance/manager_views.py that act on a closed  *)
(* shift, approve_shift and correct_shift_times, with the services they    *)
(* call (corrections.py, approvals.py), run by several managers at once on *)
(* one shift.                                                              *)
(*                                                                         *)
(* Nothing locks the shift.  A correction is created and approved in one   *)
(* READ COMMITTED transaction, which sees its own row and what others have *)
(* committed; an approval is one statement of its own.  Only the row of    *)
(* the approval is locked, from the statement that writes it to the end of *)
(* its transaction.                                                        *)
(*                                                                         *)
(* Corrections are named by their place in the order (created_at, id), in  *)
(* which a later one supersedes an earlier one; 0 names the raw punches.   *)
(* Times and reasons are abstracted to whether calculate accepts them.     *)
(* The audit entries, which nothing reads back, are left out; so are       *)
(* correction requests, which no view creates.                             *)
(***************************************************************************)
EXTENDS Naturals, Sequences

CONSTANTS
  Jobs,          \* requests; each runs once
  NotApproved    \* there is no approval row

ASSUME CorrectionsAssumption == NotApproved \notin Nat

VARIABLES
  rawValid,      \* calculate accepts the raw punches; never changes
  corrections,   \* Seq([supersedes, state]): the attendance_shiftcorrection rows
  pinned,        \* the correction the approval row points to
  kind,          \* the view each job runs
  pc,            \* where it is, or how it ended
  previous,      \* create_correction's local variable
  own,           \* the row it has inserted; 0 before
  latest         \* approve_shift's local variable

tables == <<rawValid, corrections, pinned>>
vars == <<rawValid, corrections, pinned, kind, pc, previous, own, latest>>

Correction == [supersedes : Nat, state : {"open", "committed", "rolled_back"}]
Ended == {"approved", "corrected", "refused", "dead"}
Pc == Ended \cup {"idle", "previous", "insert", "latest", "upsert", "commit"}

TypeOK ==
  /\ rawValid \in BOOLEAN
  /\ corrections \in Seq(Correction)
  /\ pinned \in Nat \cup {NotApproved}
  /\ kind \in [Jobs -> {"approve", "correct"}]
  /\ pc \in [Jobs -> Pc]
  /\ previous \in [Jobs -> Nat]
  /\ own \in [Jobs -> Nat]
  /\ latest \in [Jobs -> Nat]

Init ==
  /\ rawValid \in BOOLEAN
  /\ corrections = <<>>
  /\ pinned = NotApproved
  /\ kind \in [Jobs -> {"approve", "correct"}]
  /\ pc = [j \in Jobs |-> "idle"]
  /\ previous = [j \in Jobs |-> 0]
  /\ own = [j \in Jobs |-> 0]
  /\ latest = [j \in Jobs |-> 0]

-----------------------------------------------------------------------------
(* What a query sees *)

Committed == {c \in DOMAIN corrections : corrections[c].state = "committed"}

\* current_correction: order_by("-created_at", "-id").first().  Faulty
\* variant: Meta.ordering, the oldest first.
Oldest(seen) == IF seen = {} THEN 0 ELSE CHOOSE c \in seen : \A d \in seen : c <= d
Newest(seen) == CHOOSE c \in seen \cup {0} : \A d \in seen : d <= c
Current == Newest(Committed)

\* The same inside the transaction of job j, which has inserted a row.
CurrentFor(j) == Newest(Committed \cup (IF own[j] = 0 THEN {} ELSE {own[j]}))

\* calculate accepts the effective events: every correction was checked by it
\* before it was created.
Valid(c) == c # 0 \/ rawValid

\* approval_status
Status == IF pinned = NotApproved THEN "PENDING"
          ELSE IF pinned = Current THEN "APPROVED" ELSE "STALE"

\* The approval's row is not locked by an open transaction.
ApprovalLockFree == \A j \in Jobs : pc[j] # "commit"

-----------------------------------------------------------------------------
(* Steps of one job *)

Goto(j, label) == pc' = [pc EXCEPT ![j] = label]

\* The view reads the effective events and has calculate check them.  Faulty
\* variant: approve_shift does not ask calculate.
CheckNothing(j) == Goto(j, IF kind[j] = "approve" THEN "latest" ELSE "previous")
Check(j) ==
  \/ kind[j] = "approve" /\ Goto(j, IF Valid(Current) THEN "latest" ELSE "refused")
  \/ kind[j] = "correct" /\ \E label \in {"previous", "refused"} : Goto(j, label)
Start(j) ==
  /\ pc[j] = "idle"
  /\ Check(j)
  /\ UNCHANGED <<tables, kind, previous, own, latest>>

\* create_correction, in the transaction: the correction to supersede ...
ReadPrevious(j) ==
  /\ pc[j] = "previous"
  /\ previous' = [previous EXCEPT ![j] = CurrentFor(j)]
  /\ Goto(j, "insert")
  /\ UNCHANGED <<tables, kind, own, latest>>

\* ... and the new row.  Faulty variant: it is linked only afterwards, to
\* what is current by then.
LinkedLate(j) == [supersedes |-> Len(corrections) + 1, state |-> "open"]
NewCorrection(j) == [supersedes |-> previous[j], state |-> "open"]
Insert(j) ==
  /\ pc[j] = "insert"
  /\ corrections' = Append(corrections, NewCorrection(j))
  /\ own' = [own EXCEPT ![j] = Len(corrections) + 1]
  /\ Goto(j, "latest")
  /\ UNCHANGED <<rawValid, pinned, kind, previous, latest>>

\* The service approve_shift, of both views: what is current ...
ReadLatest(j) ==
  /\ pc[j] = "latest"
  /\ latest' = [latest EXCEPT ![j] = CurrentFor(j)]
  /\ Goto(j, "upsert")
  /\ UNCHANGED <<tables, kind, previous, own>>

\* ... and update_or_create, which waits for the approval's row or for a row
\* about to be inserted.  Inside a transaction the change is not yet seen.
Upsert(j) ==
  /\ pc[j] = "upsert"
  /\ ApprovalLockFree
  /\ \/ /\ kind[j] = "approve"
        /\ pinned' = latest[j]
        /\ Goto(j, "approved")
     \/ kind[j] = "correct" /\ Goto(j, "commit") /\ UNCHANGED pinned
  /\ UNCHANGED <<rawValid, corrections, kind, previous, own, latest>>

\* The correction's row as its transaction ends.
EndRow(c, state) ==
  corrections' = [corrections EXCEPT ![c] =
                    [supersedes |-> corrections[c].supersedes, state |-> state]]

Commit(j) ==
  /\ pc[j] = "commit"
  /\ EndRow(own[j], "committed")
  /\ pinned' = latest[j]
  /\ Goto(j, "corrected")
  /\ UNCHANGED <<rawValid, kind, previous, own, latest>>

\* The worker is killed: its transaction is rolled back.
WorkerDies(j) ==
  /\ pc[j] \notin Ended \cup {"idle"}
  /\ Goto(j, "dead")
  /\ IF own[j] = 0 THEN UNCHANGED corrections ELSE EndRow(own[j], "rolled_back")
  /\ UNCHANGED <<rawValid, pinned, kind, previous, own, latest>>

Step(j) == Start(j) \/ ReadPrevious(j) \/ Insert(j) \/ ReadLatest(j) \/ Upsert(j) \/ Commit(j)

Next == \E j \in Jobs : Step(j) \/ WorkerDies(j)

Spec == Init /\ [][Next]_vars

-----------------------------------------------------------------------------
(* Properties *)

\* Although a view checks one state and its service approves another, read
\* later, no sequence of events that calculate rejects is ever approved.
ApprovedIsPayable == Status = "APPROVED" => Valid(Current)

\* The links of the corrections lead back to the raw punches: a correction
\* supersedes an older one that was committed, whatever ran beside it.
SupersedesCommitted ==
  \A c \in DOMAIN corrections :
    corrections[c].supersedes \in {d \in Committed \cup {0} : d < c}

\* "supersedes links to the prior correction so the chain only ever grows"
\* (attendance/models.py): no two corrections supersede the same one.
ChainNeverForks ==
  \A c, d \in Committed : corrections[c].supersedes = corrections[d].supersedes => c = d

\* "Approve the shift's current effective state" (approvals.py): an approval
\* that is written is one of the state that is current then.
ApprovesCurrentState ==
  [][\A j \in Jobs : pc[j] # "approved" /\ pc'[j] = "approved" => pinned' = Current']_vars

\* For its readers the shift changes as ShiftReview says: the current
\* correction never falls back to an older one, and an approval that misses
\* it is stale, never taken for one of the current state.
Review == INSTANCE ShiftReview WITH current <- Current, approval <- Status
ImplementsReview == Review!Spec
=============================================================================
