-------------------------- MODULE ManualShiftsProofs --------------------------
(* Proofs about ManualShifts, for any number of requests, weeks and keys. *)
EXTENDS ManualShifts, TLAPS

-----------------------------------------------------------------------------
(* The inductive invariant *)

\* A job is at an entry of its form; rows in flight are of its employee.
JobFits(j) ==
  /\ at[j] \in DOMAIN Entries(j)
  /\ pc[j] \in {"commit", "done"} => at[j] = Len(Entries(j))
  /\ \A row \in made[j] :
       row.employee = request[j].employee /\ row.key # Kiosk /\ row.to # Open
  /\ pc[j] \in Ended => made[j] = {} /\ touched[j] = {}

\* Only the kiosk leaves shifts open.
OnlyKioskOpen == \A row \in shifts : row.to = Open => row.key = Kiosk

\* No two transactions hold one employee's row.
LockExclusive ==
  \A j, k \in Jobs : HoldsEmployee(j) /\ HoldsEmployee(k)
                       /\ request[j].employee = request[k].employee => j = k

\* What a transaction holding its employee's row has inserted, or is about to
\* insert, overlaps nothing that it sees.
Apart(j) ==
  /\ \A row \in made[j] : \A other \in Seen(j) \ {row} : ~Overlaps(other, row.employee, row)
  /\ pc[j] = "insert" =>
       \A other \in Seen(j) : ~Overlaps(other, request[j].employee, Asked(j))

\* The rows that managers have entered were asked for in some form.
RowsAsked ==
  \A j \in Jobs : \A row \in Seen(j) : row.key # Kiosk => \E r \in Forms : row \in Rows(r)

\* The entries that a job has dealt with.
RecordedBy(j) == IF pc[j] \in {"approve", "commit", "done"} THEN 1..at[j] ELSE 1..(at[j] - 1)
ApprovedBy(j) == IF pc[j] \in {"commit", "done"} THEN 1..at[j] ELSE 1..(at[j] - 1)
Progress(j) ==
  /\ pc[j] \notin Failed => \A i \in RecordedBy(j) :
       \E row \in Seen(j) : row.key = Entries(j)[i].key
  /\ pc[j] \notin Failed /\ request[j].week => \A i \in ApprovedBy(j) :
       Entries(j)[i].key \in approved \cup touched[j]

IInv ==
  /\ TypeOK /\ OnlyKioskOpen /\ LockExclusive /\ RowsAsked
  /\ \A j \in Jobs : JobFits(j) /\ Apart(j) /\ Progress(j)

-----------------------------------------------------------------------------
USE ManualShiftsAssumption

\* Forms, their entries and the rows they ask for.
LEMMA FormFits ==
  ASSUME NEW r \in Requests
  PROVE  /\ r.employee \in Employees /\ r.week \in BOOLEAN /\ r.entries \in Seq(Entry)
         /\ Len(r.entries) \in Nat \ {0} /\ DOMAIN r.entries = 1..Len(r.entries)
         /\ ~r.week => Len(r.entries) = 1
         /\ \A i \in DOMAIN r.entries :
              /\ r.entries[i] \in Entry /\ r.entries[i].key \in Keys
              /\ r.entries[i].from \in Nat /\ r.entries[i].to \in Nat
              /\ r.entries[i].from < r.entries[i].to
  <1>1. r.entries \in Seq(Entry) /\ r.entries # <<>>
    OBVIOUS
  <1>2. \A i \in DOMAIN r.entries : r.entries[i] \in Entry
    BY <1>1
  <1>3. Len(r.entries) \in Nat \ {0} /\ DOMAIN r.entries = 1..Len(r.entries)
    BY <1>1
  <1> QED
    BY <1>1, <1>2, <1>3 DEF Entry

LEMMA WantedFits ==
  ASSUME NEW r \in Requests, NEW i \in DOMAIN r.entries
  PROVE  LET row == Wanted(r, r.entries[i]) IN
         /\ row \in Shift /\ row \in Rows(r)
         /\ row.employee = r.employee /\ row.key = r.entries[i].key
         /\ row.from = r.entries[i].from /\ row.to = r.entries[i].to
         /\ row.key \in Keys /\ row.key # Kiosk /\ row.to \in Nat /\ row.to # Open
  <1>1. Wanted(r, r.entries[i]) \in Shift
    BY FormFits DEF Wanted, Shift
  <1> QED
    BY <1>1, FormFits DEF Wanted, Rows

LEMMA ShiftFits ==
  ASSUME NEW row \in Shift
  PROVE  row.from \in Nat /\ row.to \in Nat \cup {Open} /\ row.key \in Keys \cup {Kiosk}
  BY DEF Shift

LEMMA JobAsks ==
  ASSUME IInv, NEW j \in Jobs
  PROVE  /\ request[j] \in Requests /\ request[j] \in Forms /\ at[j] \in DOMAIN Entries(j)
         /\ Entries(j) = request[j].entries
         /\ Seen(j) \subseteq Shift
         /\ Wanted(request[j], Asked(j)) \in Shift
  <1>1. request[j] \in Requests /\ at[j] \in DOMAIN Entries(j)
    BY DEF IInv, TypeOK, JobFits
  <1> QED
    BY <1>1, WantedFits DEF Forms, Entries, Asked, Seen, IInv, TypeOK

-----------------------------------------------------------------------------
(* A step of one job *)

\* It leaves the job with these values ...
Moves(j, label, entry, rows, keys) ==
  /\ pc' = [pc EXCEPT ![j] = label]
  /\ at' = [at EXCEPT ![j] = entry]
  /\ made' = [made EXCEPT ![j] = rows]
  /\ touched' = [touched EXCEPT ![j] = keys]

\* ... and does not take a row that somebody holds.
TakesFree(j) ==
  HoldsEmployee(j)' => \/ HoldsEmployee(j)
                       \/ \A k \in Jobs \ {j} : ~(HoldsEmployee(k) /\ request[k].employee = request[j].employee)

LEMMA Moved ==
  ASSUME IInv, NEW j \in Jobs, NEW label, NEW entry, NEW rows, NEW keys,
         Moves(j, label, entry, rows, keys)
  PROVE  /\ pc'[j] = label /\ at'[j] = entry /\ made'[j] = rows /\ touched'[j] = keys
         /\ \A k \in Jobs \ {j} : /\ pc'[k] = pc[k] /\ at'[k] = at[k]
                                  /\ made'[k] = made[k] /\ touched'[k] = touched[k]
  BY DEF Moves, IInv, TypeOK

LEMMA Same ==
  ASSUME IInv, NEW j \in Jobs
  PROVE  /\ UNCHANGED at => at' = [at EXCEPT ![j] = at[j]]
         /\ UNCHANGED made => made' = [made EXCEPT ![j] = made[j]]
         /\ UNCHANGED touched => touched' = [touched EXCEPT ![j] = touched[j]]
  BY DEF IInv, TypeOK

LEMMA MoveKeeps ==
  ASSUME IInv, NEW j \in Jobs, UNCHANGED <<now, tap, request, tables>>,
         NEW label \in Pc, NEW entry \in DOMAIN Entries(j), NEW rows \in SUBSET Shift,
         NEW keys \in SUBSET Keys, Moves(j, label, entry, rows, keys),
         \A row \in rows : row \in made[j] \/ row \in Rows(request[j]),
         JobFits(j)', Apart(j)', Progress(j)', TakesFree(j)
  PROVE  IInv'
  <1> USE DEF tables
  <1>1. /\ pc'[j] = label /\ at'[j] = entry /\ made'[j] = rows /\ touched'[j] = keys
        /\ \A k \in Jobs \ {j} : /\ pc'[k] = pc[k] /\ at'[k] = at[k]
                                 /\ made'[k] = made[k] /\ touched'[k] = touched[k]
    BY Moved
  <1>2. TypeOK'
    <2>1. entry \in Nat \ {0}
      BY JobAsks, FormFits
    <2> QED
      BY <2>1 DEF IInv, TypeOK, Moves
  <1>3. OnlyKioskOpen'
    BY DEF IInv, OnlyKioskOpen
  <1>4. LockExclusive'
    BY <1>1 DEF IInv, LockExclusive, TakesFree, HoldsEmployee
  <1>5. RowsAsked'
    <2>1. Forms' = Forms
      BY DEF Forms
    <2>2. ASSUME NEW k \in Jobs, NEW row \in Seen(k)', row.key # Kiosk
          PROVE  \E r \in Forms : row \in Rows(r)
      <3>1. row \in Seen(k) \/ row \in Rows(request[j])
        BY <1>1, <2>2 DEF Seen
      <3> QED
        BY <2>2, <3>1, JobAsks DEF IInv, RowsAsked
    <2> QED
      BY <2>1, <2>2 DEF RowsAsked, Rows
  <1>6. ASSUME NEW k \in Jobs PROVE JobFits(k)' /\ Apart(k)' /\ Progress(k)'
    <2>1. CASE k = j
      BY <2>1
    <2>2. CASE k # j
      <3>1. JobFits(k) /\ Apart(k) /\ Progress(k)
        BY DEF IInv
      <3>2. Entries(k)' = Entries(k) /\ Seen(k)' = Seen(k) /\ Asked(k)' = Asked(k)
        BY <1>1, <2>2 DEF Entries, Seen, Asked
      <3> QED
        BY <1>1, <2>2, <3>1, <3>2
           DEF JobFits, Apart, Progress, RecordedBy, ApprovedBy, Overlaps
    <2> QED
      BY <2>1, <2>2
  <1> QED
    BY <1>2, <1>3, <1>4, <1>5, <1>6 DEF IInv

\* What a request does with an entry that is recorded.
LEMMA NextEntryMoves ==
  ASSUME IInv, NEW j \in Jobs, NextEntry(j)
  PROVE  \E label \in {"find", "commit"}, entry \in DOMAIN Entries(j) :
           /\ pc' = [pc EXCEPT ![j] = label] /\ at' = [at EXCEPT ![j] = entry]
           /\ label = "find" => entry = at[j] + 1
           /\ label = "commit" => entry = at[j] /\ entry = Len(Entries(j))
  <1>1. at[j] \in 1..Len(Entries(j)) /\ Len(Entries(j)) \in Nat /\ DOMAIN Entries(j) = 1..Len(Entries(j))
    BY JobAsks, FormFits
  <1>2. CASE at[j] < Len(Entries(j))
    <2>1. at[j] + 1 \in DOMAIN Entries(j)
      BY <1>1, <1>2
    <2> QED
      BY <1>2, <2>1 DEF NextEntry, Goto
  <1>3. CASE ~(at[j] < Len(Entries(j)))
    BY <1>1, <1>3, Same DEF NextEntry, Goto
  <1> QED
    BY <1>2, <1>3

LEMMA ReturnedMoves ==
  ASSUME IInv, NEW j \in Jobs, Returned(j)
  PROVE  \E label \in {"approve", "commit"} :
           /\ pc' = [pc EXCEPT ![j] = label] /\ at' = [at EXCEPT ![j] = at[j]]
           /\ label = "approve" => request[j].week
           /\ label = "commit" => ~request[j].week /\ at[j] = Len(Entries(j))
  <1>1. CASE request[j].week
    BY <1>1, Same DEF Returned, Goto
  <1>2. CASE ~request[j].week
    <2>1. at[j] = 1 /\ Len(Entries(j)) = 1
      <3>1. at[j] \in 1..Len(Entries(j)) /\ Len(Entries(j)) = 1
        BY <1>2, JobAsks, FormFits
      <3> QED
        BY <3>1
    <2> QED
      BY <1>2, <2>1, Same DEF Returned, NextEntry, Goto
  <1> QED
    BY <1>1, <1>2

\* A step that inserts nothing and does not set out to insert.
LEMMA StaysApart ==
  ASSUME IInv, NEW j \in Jobs, NEW label, NEW entry, NEW keys,
         Moves(j, label, entry, made[j], keys), UNCHANGED <<request, shifts>>, label # "insert"
  PROVE  Apart(j)' /\ Seen(j)' = Seen(j) /\ Entries(j)' = Entries(j)
  <1>1. pc'[j] = label /\ made'[j] = made[j]
    BY Moved
  <1>2. Seen(j)' = Seen(j) /\ Entries(j)' = Entries(j)
    BY <1>1 DEF Seen, Entries
  <1> QED
    BY <1>1, <1>2 DEF IInv, Apart, Overlaps

LEMMA FailInv ==
  ASSUME IInv, NEW j \in Jobs, NEW label \in Failed, Fail(j, label), UNCHANGED <<now, tap, request>>
  PROVE  IInv'
  <1>1. Moves(j, label, at[j], {}, {}) /\ UNCHANGED tables
    BY Same DEF Fail, Goto, Moves
  <1>2. pc'[j] = label /\ at'[j] = at[j] /\ made'[j] = {} /\ touched'[j] = {}
    BY <1>1, Moved
  <1>3. label \notin {"commit", "done", "insert", "check"} /\ label \in Pc
    BY DEF Failed, Pc, Ended
  <1>4. JobFits(j)'
    BY <1>2, <1>3, JobAsks DEF JobFits, Entries
  <1>5. Apart(j)' /\ Progress(j)' /\ TakesFree(j)
    BY <1>2, <1>3 DEF Apart, Progress, TakesFree, HoldsEmployee
  <1> QED
    BY <1>1, <1>3, <1>4, <1>5, JobAsks, MoveKeeps

LEMMA FindKeyInv ==
  ASSUME IInv, NEW j \in Jobs, FindKey(j), UNCHANGED <<now, tap, request>>
  PROVE  IInv'
  <1>1. pc[j] = "find" /\ UNCHANGED <<tables, made, touched>>
    BY DEF FindKey
  <1>2. JobFits(j) /\ Progress(j) /\ made[j] \in SUBSET Shift /\ touched[j] \in SUBSET Keys
    BY DEF IInv, TypeOK
  <1>3. PICK label \in {"approve", "commit", "lock"} :
          /\ pc' = [pc EXCEPT ![j] = label] /\ at' = [at EXCEPT ![j] = at[j]]
          /\ label # "lock" => \E row \in Seen(j) : row.key = Asked(j).key
          /\ label = "approve" => request[j].week
          /\ label = "commit" => ~request[j].week /\ at[j] = Len(Entries(j))
    BY ReturnedMoves, Same DEF FindKey, Goto
  <1>4. Moves(j, label, at[j], made[j], touched[j])
    BY <1>1, <1>3, Same DEF Moves
  <1>5. pc'[j] = label /\ at'[j] = at[j] /\ made'[j] = made[j] /\ touched'[j] = touched[j]
    BY <1>4, Moved
  <1>6. Apart(j)' /\ Seen(j)' = Seen(j) /\ Entries(j)' = Entries(j)
    BY <1>1, <1>4, StaysApart DEF tables
  <1>7. JobFits(j)'
    BY <1>2, <1>3, <1>5, <1>6 DEF JobFits, Ended, Failed
  <1>8. Progress(j)'
    <2>1. \A i \in RecordedBy(j)' : \E row \in Seen(j) : row.key = Entries(j)[i].key
      <3>1. \A i \in 1..(at[j] - 1) : \E row \in Seen(j) : row.key = Entries(j)[i].key
        BY <1>1, <1>2 DEF Progress, RecordedBy, Failed
      <3>2. RecordedBy(j)' = IF label = "lock" THEN 1..(at[j] - 1) ELSE 1..at[j]
        BY <1>3, <1>5 DEF RecordedBy
      <3>3. at[j] \in Nat \ {0}
        BY DEF IInv, TypeOK
      <3> QED
        BY <1>3, <3>1, <3>2, <3>3 DEF Asked
    <2>2. request[j].week => ApprovedBy(j)' = ApprovedBy(j)
      BY <1>1, <1>3, <1>5 DEF ApprovedBy
    <2> QED
      BY <1>1, <1>2, <1>3, <1>5, <1>6, <2>1, <2>2 DEF Progress, tables, Failed
  <1>9. TakesFree(j)
    BY <1>3, <1>5 DEF TakesFree, HoldsEmployee
  <1>10. label \in Pc
    BY <1>3 DEF Pc
  <1> QED
    BY <1>1, <1>2, <1>4, <1>6, <1>7, <1>8, <1>9, <1>10, JobAsks, MoveKeeps

LEMMA LockEmployeeInv ==
  ASSUME IInv, NEW j \in Jobs, LockEmployee(j), UNCHANGED <<now, tap, request>>
  PROVE  IInv'
  <1>1. Moves(j, "check", at[j], made[j], touched[j]) /\ UNCHANGED tables /\ pc[j] = "lock"
    BY Same DEF LockEmployee, Goto, Moves
  <1>2. pc'[j] = "check" /\ at'[j] = at[j] /\ made'[j] = made[j] /\ touched'[j] = touched[j]
    BY <1>1, Moved
  <1>3. JobFits(j) /\ Progress(j) /\ made[j] \in SUBSET Shift /\ touched[j] \in SUBSET Keys
    BY DEF IInv, TypeOK
  <1>4. Apart(j)' /\ Seen(j)' = Seen(j) /\ Entries(j)' = Entries(j)
    BY <1>1, StaysApart DEF tables
  <1>5. JobFits(j)'
    BY <1>2, <1>3, <1>4 DEF JobFits, Ended, Failed
  <1>6. Progress(j)'
    BY <1>1, <1>2, <1>3, <1>4 DEF Progress, RecordedBy, ApprovedBy, Failed, tables
  <1>7. TakesFree(j)
    BY DEF LockEmployee, Waits, WaitsFor, TakesFree
  <1> QED
    BY <1>1, <1>3, <1>4, <1>5, <1>6, <1>7, JobAsks, MoveKeeps DEF Pc

LEMMA CheckOverlapInv ==
  ASSUME IInv, NEW j \in Jobs, CheckOverlap(j), UNCHANGED <<now, tap, request>>
  PROVE  IInv'
  <1>1. CASE Fail(j, "conflict")
    BY <1>1, FailInv DEF Failed
  <1>2. CASE /\ ~\E row \in Seen(j) : Overlaps(row, request[j].employee, Asked(j))
             /\ Goto(j, "insert") /\ UNCHANGED <<tables, at, made, touched>>
    <2>1. Moves(j, "insert", at[j], made[j], touched[j]) /\ UNCHANGED tables /\ pc[j] = "check"
      BY <1>2, Same DEF CheckOverlap, Goto, Moves
    <2>2. pc'[j] = "insert" /\ at'[j] = at[j] /\ made'[j] = made[j] /\ touched'[j] = touched[j]
      BY <2>1, Moved
    <2>3. JobFits(j) /\ Progress(j) /\ Apart(j) /\ made[j] \in SUBSET Shift /\ touched[j] \in SUBSET Keys
      BY DEF IInv, TypeOK
    <2>4. Seen(j)' = Seen(j) /\ Entries(j)' = Entries(j) /\ Asked(j)' = Asked(j)
      BY <2>1, <2>2 DEF Seen, Entries, Asked, tables
    <2>5. JobFits(j)'
      BY <2>2, <2>3, <2>4 DEF JobFits, Ended, Failed
    <2>6. Progress(j)'
      BY <2>1, <2>2, <2>3, <2>4 DEF Progress, RecordedBy, ApprovedBy, Failed, tables
    <2>7. Apart(j)'
      BY <1>2, <2>2, <2>3, <2>4 DEF Apart, Overlaps
    <2>8. TakesFree(j)
      BY <2>1 DEF TakesFree, HoldsEmployee
    <2> QED
      BY <2>1, <2>3, <2>4, <2>5, <2>6, <2>7, <2>8, JobAsks, MoveKeeps DEF Pc
  <1> QED
    BY <1>1, <1>2 DEF CheckOverlap

LEMMA InsertInv ==
  ASSUME IInv, NEW j \in Jobs, Insert(j), UNCHANGED <<now, tap, request>>
  PROVE  IInv'
  <1>1. CASE Fail(j, "server_error")
    BY <1>1, FailInv DEF Failed
  <1>2. CASE /\ Store(j, Wanted(request[j], Asked(j))) /\ Returned(j)
             /\ UNCHANGED <<approved, touched>>
    <2> PICK new : new = Wanted(request[j], Asked(j))
      OBVIOUS
    <2> PICK rows : rows = made[j] \cup {new}
      OBVIOUS
    <2>1. made' = [made EXCEPT ![j] = rows] /\ UNCHANGED <<tables, touched>> /\ pc[j] = "insert"
      BY <1>2 DEF Insert, Store, tables
    <2>2. PICK label \in {"approve", "commit"} :
            /\ pc' = [pc EXCEPT ![j] = label] /\ at' = [at EXCEPT ![j] = at[j]]
            /\ label = "approve" => request[j].week
            /\ label = "commit" => ~request[j].week /\ at[j] = Len(Entries(j))
      BY <1>2, ReturnedMoves
    <2>3. Moves(j, label, at[j], rows, touched[j])
      BY <2>1, <2>2, Same DEF Moves
    <2>4. pc'[j] = label /\ at'[j] = at[j] /\ made'[j] = rows /\ touched'[j] = touched[j]
      BY <2>3, Moved
    <2>5. /\ JobFits(j) /\ Progress(j) /\ Apart(j)
          /\ made[j] \in SUBSET Shift /\ touched[j] \in SUBSET Keys
      BY DEF IInv, TypeOK
    <2>6. /\ new \in Shift /\ new \in Rows(request[j])
          /\ new.employee = request[j].employee /\ new.key = Asked(j).key
          /\ new.from = Asked(j).from /\ new.to = Asked(j).to
          /\ new.key # Kiosk /\ new.from \in Nat /\ new.to \in Nat /\ new.to # Open
      BY JobAsks, WantedFits, ShiftFits DEF Asked
    <2>7. Seen(j)' = Seen(j) \cup {new} /\ Entries(j)' = Entries(j)
      BY <2>1, <2>4 DEF Seen, Entries, tables
    <2>8. JobFits(j)'
      BY <2>2, <2>4, <2>5, <2>6, <2>7 DEF JobFits, Ended, Failed
    <2>9. Progress(j)'
      <3>1. \A i \in 1..at[j] : \E row \in Seen(j) \cup {new} : row.key = Entries(j)[i].key
        <4>1. \A i \in 1..(at[j] - 1) : \E row \in Seen(j) : row.key = Entries(j)[i].key
          BY <2>1, <2>5 DEF Progress, RecordedBy, Failed
        <4>2. at[j] \in Nat \ {0}
          BY DEF IInv, TypeOK
        <4> QED
          BY <2>6, <4>1, <4>2 DEF Asked
      <3>2. RecordedBy(j)' = 1..at[j] /\ (request[j].week => ApprovedBy(j)' = ApprovedBy(j))
        BY <2>1, <2>2, <2>4 DEF RecordedBy, ApprovedBy
      <3> QED
        BY <2>1, <2>4, <2>5, <2>7, <3>1, <3>2 DEF Progress, tables, Failed
    <2>10. Apart(j)'
      <3>1. ASSUME NEW other \in Seen(j) PROVE ~Overlaps(other, new.employee, new)
        BY <2>1, <2>5, <2>6 DEF Apart, Overlaps
      <3>2. ASSUME NEW row \in made[j] PROVE ~Overlaps(new, row.employee, row)
        <4>1. /\ row \in Seen(j) /\ row.to # Open /\ row.employee = new.employee
              /\ row.from \in Nat /\ row.to \in Nat
          BY <2>5, <2>6, ShiftFits DEF Seen, JobFits
        <4> QED
          BY <2>6, <3>1, <4>1 DEF Overlaps
      <3>3. ASSUME NEW row \in rows, NEW other \in (Seen(j) \cup {new}) \ {row}
            PROVE  ~Overlaps(other, row.employee, row)
        BY <2>5, <3>1, <3>2, <3>3 DEF Apart
      <3> QED
        BY <2>2, <2>4, <2>7, <3>3 DEF Apart, Overlaps
    <2>11. TakesFree(j) /\ label \in Pc
      BY <2>1, <2>2 DEF TakesFree, HoldsEmployee, Pc
    <2>12. rows \in SUBSET Shift /\ \A row \in rows : row \in made[j] \/ row \in Rows(request[j])
      BY <2>5, <2>6
    <2> QED
      BY <2>1, <2>3, <2>5, <2>8, <2>9, <2>10, <2>11, <2>12, JobAsks, MoveKeeps
  <1> QED
    BY <1>1, <1>2 DEF Insert

LEMMA ApproveInv ==
  ASSUME IInv, NEW j \in Jobs, Approve(j), UNCHANGED <<now, tap, request>>
  PROVE  IInv'
  <1> PICK keys : keys = touched[j] \cup {Asked(j).key}
    OBVIOUS
  <1>1. pc[j] = "approve" /\ touched' = [touched EXCEPT ![j] = keys] /\ UNCHANGED <<tables, made>>
    BY DEF Approve, Touched
  <1>2. PICK label \in {"find", "commit"}, entry \in DOMAIN Entries(j) :
          /\ pc' = [pc EXCEPT ![j] = label] /\ at' = [at EXCEPT ![j] = entry]
          /\ label = "find" => entry = at[j] + 1
          /\ label = "commit" => entry = at[j] /\ entry = Len(Entries(j))
    BY NextEntryMoves DEF Approve
  <1>3. Moves(j, label, entry, made[j], keys)
    BY <1>1, <1>2, Same DEF Moves
  <1>4. pc'[j] = label /\ at'[j] = entry /\ made'[j] = made[j] /\ touched'[j] = keys
    BY <1>3, Moved
  <1>5. /\ JobFits(j) /\ Progress(j) /\ made[j] \in SUBSET Shift /\ at[j] \in Nat \ {0}
        /\ keys \in SUBSET Keys
    BY JobAsks, FormFits DEF Asked, IInv, TypeOK
  <1>6. Apart(j)' /\ Seen(j)' = Seen(j) /\ Entries(j)' = Entries(j)
    BY <1>1, <1>2, <1>3, StaysApart DEF tables
  <1>7. JobFits(j)'
    BY <1>2, <1>4, <1>5, <1>6 DEF JobFits, Ended, Failed
  <1>8. Progress(j)'
    <2>1. RecordedBy(j)' = 1..at[j] /\ ApprovedBy(j)' = 1..at[j]
      BY <1>2, <1>4, <1>5 DEF RecordedBy, ApprovedBy
    <2>2. \A i \in 1..at[j] : \E row \in Seen(j) : row.key = Entries(j)[i].key
      BY <1>1, <1>5 DEF Progress, RecordedBy, Failed
    <2>3. request[j].week => \A i \in 1..at[j] : Entries(j)[i].key \in approved \cup keys
      <3>1. request[j].week => \A i \in 1..(at[j] - 1) : Entries(j)[i].key \in approved \cup touched[j]
        BY <1>1, <1>5 DEF Progress, ApprovedBy, Failed
      <3> QED
        BY <1>5, <3>1 DEF Asked
    <2> QED
      BY <1>1, <1>4, <1>6, <2>1, <2>2, <2>3 DEF Progress, tables
  <1>9. TakesFree(j) /\ label \in Pc
    BY <1>2, <1>4 DEF TakesFree, HoldsEmployee, Pc
  <1> QED
    BY <1>1, <1>3, <1>5, <1>6, <1>7, <1>8, <1>9, MoveKeeps

-----------------------------------------------------------------------------
(* Steps that change the tables *)

\* What everybody sees afterwards is what they saw, but for rows that are of
\* no job that holds its employee.
LEMMA CommitInv ==
  ASSUME IInv, NEW j \in Jobs, Commit(j), UNCHANGED <<now, tap, request>>
  PROVE  IInv'
  <1>1. /\ pc[j] = "commit" /\ Moves(j, "done", at[j], {}, {})
        /\ shifts' = shifts \cup made[j] /\ approved' = approved \cup touched[j]
    BY Same DEF Commit, Publish, Goto, Moves
  <1>2. /\ pc'[j] = "done" /\ at'[j] = at[j] /\ made'[j] = {} /\ touched'[j] = {}
        /\ \A k \in Jobs \ {j} : /\ pc'[k] = pc[k] /\ at'[k] = at[k]
                                 /\ made'[k] = made[k] /\ touched'[k] = touched[k]
    BY <1>1, Moved
  <1>3. made[j] \in SUBSET Shift /\ touched[j] \in SUBSET Keys /\ JobFits(j) /\ Progress(j) /\ Apart(j)
    BY DEF IInv, TypeOK
  <1>4. TypeOK'
    BY <1>1, <1>3 DEF IInv, TypeOK, Moves, Pc, Ended
  <1>5. OnlyKioskOpen'
    BY <1>1, <1>3 DEF IInv, OnlyKioskOpen, JobFits
  <1>6. LockExclusive'
    BY <1>2 DEF IInv, LockExclusive, HoldsEmployee
  <1>7. RowsAsked'
    <2>1. ASSUME NEW k \in Jobs, NEW row \in Seen(k)'
          PROVE  row \in Seen(k) \/ row \in Seen(j)
      BY <1>1, <1>2 DEF Seen
    <2> QED
      BY <2>1 DEF IInv, RowsAsked, Forms, Rows
  <1>8. ASSUME NEW k \in Jobs PROVE Entries(k)' = Entries(k) /\ Asked(k)' = Asked(k)
    BY <1>2 DEF Entries, Asked
  <1>9. JobFits(j)' /\ Apart(j)' /\ Progress(j)'
    <2>1. Seen(j)' = Seen(j)
      BY <1>1, <1>2 DEF Seen
    <2>2. RecordedBy(j)' = RecordedBy(j) /\ ApprovedBy(j)' = ApprovedBy(j)
      BY <1>1, <1>2 DEF RecordedBy, ApprovedBy
    <2> QED
      BY <1>1, <1>2, <1>3, <1>8, <2>1, <2>2 DEF JobFits, Apart, Progress, Failed
  <1>10. ASSUME NEW k \in Jobs \ {j} PROVE JobFits(k)' /\ Apart(k)' /\ Progress(k)'
    <2>1. JobFits(k) /\ Apart(k) /\ Progress(k)
      BY DEF IInv
    <2>2. Seen(k)' = Seen(k) \cup made[j]
      BY <1>1, <1>2 DEF Seen
    <2>3. JobFits(k)'
      BY <1>2, <1>8, <2>1 DEF JobFits
    <2>4. Progress(k)'
      BY <1>1, <1>2, <1>8, <2>1, <2>2 DEF Progress, RecordedBy, ApprovedBy
    <2>5. ASSUME HoldsEmployee(k), NEW other \in made[j]
          PROVE  other.employee # request[k].employee
      BY <1>3, <2>5 DEF IInv, LockExclusive, HoldsEmployee, JobFits
    <2>6. Apart(k)'
      BY <1>2, <1>8, <2>1, <2>2, <2>5 DEF Apart, Overlaps, HoldsEmployee, JobFits
    <2> QED
      BY <2>3, <2>4, <2>6
  <1> QED
    BY <1>4, <1>5, <1>6, <1>7, <1>9, <1>10 DEF IInv

\* At the kiosk a row comes or changes that is its own; for whoever holds the
\* employee's row, the shift was there and was not shorter.
Revises(old, new) ==
  /\ shifts' = (shifts \ old) \cup {new}
  /\ new.key = Kiosk /\ \A row \in old : row.key = Kiosk
  /\ \A j \in Jobs : HoldsEmployee(j) /\ request[j].employee = new.employee =>
       \E row \in shifts : /\ row.key = Kiosk
                           /\ \A e, entry : Overlaps(new, e, entry) => Overlaps(row, e, entry)

LEMMA KioskKeeps ==
  ASSUME IInv, UNCHANGED <<approved, request, pc, at, made, touched>>, TypeOK',
         NEW old, NEW new, Revises(old, new)
  PROVE  IInv'
  <1> USE DEF Revises
  <1>1. OnlyKioskOpen'
    BY DEF IInv, OnlyKioskOpen
  <1>2. LockExclusive'
    BY DEF IInv, LockExclusive, HoldsEmployee
  <1>3. RowsAsked'
    <2>1. ASSUME NEW k \in Jobs, NEW row \in Seen(k)' PROVE row \in Seen(k) \/ row.key = Kiosk
      BY DEF Seen
    <2> QED
      BY <2>1 DEF IInv, RowsAsked, Forms, Rows
  <1>4. ASSUME NEW k \in Jobs PROVE JobFits(k)' /\ Apart(k)' /\ Progress(k)'
    <2>1. JobFits(k) /\ Apart(k) /\ Progress(k) /\ at[k] \in DOMAIN Entries(k)
      BY DEF IInv, JobFits
    <2>2. Entries(k)' = Entries(k) /\ Asked(k)' = Asked(k)
      BY DEF Entries, Asked
    <2>3. JobFits(k)'
      BY <2>1, <2>2 DEF JobFits
    <2>4. Progress(k)'
      <3>1. RecordedBy(k) \subseteq DOMAIN Entries(k)
        <4>1. DOMAIN Entries(k) = 1..Len(Entries(k)) /\ Len(Entries(k)) \in Nat
          BY JobAsks, FormFits
        <4> QED
          BY <2>1, <4>1 DEF RecordedBy
      <3>2. \A i \in DOMAIN Entries(k) : Entries(k)[i].key # Kiosk
        BY JobAsks, FormFits
      <3>3. \A row \in Seen(k) : row.key # Kiosk => row \in Seen(k)'
        BY DEF Seen
      <3>4. pc[k] \notin Failed => \A i \in RecordedBy(k) : \E row \in Seen(k)' : row.key = Entries(k)[i].key
        BY <2>1, <3>1, <3>2, <3>3 DEF Progress
      <3> QED
        BY <2>1, <2>2, <3>4 DEF Progress, RecordedBy, ApprovedBy
    <2>5. ASSUME HoldsEmployee(k), NEW entry,
                 \A row \in Seen(k) : row.key = Kiosk => ~Overlaps(row, request[k].employee, entry)
          PROVE  ~Overlaps(new, request[k].employee, entry)
      <3>1. CASE new.employee # request[k].employee
        BY <3>1 DEF Overlaps
      <3>2. CASE new.employee = request[k].employee
        BY <2>5, <3>2 DEF Seen
      <3> QED
        BY <3>1, <3>2
    <2>6. Seen(k)' \subseteq Seen(k) \cup {new}
      BY DEF Seen
    <2>7. ASSUME NEW row \in made[k], NEW other \in Seen(k)' \ {row}
          PROVE  ~Overlaps(other, row.employee, row)
      <3>1. row.employee = request[k].employee /\ row.key # Kiosk /\ HoldsEmployee(k)
        BY <2>1 DEF JobFits, HoldsEmployee
      <3>2. \A seen \in Seen(k) \ {row} : ~Overlaps(seen, request[k].employee, row)
        BY <2>1, <3>1 DEF Apart
      <3> QED
        BY <2>5, <2>6, <3>1, <3>2
    <2>8. ASSUME pc[k] = "insert", NEW other \in Seen(k)'
          PROVE  ~Overlaps(other, request[k].employee, Asked(k))
      BY <2>1, <2>5, <2>6, <2>8 DEF Apart, HoldsEmployee
    <2>9. Apart(k)'
      BY <2>2, <2>7, <2>8 DEF Apart, Overlaps
    <2> QED
      BY <2>3, <2>4, <2>9
  <1> QED
    BY <1>1, <1>2, <1>3, <1>4 DEF IInv

LEMMA ClockInInv == ASSUME IInv, NEW e \in Employees, ClockIn(e) PROVE IInv'
  <1> PICK new : new = [employee |-> e, from |-> tap[e], to |-> Open, key |-> Kiosk]
    OBVIOUS
  <1>1. /\ shifts' = shifts \cup {new} /\ tap' = [tap EXCEPT ![e] = NoTap]
        /\ UNCHANGED now /\ UNCHANGED <<approved, request, pc, at, made, touched>>
    BY DEF ClockIn
  <1>2. new \in Shift /\ new.key = Kiosk /\ new.employee = e
    <2>1. tap[e] \in Nat
      BY DEF ClockIn, IInv, TypeOK, Time
    <2> QED
      BY <2>1 DEF Shift
  <1>3. TypeOK'
    BY <1>1, <1>2 DEF IInv, TypeOK
  <1>4. Revises({}, new)
    BY <1>1, <1>2 DEF ClockIn, Revises
  <1> QED
    BY <1>1, <1>3, <1>4, KioskKeeps

LEMMA ClockOutInv == ASSUME IInv, NEW row \in shifts, ClockOut(row) PROVE IInv'
  <1> PICK new : new = [row EXCEPT !.to = now]
    OBVIOUS
  <1>1. /\ row.to = Open /\ row.key = Kiosk /\ row \in Shift
        /\ shifts' = (shifts \ {row}) \cup {new}
        /\ UNCHANGED <<now, tap>> /\ UNCHANGED <<approved, request, pc, at, made, touched>>
    BY DEF ClockOut, IInv, OnlyKioskOpen, TypeOK
  <1>2. /\ new \in Shift /\ new.key = Kiosk /\ new.employee = row.employee
        /\ new.from = row.from
    <2>1. now \in Nat
      BY DEF IInv, TypeOK, Time
    <2> QED
      BY <1>1, <2>1 DEF Shift
  <1>3. TypeOK'
    BY <1>1, <1>2 DEF IInv, TypeOK
  <1>4. \A e, entry : Overlaps(new, e, entry) => Overlaps(row, e, entry)
    BY <1>1, <1>2 DEF Overlaps
  <1>5. Revises({row}, new)
    BY <1>1, <1>2, <1>4 DEF Revises
  <1> QED
    BY <1>1, <1>3, <1>5, KioskKeeps

\* The clock and a tap change nothing that jobs or shifts are about.
LEMMA OtherInv ==
  ASSUME IInv, UNCHANGED <<tables, request, pc, at, made, touched>>, TypeOK'
  PROVE  IInv'
  <1>1. OnlyKioskOpen' /\ LockExclusive' /\ RowsAsked'
    BY DEF IInv, tables, OnlyKioskOpen, LockExclusive, HoldsEmployee, RowsAsked, Seen, Forms, Rows
  <1>2. ASSUME NEW j \in Jobs PROVE JobFits(j)' /\ Apart(j)' /\ Progress(j)'
    <2>1. JobFits(j) /\ Apart(j) /\ Progress(j)
      BY DEF IInv
    <2> QED
      BY <2>1 DEF tables, JobFits, Apart, Progress, Entries, Asked, Seen, RecordedBy, ApprovedBy, Overlaps
  <1> QED
    BY <1>1, <1>2 DEF IInv

-----------------------------------------------------------------------------
(* Every step *)

LEMMA InitInv == Init => IInv
  <1> SUFFICES ASSUME Init PROVE IInv
    OBVIOUS
  <1>1. \/ shifts = {} /\ approved = {}
        \/ \E r \in Earlier : shifts = Rows(r) /\ approved = {row.key : row \in Rows(r)}
    BY DEF Init
  <1>2. ASSUME NEW row \in shifts
        PROVE  row \in Shift /\ row.to # Open /\ \E r \in Earlier : row \in Rows(r)
    BY <1>1, WantedFits DEF Rows
  <1>3. approved \subseteq Keys
    BY <1>1, WantedFits DEF Rows
  <1>4. TypeOK
    BY <1>2, <1>3 DEF Init, TypeOK, Time, Pc
  <1>5. OnlyKioskOpen /\ LockExclusive /\ RowsAsked
    BY <1>2 DEF Init, OnlyKioskOpen, LockExclusive, HoldsEmployee, RowsAsked, Seen, Forms
  <1>6. ASSUME NEW j \in Jobs PROVE JobFits(j) /\ Apart(j) /\ Progress(j)
    <2>1. 1 \in DOMAIN Entries(j)
      BY FormFits DEF Init, Entries
    <2> QED
      BY <2>1 DEF Init, JobFits, Apart, Progress, RecordedBy, ApprovedBy, Ended, Failed
  <1> QED
    BY <1>4, <1>5, <1>6 DEF IInv

LEMMA StepInv == ASSUME IInv, NEW j \in Jobs, Step(j) PROVE IInv'
  <1>1. UNCHANGED <<now, tap, request>>
    BY DEF Step
  <1>2. CASE FindKey(j)
    BY <1>1, <1>2, FindKeyInv
  <1>3. CASE LockEmployee(j)
    BY <1>1, <1>3, LockEmployeeInv
  <1>4. CASE CheckOverlap(j)
    BY <1>1, <1>4, CheckOverlapInv
  <1>5. CASE Insert(j)
    BY <1>1, <1>5, InsertInv
  <1>6. CASE Approve(j)
    BY <1>1, <1>6, ApproveInv
  <1>7. CASE Commit(j)
    BY <1>1, <1>7, CommitInv
  <1>8. CASE BreakDeadlock(j)
    BY <1>1, <1>8, FailInv DEF BreakDeadlock, Failed
  <1> QED
    BY <1>2, <1>3, <1>4, <1>5, <1>6, <1>7, <1>8 DEF Step

LEMMA NextInv == IInv /\ [Next]_vars => IInv'
  <1> SUFFICES ASSUME IInv, [Next]_vars PROVE IInv'
    OBVIOUS
  <1>1. ASSUME NEW j \in Jobs, Step(j) PROVE IInv'
    BY <1>1, StepInv
  <1>2. ASSUME NEW j \in Jobs, WorkerDies(j), UNCHANGED <<now, tap, request>> PROVE IInv'
    BY <1>2, FailInv DEF WorkerDies, Failed
  <1>3. ASSUME NEW e \in Employees, Tap(e) PROVE IInv'
    <2>1. TypeOK'
      BY <1>3 DEF Tap, tables, IInv, TypeOK
    <2> QED
      BY <1>3, <2>1, OtherInv DEF Tap
  <1>4. ASSUME NEW e \in Employees, ClockIn(e) PROVE IInv'
    BY <1>4, ClockInInv
  <1>5. ASSUME NEW row \in shifts, ClockOut(row) PROVE IInv'
    BY <1>5, ClockOutInv
  <1>6. CASE Tick
    <2>1. TypeOK'
      BY <1>6 DEF Tick, tables, IInv, TypeOK, Time
    <2> QED
      BY <1>6, <2>1, OtherInv DEF Tick
  <1>7. CASE UNCHANGED vars
    <2>1. TypeOK' /\ UNCHANGED <<tables, request, pc, at, made, touched>>
      BY <1>7 DEF vars, tables, IInv, TypeOK
    <2> QED
      BY <2>1, OtherInv
  <1> QED
    BY <1>1, <1>2, <1>3, <1>4, <1>5, <1>6, <1>7 DEF Next

LEMMA Invariance == Spec => []IInv
  BY InitInv, NextInv, PTL DEF Spec

-----------------------------------------------------------------------------
(* The results *)

\* Requests, rows in flight and recorded shifts keep their types.
THEOREM TypeCorrect == Spec => []TypeOK
  <1>1. IInv => TypeOK
    BY DEF IInv
  <1> QED
    BY <1>1, Invariance, PTL

\* A manager told of success finds every day recorded, a week also approved,
\* and as it was asked for unless somebody uses a key for something else.
THEOREM DoneIsRecordedHolds == Spec => []DoneIsRecorded
  <1>1. IInv => DoneIsRecorded
    <2> SUFFICES ASSUME IInv, NEW j \in Jobs, pc[j] = "done", NEW i \in DOMAIN Entries(j)
                 PROVE  LET entry == Entries(j)[i] IN
                        /\ \E row \in shifts : row.key = entry.key
                        /\ request[j].week => entry.key \in approved
                        /\ Unshared(j, entry) => Wanted(request[j], entry) \in shifts
      BY DEF DoneIsRecorded
    <2>1. /\ Progress(j) /\ Seen(j) = shifts /\ touched[j] = {}
          /\ RecordedBy(j) = DOMAIN Entries(j) /\ ApprovedBy(j) = DOMAIN Entries(j)
      BY JobAsks, FormFits DEF IInv, JobFits, Ended, Seen, RecordedBy, ApprovedBy
    <2>2. PICK row \in shifts : row.key = Entries(j)[i].key
      BY <2>1 DEF Progress, Failed
    <2>3. request[j].week => Entries(j)[i].key \in approved
      BY <2>1 DEF Progress, Failed
    <2>4. PICK r \in Forms : row \in Rows(r)
      <3>1. row.key # Kiosk
        BY <2>2, JobAsks, FormFits
      <3> QED
        BY <2>1, <3>1 DEF IInv, RowsAsked
    <2> QED
      BY <2>2, <2>3, <2>4 DEF Unshared
  <1> QED
    BY <1>1, Invariance, PTL

\* A step of one job leaves the others where they are.
LEMMA OthersStay ==
  ASSUME IInv, NEW j \in Jobs, NEW k \in Jobs \ {j}, Step(k) \/ WorkerDies(k)
  PROVE  pc'[j] = pc[j] /\ at'[j] = at[j]
  <1>1. pc \in [Jobs -> Pc] /\ at \in [Jobs -> Nat \ {0}]
    BY DEF IInv, TypeOK
  <1>2. ASSUME NEW label, Goto(k, label) PROVE pc'[j] = pc[j]
    BY <1>1, <1>2 DEF Goto
  <1>3. ASSUME NEW label, Fail(k, label) PROVE pc'[j] = pc[j] /\ at'[j] = at[j]
    BY <1>2, <1>3 DEF Fail
  <1>4. ASSUME NextEntry(k) PROVE pc'[j] = pc[j] /\ at'[j] = at[j]
    BY <1>1, <1>2, <1>4 DEF NextEntry
  <1>5. ASSUME Returned(k) PROVE pc'[j] = pc[j] /\ at'[j] = at[j]
    BY <1>2, <1>4, <1>5 DEF Returned
  <1> QED
    BY <1>2, <1>3, <1>4, <1>5 DEF Step, FindKey, LockEmployee, CheckOverlap, Insert, Approve, Commit,
                                  BreakDeadlock, WorkerDies

\* A job comes to a server error at the unique index, and stays there.
LEMMA ServerErrorStep ==
  ASSUME IInv, NEW j \in Jobs, Step(j) \/ WorkerDies(j), pc'[j] = "server_error"
  PROVE  /\ pc[j] = "insert" /\ at'[j] = at[j]
         /\ \E row \in shifts : row.key = Asked(j).key
  <1>1. pc \in [Jobs -> Pc]
    BY DEF IInv, TypeOK
  <1>2. ASSUME NEW label, Goto(j, label) PROVE label = "server_error"
    BY <1>1, <1>2 DEF Goto
  <1>3. ASSUME NEW label, Fail(j, label) PROVE label = "server_error" /\ at'[j] = at[j]
    BY <1>2, <1>3 DEF Fail
  <1>4. ~NextEntry(j)
    BY <1>2 DEF NextEntry
  <1>5. ~Returned(j)
    BY <1>2, <1>4 DEF Returned
  <1>6. ~(FindKey(j) \/ LockEmployee(j) \/ Approve(j) \/ Commit(j))
    BY <1>2, <1>4, <1>5 DEF FindKey, LockEmployee, Approve, Commit
  <1>7. ~(CheckOverlap(j) \/ BreakDeadlock(j) \/ WorkerDies(j))
    BY <1>2, <1>3 DEF CheckOverlap, BreakDeadlock, WorkerDies
  <1>8. Insert(j)
    BY <1>6, <1>7 DEF Step
  <1> QED
    BY <1>3, <1>5, <1>8 DEF Insert

\* A copy of a form has not only the key of the recorded shift but its interval,
\* which the check under the employee's lock has not missed.
THEOREM ServerErrorIsEarnedHolds == Spec => []ServerErrorIsEarned
  <1>1. Init => ServerErrorIsEarned
    BY DEF Init, ServerErrorIsEarned
  <1>2. IInv /\ ServerErrorIsEarned /\ [Next]_vars => ServerErrorIsEarned'
    <2> SUFFICES ASSUME IInv, ServerErrorIsEarned, [Next]_vars,
                        NEW j \in Jobs, pc'[j] = "server_error"
                 PROVE  ~Unshared(j, Asked(j))'
      BY DEF ServerErrorIsEarned
    <2>1. UNCHANGED request
      BY DEF Next, Step, Tap, ClockIn, ClockOut, Tick, vars
    <2>2. at'[j] = at[j] => Asked(j)' = Asked(j) /\ Unshared(j, Asked(j))' = Unshared(j, Asked(j))
      BY <2>1 DEF Asked, Entries, Unshared, Forms
    <2>3. CASE Step(j) \/ WorkerDies(j)
      <3>1. /\ pc[j] = "insert" /\ at'[j] = at[j]
            /\ \E row \in shifts : row.key = Asked(j).key
        BY <2>3, ServerErrorStep
      <3>2. PICK row \in shifts : row.key = Asked(j).key
        BY <3>1
      <3>3. /\ Asked(j).key # Kiosk /\ Asked(j).from \in Nat /\ Asked(j).to \in Nat
            /\ Asked(j).from < Asked(j).to
        BY JobAsks, FormFits DEF Asked
      <3>4. PICK r \in Forms : row \in Rows(r)
        BY <3>2, <3>3 DEF IInv, RowsAsked, Seen
      <3>5. ~Overlaps(row, request[j].employee, Asked(j))
        BY <3>1 DEF IInv, Apart, Seen
      <3>6. row # Wanted(request[j], Asked(j))
        BY <3>3, <3>5 DEF Overlaps, Wanted
      <3> QED
        BY <2>2, <3>1, <3>2, <3>4, <3>6 DEF Unshared
    <2>4. CASE ~(Step(j) \/ WorkerDies(j))
      <3>1. pc'[j] = pc[j] /\ at'[j] = at[j]
        BY <2>4, OthersStay DEF Next, Tap, ClockIn, ClockOut, Tick, vars
      <3> QED
        BY <2>2, <3>1 DEF ServerErrorIsEarned
    <2> QED
      BY <2>3, <2>4
  <1> QED
    BY <1>1, <1>2, Invariance, PTL DEF Spec

\* Whoever records at the same time, what a manager's transaction makes
\* visible overlaps no shift of the employee.
THEOREM RecordedApartHolds == Spec => RecordedApart
  <1> DEFINE Recorded ==
        \A row \in shifts' \ shifts :
          row.key # Kiosk => \A other \in shifts' \ {row} : ~Overlaps(other, row.employee, row)
  <1>1. IInv /\ [Next]_vars => [Recorded]_vars
    <2> SUFFICES ASSUME IInv, Next, NEW row \in shifts' \ shifts, row.key # Kiosk,
                        NEW other \in shifts' \ {row}
                 PROVE  ~Overlaps(other, row.employee, row)
      OBVIOUS
    <2>1. PICK j \in Jobs : Commit(j)
      <3>1. ASSUME NEW k \in Jobs, NEW label, Fail(k, label) PROVE UNCHANGED shifts
        BY <3>1 DEF Fail, tables
      <3>2. ASSUME NEW k \in Jobs, Step(k), ~Commit(k) PROVE UNCHANGED shifts
        BY <3>1, <3>2 DEF Step, FindKey, LockEmployee, CheckOverlap, Insert, Store, Approve,
                          BreakDeadlock, tables
      <3>3. ASSUME NEW k \in Jobs, WorkerDies(k) PROVE UNCHANGED shifts
        BY <3>1, <3>3 DEF WorkerDies
      <3>4. ASSUME NEW e \in Employees PROVE ~(Tap(e) \/ ClockIn(e))
        BY DEF Tap, ClockIn, tables
      <3>5. ASSUME NEW r \in shifts PROVE ~ClockOut(r)
        <4>1. r \in Shift /\ (r.to = Open => r.key = Kiosk)
          BY DEF IInv, TypeOK, OnlyKioskOpen
        <4>2. r.to = Open => [r EXCEPT !.to = now].key = Kiosk
          BY <4>1 DEF Shift
        <4> QED
          BY <4>2 DEF ClockOut
      <3>6. ~Tick
        BY DEF Tick, tables
      <3> QED
        BY <3>2, <3>3, <3>4, <3>5, <3>6, Zenon DEF Next
    <2>2. row \in made[j] /\ other \in Seen(j) \ {row} /\ Apart(j)
      BY <2>1 DEF Commit, Publish, Seen, IInv
    <2> QED
      BY <2>2 DEF Apart
  <1> QED
    BY <1>1, Invariance, PTL DEF Spec, RecordedApart
=============================================================================
