-------------------------- MODULE PayrollCloseProofs --------------------------
(***************************************************************************)
(* Proofs about PayrollClose, for every set of jobs and shifts and every   *)
(* number of corrections.                                                  *)
(***************************************************************************)
EXTENDS PayrollClose, SequenceTheorems, TLAPS

\* What appending a row to a table changes, and what it leaves alone.
LEMMA AppendRow ==
  ASSUME NEW S, NEW t \in Seq(S), NEW x \in S
  PROVE  /\ Append(t, x) \in Seq(S)
         /\ DOMAIN Append(t, x) = DOMAIN t \cup {Len(t) + 1}
         /\ Len(t) + 1 \notin DOMAIN t
         /\ Append(t, x)[Len(t) + 1] = x
         /\ \A i \in DOMAIN t : Append(t, x)[i] = t[i]
         /\ \A i \in DOMAIN t : i \in Nat /\ i < Len(t) + 1
  OBVIOUS

-----------------------------------------------------------------------------
(* The inductive invariant *)

\* Raw attendance belongs to the month; a correction comes with its approval.
RowFits(row) ==
  /\ row.state # "closed" => row.version = 0
  /\ row.version = 0 => row.inMonth
  /\ row.version # 0 => row.approval # "PENDING"

\* A line pays only a closed shift and, once its shift has passed the gate,
\* never-approved attendance only if it is no longer current.
LineFits(line, row, cleared) ==
  /\ line # NotPaid => row.state = "closed"
  /\ cleared /\ line = row.version => row.approval # "PENDING"

\* Job j has found shift s approved, or not in the way.
Cleared(j, s) ==
  pc[j] \in {"lock", "write"} \/ (pc[j] = "check" /\ s \notin todo[j])

LinesFit(j) == \A s \in Shifts : LineFits(lines[j][s], rows[s], Cleared(j, s))

CloseEntryOf(v, i) == audit[i].action = "CLOSE" /\ audit[i].version = v

\* Job j has closed the month and has still to record it.
Unrecorded(j) == pc[j] = "audit" /\ kind[j] # "reopen"

PhaseFits(j) ==
  /\ pc[j] # "server_error"
  /\ pc[j] = "reopen" => kind[j] = "reopen"
  /\ pc[j] \in {"open_check", "check", "lock", "write"} => status # "NONE"
  /\ pc[j] \in {"look", "build"} /\ kind[j] # "close" => status # "NONE"
  /\ pc[j] = "write" => seen[j] = Len(snapshots) /\ status = "DRAFT"
  /\ Unrecorded(j) => /\ seen[j] + 1 \in DOMAIN snapshots
                      /\ \A i \in DOMAIN audit : ~CloseEntryOf(seen[j] + 1, i)

RowsFit == \A s \in Shifts : RowFits(rows[s])
JobsFit == \A j \in Jobs : LinesFit(j) /\ PhaseFits(j)

\* The row lock of the period, and the one audit entry each version is owed.
Exclusive ==
  \A j, k \in Jobs :
    \/ pc[j] = "write" /\ pc[k] = "write"
    \/ Unrecorded(j) /\ Unrecorded(k) /\ seen[j] = seen[k]
    => j = k

LedgerFits ==
  /\ \A n \in DOMAIN snapshots : snapshots[n].version = n
  /\ status = "CLOSED" => snapshots # <<>>
  /\ status = "NONE" => snapshots = <<>>

SnapshotsFit ==
  \A n \in DOMAIN snapshots : \A s \in Shifts :
    LineFits(snapshots[n].payload[s], rows[s], TRUE)

IInv == /\ TypeOK
        /\ RowsFit
        /\ JobsFit
        /\ Exclusive
        /\ LedgerFits
        /\ SnapshotsFit
        /\ OneCloseEntryPerVersion

-----------------------------------------------------------------------------
USE PayrollCloseAssumption DEF Pc, Ended, Kind

LEMMA InitInv == Init => IInv
  <1> SUFFICES ASSUME Init PROVE IInv
    OBVIOUS
  <1>1. TypeOK
    <2>1. ASSUME NEW s \in Shifts PROVE rows[s] \in Row
      <3>1. PICK state \in {"absent", "open", "closed"} : rows[s] = RawRow(state)
        BY DEF Init
      <3>2. 0 \in 0..MaxVersion
        OBVIOUS
      <3> QED
        BY <3>1, <3>2 DEF RawRow, Row
    <2>2. rows \in [Shifts -> Row]
      BY <2>1 DEF Init
    <2> QED
      BY <2>2, EmptySeq DEF Init, TypeOK, NoLines, Payload
  <1>2. RowsFit
    BY DEF Init, RowsFit, RowFits, RawRow
  <1>3. JobsFit
    BY DEF Init, JobsFit, LinesFit, LineFits, Cleared, PhaseFits, Unrecorded, NoLines
  <1>4. Exclusive
    BY DEF Init, Exclusive, Unrecorded
  <1>5. LedgerFits /\ SnapshotsFit /\ OneCloseEntryPerVersion
    BY DEF Init, LedgerFits, SnapshotsFit, OneCloseEntryPerVersion
  <1> QED
    BY <1>1, <1>2, <1>3, <1>4, <1>5 DEF IInv

-----------------------------------------------------------------------------
(* Steps that only move one job *)

\* Only job j moves, and its variables keep their types.
OnlyJob(j) ==
  /\ pc' \in [Jobs -> Pc] /\ todo' \in [Jobs -> SUBSET Shifts]
  /\ lines' \in [Jobs -> Payload] /\ seen' \in [Jobs -> Nat]
  /\ \A k \in Jobs \ {j} : /\ pc'[k] = pc[k] /\ todo'[k] = todo[k]
                           /\ lines'[k] = lines[k] /\ seen'[k] = seen[k]

\* The job comes to write only with the lock, and to owe an audit entry only
\* by writing.
LEMMA LocalStep ==
  ASSUME IInv, NEW j \in Jobs, UNCHANGED <<rows, period, kind>>, OnlyJob(j),
         (LinesFit(j) /\ PhaseFits(j))',
         pc'[j] = "write" => PeriodLockFree,
         ~Unrecorded(j)'
  PROVE  IInv'
  <1>1. TypeOK'
    BY DEF IInv, TypeOK, OnlyJob, period
  <1>2. RowsFit' /\ LedgerFits' /\ SnapshotsFit' /\ OneCloseEntryPerVersion'
    BY DEF IInv, RowsFit, LedgerFits, SnapshotsFit, OneCloseEntryPerVersion, period
  <1>3. JobsFit'
    <2> SUFFICES ASSUME NEW k \in Jobs, k # j PROVE (LinesFit(k) /\ PhaseFits(k))'
      BY DEF JobsFit
    <2>1. LinesFit(k) /\ PhaseFits(k)
      BY DEF IInv, JobsFit
    <2>2. /\ pc'[k] = pc[k] /\ todo'[k] = todo[k]
          /\ lines'[k] = lines[k] /\ seen'[k] = seen[k]
      BY DEF OnlyJob
    <2>3. LinesFit(k)'
      BY <2>1, <2>2 DEF LinesFit, Cleared
    <2>4. PhaseFits(k)'
      BY <2>1, <2>2 DEF PhaseFits, Unrecorded, CloseEntryOf, period
    <2> QED
      BY <2>3, <2>4
  <1>4. Exclusive'
    BY DEF IInv, Exclusive, Unrecorded, OnlyJob, PeriodLockFree
  <1> QED
    BY <1>1, <1>2, <1>3, <1>4 DEF IInv

\* A job that returns, with any answer but a server error.
LEMMA EndInv ==
  ASSUME IInv, NEW j \in Jobs, NEW label \in Ended \ {"server_error"},
         End(j, label), UNCHANGED <<rows, period, kind>>
  PROVE  IInv'
  <1>1. OnlyJob(j) /\ pc'[j] = label /\ lines'[j] = NoLines
    BY DEF IInv, TypeOK, End, Goto, OnlyJob, NoLines, Payload
  <1>2. LinesFit(j)'
    <2> SUFFICES ASSUME NEW s \in Shifts
                 PROVE  LineFits(lines'[j][s], rows'[s], Cleared(j, s)')
      BY DEF LinesFit
    <2> QED
      BY <1>1 DEF LineFits, NoLines, Cleared
  <1>3. PhaseFits(j)' /\ ~Unrecorded(j)' /\ pc'[j] # "write"
    BY <1>1 DEF PhaseFits, Unrecorded
  <1> QED
    BY <1>1, <1>2, <1>3, LocalStep

\* A job that moves on between phases in which its lines are not yet cleared.
LEMMA GotoInv ==
  ASSUME IInv, NEW j \in Jobs, NEW label \in {"build", "prepare", "look", "reopen", "open_check"},
         OnlyJob(j), pc'[j] = label, UNCHANGED <<rows, period, kind>>,
         \A s \in Shifts : lines'[j][s] # NotPaid => rows[s].state = "closed",
         label = "reopen" => kind[j] = "reopen",
         label = "open_check" => status # "NONE",
         label \in {"look", "build"} /\ kind[j] # "close" => status # "NONE"
  PROVE  IInv'
  <1>1. LinesFit(j)'
    BY DEF LinesFit, LineFits, Cleared
  <1>2. PhaseFits(j)' /\ ~Unrecorded(j)' /\ pc'[j] # "write"
    BY DEF PhaseFits, Unrecorded, period
  <1> QED
    BY <1>1, <1>2, LocalStep

-----------------------------------------------------------------------------
(* The steps of a job *)

LEMMA StartInv ==
  ASSUME IInv, NEW j \in Jobs, Start(j)
  PROVE  IInv'
  <1>1. /\ lines' = lines /\ seen' = seen /\ UNCHANGED <<rows, period, kind>>
        /\ OnlyJob(j)
    <2>1. /\ lines' = lines /\ seen' = seen /\ UNCHANGED <<rows, period, kind>>
          /\ todo' = todo \/ todo' = [todo EXCEPT ![j] = Shifts]
      BY DEF Start, Visit, locals
    <2>2. PICK label \in {"build", "prepare", "reopen"} : pc' = [pc EXCEPT ![j] = label]
      BY DEF Start, Visit, Goto
    <2>3. todo' \in [Jobs -> SUBSET Shifts] /\ \A k \in Jobs \ {j} : todo'[k] = todo[k]
      BY <2>1 DEF IInv, TypeOK
    <2>4. pc' \in [Jobs -> Pc] /\ \A k \in Jobs \ {j} : pc'[k] = pc[k]
      BY <2>2 DEF IInv, TypeOK, Pc
    <2> QED
      BY <2>1, <2>3, <2>4 DEF IInv, TypeOK, OnlyJob
  <1>2. \A s \in Shifts : lines'[j][s] # NotPaid => rows[s].state = "closed"
    BY <1>1 DEF IInv, JobsFit, LinesFit, LineFits
  <1>3. CASE kind[j] = "close" /\ Visit(j, "build")
    BY <1>1, <1>2, <1>3, GotoInv DEF Visit, Goto, IInv, TypeOK
  <1>4. CASE kind[j] = "auto" /\ Goto(j, "prepare")
    BY <1>1, <1>2, <1>4, GotoInv DEF Goto, IInv, TypeOK
  <1>5. CASE kind[j] = "reopen" /\ Goto(j, "reopen")
    BY <1>1, <1>2, <1>5, GotoInv DEF Goto, IInv, TypeOK
  <1> QED
    BY <1>3, <1>4, <1>5 DEF Start

LEMMA BuildLineInv ==
  ASSUME IInv, NEW j \in Jobs, BuildLine(j)
  PROVE  IInv'
  <1>1. PICK s \in todo[j] :
          \/ End(j, "blocked")
          \/ /\ lines' = [lines EXCEPT ![j] = [@ EXCEPT ![s] = Payable(s)]]
             /\ Visited(j, s, "build", IF kind[j] = "close" THEN "prepare" ELSE "open_check")
             /\ UNCHANGED seen
    BY DEF BuildLine
  <1>2. /\ pc[j] = "build" /\ UNCHANGED <<rows, period, kind>>
        /\ s \in Shifts /\ todo[j] \subseteq Shifts
        /\ lines \in [Jobs -> Payload] /\ lines[j] \in Payload
        /\ rows[s] \in Row
    BY DEF BuildLine, IInv, TypeOK
  <1>3. CASE End(j, "blocked")
    BY <1>2, <1>3, EndInv
  <1>4. CASE /\ lines' = [lines EXCEPT ![j] = [@ EXCEPT ![s] = Payable(s)]]
             /\ Visited(j, s, "build", IF kind[j] = "close" THEN "prepare" ELSE "open_check")
             /\ UNCHANGED seen
    <2>1. /\ Payable(s) \in 0..MaxVersion \cup {NotPaid}
          /\ Payable(s) # NotPaid => rows[s].state = "closed"
      BY <1>2 DEF Payable, Row
    <2>2. PICK line \in Payload :
            /\ lines' = [lines EXCEPT ![j] = line]
            /\ line[s] = Payable(s)
            /\ \A q \in Shifts \ {s} : line[q] = lines[j][q]
      <3> DEFINE l == [lines[j] EXCEPT ![s] = Payable(s)]
      <3>1. l \in Payload /\ l[s] = Payable(s)
            /\ \A q \in Shifts \ {s} : l[q] = lines[j][q]
        BY <1>2, <2>1 DEF Payload
      <3>2. lines' = [lines EXCEPT ![j] = l]
        BY <1>4
      <3> QED
        BY <3>1, <3>2
    <2>3. PICK label \in {"build", "prepare", "open_check"} :
            /\ pc' = [pc EXCEPT ![j] = label]
            /\ label = "prepare" => kind[j] = "close"
            /\ label = "open_check" => kind[j] # "close"
      BY <1>4 DEF Visited, Goto
    <2>4. OnlyJob(j) /\ lines'[j] = line /\ pc'[j] = label
      BY <1>2, <1>4, <2>2, <2>3 DEF IInv, TypeOK, OnlyJob, Visited
    <2>5. \A q \in Shifts : lines'[j][q] # NotPaid => rows[q].state = "closed"
      BY <2>1, <2>2, <2>4 DEF IInv, JobsFit, LinesFit, LineFits
    <2>6. kind[j] # "close" => status # "NONE"
      BY <1>2 DEF IInv, JobsFit, PhaseFits
    <2> QED
      BY <1>2, <2>3, <2>4, <2>5, <2>6, GotoInv
  <1> QED
    BY <1>1, <1>3, <1>4

LEMMA LookInv ==
  ASSUME IInv, NEW j \in Jobs, Look(j)
  PROVE  IInv'
  <1>1. pc[j] = "look" /\ UNCHANGED <<rows, period, kind>>
    BY DEF Look
  <1>2. CASE End(j, "left_alone")
    BY <1>1, <1>2, EndInv
  <1>3. CASE Visit(j, "build")
    <2>1. OnlyJob(j) /\ lines' = lines /\ pc'[j] = "build"
      BY <1>3 DEF Visit, Goto, IInv, TypeOK, OnlyJob
    <2>2. \A s \in Shifts : lines'[j][s] # NotPaid => rows[s].state = "closed"
      BY <2>1 DEF IInv, JobsFit, LinesFit, LineFits
    <2>3. kind[j] # "close" => status # "NONE"
      BY <1>1 DEF IInv, JobsFit, PhaseFits
    <2> QED
      BY <1>1, <2>1, <2>2, <2>3, GotoInv
  <1> QED
    BY <1>2, <1>3 DEF Look

LEMMA CheckOpenInv ==
  ASSUME IInv, NEW j \in Jobs, CheckOpen(j)
  PROVE  IInv'
  <1>1. pc[j] = "open_check" /\ UNCHANGED <<rows, period, kind>> /\ status # "NONE"
    BY DEF CheckOpen, IInv, JobsFit, PhaseFits
  <1>2. CASE End(j, "blocked")
    BY <1>1, <1>2, EndInv
  <1>3. CASE Visit(j, "check")
    <2>1. /\ OnlyJob(j) /\ lines' = lines /\ pc'[j] = "check" /\ todo'[j] = Shifts
      BY <1>3 DEF Visit, Goto, IInv, TypeOK, OnlyJob
    <2>2. LinesFit(j)'
      BY <1>1, <2>1 DEF IInv, JobsFit, LinesFit, LineFits, Cleared
    <2>3. PhaseFits(j)' /\ ~Unrecorded(j)' /\ pc'[j] # "write"
      BY <1>1, <2>1 DEF PhaseFits, Unrecorded, period
    <2> QED
      BY <1>1, <2>1, <2>2, <2>3, LocalStep
  <1> QED
    BY <1>2, <1>3 DEF CheckOpen

\* A closed shift that is approved clears its line; one that is not closed is
\* not paid; one that has left the month has been corrected, hence approved.
LEMMA CheckShiftInv ==
  ASSUME IInv, NEW j \in Jobs, CheckShift(j)
  PROVE  IInv'
  <1>1. PICK s \in todo[j] :
          \/ End(j, "blocked")
          \/ ~Unapproved(s) /\ Visited(j, s, "check", "lock") /\ UNCHANGED <<lines, seen>>
    BY DEF CheckShift
  <1>2. /\ pc[j] = "check" /\ UNCHANGED <<rows, period, kind>> /\ status # "NONE"
        /\ s \in Shifts /\ todo[j] \subseteq Shifts
    BY DEF CheckShift, IInv, TypeOK, JobsFit, PhaseFits
  <1>3. CASE End(j, "blocked")
    BY <1>2, <1>3, EndInv
  <1>4. CASE ~Unapproved(s) /\ Visited(j, s, "check", "lock") /\ UNCHANGED <<lines, seen>>
    <2>1. PICK label \in {"check", "lock"} :
            /\ pc' = [pc EXCEPT ![j] = label]
            /\ label = "lock" => todo[j] = {s}
            /\ todo' = [todo EXCEPT ![j] = todo[j] \ {s}]
      BY <1>4 DEF Visited, Goto
    <2>2. /\ OnlyJob(j) /\ pc'[j] = label /\ todo'[j] = todo[j] \ {s} /\ lines' = lines
      BY <1>2, <1>4, <2>1 DEF IInv, TypeOK, OnlyJob
    <2>3. LineFits(lines[j][s], rows[s], TRUE)
      <3>1. rows[s] \in Row /\ RowFits(rows[s])
        BY <1>2 DEF IInv, TypeOK, RowsFit
      <3>2. LineFits(lines[j][s], rows[s], Cleared(j, s))
        BY <1>2 DEF IInv, JobsFit, LinesFit
      <3> QED
        BY <1>4, <3>1, <3>2 DEF LineFits, RowFits, Unapproved, Row
    <2>4. LinesFit(j)'
      <3> SUFFICES ASSUME NEW q \in Shifts
                   PROVE  LineFits(lines'[j][q], rows'[q], Cleared(j, q)')
        BY DEF LinesFit
      <3>1. LineFits(lines[j][q], rows[q], Cleared(j, q))
        BY DEF IInv, JobsFit, LinesFit
      <3>2. CASE q = s
        BY <1>2, <2>2, <2>3, <3>2 DEF LineFits
      <3>3. CASE q # s
        <4>1. Cleared(j, q)' => Cleared(j, q)
          BY <1>2, <2>1, <2>2, <3>3 DEF Cleared
        <4> QED
          BY <1>2, <2>2, <3>1, <4>1 DEF LineFits
      <3> QED
        BY <3>2, <3>3
    <2>5. PhaseFits(j)' /\ ~Unrecorded(j)' /\ pc'[j] # "write"
      BY <1>2, <2>2 DEF PhaseFits, Unrecorded, period
    <2> QED
      BY <1>2, <2>2, <2>4, <2>5, LocalStep
  <1> QED
    BY <1>1, <1>3, <1>4

LEMMA LockPeriodInv ==
  ASSUME IInv, NEW j \in Jobs, LockPeriod(j)
  PROVE  IInv'
  <1>1. /\ pc[j] = "lock" /\ UNCHANGED <<rows, period, kind>> /\ status # "NONE"
        /\ PeriodLockFree
    BY DEF LockPeriod, IInv, JobsFit, PhaseFits
  <1>2. CASE AnswerWithLatest(j)
    BY <1>1, <1>2, EndInv DEF AnswerWithLatest
  <1>3. CASE /\ ~AlreadyClosed
             /\ seen' = [seen EXCEPT ![j] = Len(snapshots)]
             /\ Goto(j, "write")
             /\ UNCHANGED <<todo, lines>>
    <2>1. Len(snapshots) \in Nat /\ status = "DRAFT"
      BY <1>1, <1>3, LenProperties DEF IInv, TypeOK, LedgerFits, AlreadyClosed
    <2>2. OnlyJob(j) /\ pc'[j] = "write" /\ seen'[j] = Len(snapshots) /\ lines' = lines
      BY <1>3, <2>1 DEF Goto, IInv, TypeOK, OnlyJob
    <2>3. LinesFit(j)'
      BY <1>1, <2>2 DEF IInv, JobsFit, LinesFit, LineFits, Cleared
    <2>4. PhaseFits(j)' /\ ~Unrecorded(j)'
      BY <1>1, <2>1, <2>2 DEF PhaseFits, Unrecorded, period
    <2> QED
      BY <1>1, <2>2, <2>3, <2>4, LocalStep
  <1> QED
    BY <1>2, <1>3 DEF LockPeriod

\* The version read under the lock is still the latest: the index never refuses.
LEMMA WriteCommits ==
  ASSUME IInv, NEW j \in Jobs, Write(j)
  PROVE  pc[j] = "write" /\ Commit(j) /\ UNCHANGED <<rows, kind>>
  <1> SUFFICES VersionIndexAllows(seen[j] + 1)
    BY DEF Write
  <1>1. seen[j] = Len(snapshots)
    BY DEF Write, IInv, JobsFit, PhaseFits
  <1>2. snapshots \in Seq(Snapshot)
    BY DEF IInv, TypeOK
  <1>3. \A n \in DOMAIN snapshots : n \in Nat /\ n <= Len(snapshots) /\ snapshots[n].version = n
    BY <1>2 DEF IInv, LedgerFits
  <1>4. Len(snapshots) \in Nat
    BY <1>2
  <1> QED
    BY <1>1, <1>3, <1>4 DEF VersionIndexAllows

LEMMA WorkerDiesInv ==
  ASSUME IInv, NEW j \in Jobs, WorkerDies(j)
  PROVE  IInv'
  BY EndInv DEF WorkerDies

-----------------------------------------------------------------------------
(* The steps that write the period, its snapshots or the audit log *)

LEMMA PrepareInv ==
  ASSUME IInv, NEW j \in Jobs, Prepare(j)
  PROVE  IInv'
  <1>1. /\ pc[j] = "prepare" /\ UNCHANGED <<rows, snapshots, audit, kind, todo, lines, seen>>
        /\ status' = IF status = "NONE" THEN "DRAFT" ELSE status
    BY DEF Prepare, locals
  <1>2. PICK label \in {"open_check", "look"} : pc' = [pc EXCEPT ![j] = label]
    BY DEF Prepare, Goto
  <1>3. pc' \in [Jobs -> Pc] /\ pc'[j] = label /\ \A k \in Jobs \ {j} : pc'[k] = pc[k]
    BY <1>2 DEF IInv, TypeOK
  <1>4. TypeOK'
    BY <1>1, <1>3 DEF IInv, TypeOK
  <1>5. RowsFit' /\ SnapshotsFit' /\ OneCloseEntryPerVersion'
    BY <1>1 DEF IInv, RowsFit, SnapshotsFit, OneCloseEntryPerVersion
  <1>6. LedgerFits'
    BY <1>1 DEF IInv, LedgerFits, TypeOK
  <1>7. JobsFit'
    <2> SUFFICES ASSUME NEW k \in Jobs PROVE (LinesFit(k) /\ PhaseFits(k))'
      BY DEF JobsFit
    <2>1. LinesFit(k) /\ PhaseFits(k)
      BY DEF IInv, JobsFit
    <2>2. LinesFit(k)'
      BY <1>1, <1>3, <2>1 DEF LinesFit, LineFits, Cleared
    <2>3. PhaseFits(k)'
      BY <1>1, <1>3, <2>1 DEF PhaseFits, Unrecorded, CloseEntryOf
    <2> QED
      BY <2>2, <2>3
  <1>8. Exclusive'
    BY <1>1, <1>3 DEF IInv, Exclusive, Unrecorded
  <1> QED
    BY <1>4, <1>5, <1>6, <1>7, <1>8 DEF IInv

LEMMA WriteInv ==
  ASSUME IInv, NEW j \in Jobs, Write(j)
  PROVE  IInv'
  <1> DEFINE m == Len(snapshots) + 1
  <1>1. /\ pc[j] = "write" /\ UNCHANGED <<rows, audit, kind, todo, lines, seen>>
        /\ status' = "CLOSED"
        /\ pc' = [pc EXCEPT ![j] = "audit"]
        /\ seen[j] = Len(snapshots)
    BY WriteCommits DEF Commit, Goto, locals, IInv, JobsFit, PhaseFits
  <1>2. /\ snapshots \in Seq(Snapshot) /\ seen[j] \in Nat /\ lines[j] \in Payload
        /\ m \in Nat
    <2>1. snapshots \in Seq(Snapshot) /\ seen[j] \in Nat /\ lines[j] \in Payload
      BY DEF IInv, TypeOK
    <2> QED
      BY <2>1
  <1>3. PICK new \in Snapshot :
          /\ snapshots' = Append(snapshots, new)
          /\ new.version = m
          /\ new.payload = lines[j]
    <2>1. NewSnapshot(j) \in Snapshot
      BY <1>2 DEF NewSnapshot, Snapshot
    <2> QED
      BY <1>1, <2>1, WriteCommits DEF Commit, NewSnapshot
  <1>4. /\ snapshots' \in Seq(Snapshot) /\ DOMAIN snapshots' = DOMAIN snapshots \cup {m}
        /\ m \notin DOMAIN snapshots /\ snapshots'[m] = new
        /\ \A n \in DOMAIN snapshots : snapshots'[n] = snapshots[n]
        /\ \A n \in DOMAIN snapshots : n \in Nat /\ n < m
    BY <1>2, <1>3, AppendRow
  <1>5. pc' \in [Jobs -> Pc] /\ pc'[j] = "audit" /\ \A k \in Jobs \ {j} : pc'[k] = pc[k]
    BY <1>1 DEF IInv, TypeOK
  <1>6. \A k \in Jobs \ {j} : pc[k] # "write"
    BY <1>1 DEF IInv, Exclusive
  <1>7. seen[j] + 1 = m
    BY <1>1
  <1> HIDE DEF m
  <1>8. TypeOK'
    BY <1>1, <1>4, <1>5 DEF IInv, TypeOK
  <1>9. RowsFit'
    BY <1>1 DEF IInv, RowsFit
  <1>10. LedgerFits'
    <2>1. snapshots' # <<>>
      BY <1>4
    <2> QED
      BY <1>1, <1>3, <1>4, <2>1 DEF IInv, LedgerFits
  <1>11. SnapshotsFit'
    <2> SUFFICES ASSUME NEW n \in DOMAIN snapshots', NEW s \in Shifts
                 PROVE  LineFits(snapshots'[n].payload[s], rows[s], TRUE)
      BY <1>1 DEF SnapshotsFit
    <2>1. CASE n = m
      <3>1. LineFits(lines[j][s], rows[s], Cleared(j, s))
        BY DEF IInv, JobsFit, LinesFit
      <3>2. Cleared(j, s)
        BY <1>1 DEF Cleared
      <3> QED
        BY <1>3, <1>4, <2>1, <3>1, <3>2 DEF LineFits
    <2>2. CASE n \in DOMAIN snapshots
      BY <1>4, <2>2 DEF IInv, SnapshotsFit
    <2> QED
      BY <1>4, <2>1, <2>2
  <1>12. \A i \in DOMAIN audit : ~CloseEntryOf(m, i)
    BY <1>4 DEF IInv, OneCloseEntryPerVersion, CloseEntryOf
  <1>13. \A k \in Jobs \ {j} : Unrecorded(k) => seen[k] # seen[j]
    BY <1>4, <1>7 DEF IInv, JobsFit, PhaseFits
  <1>14. JobsFit'
    <2> SUFFICES ASSUME NEW k \in Jobs PROVE (LinesFit(k) /\ PhaseFits(k))'
      BY DEF JobsFit
    <2>1. LinesFit(k) /\ PhaseFits(k)
      BY DEF IInv, JobsFit
    <2>2. LinesFit(k)'
      BY <1>1, <1>5, <2>1 DEF LinesFit, LineFits, Cleared
    <2>3. PhaseFits(k)'
      <3>1. CASE k = j
        BY <1>1, <1>4, <1>5, <1>7, <1>12, <3>1 DEF PhaseFits, Unrecorded, CloseEntryOf
      <3>2. CASE k # j
        BY <1>1, <1>4, <1>5, <1>6, <2>1, <3>2 DEF PhaseFits, Unrecorded, CloseEntryOf
      <3> QED
        BY <3>1, <3>2
    <2> QED
      BY <2>2, <2>3
  <1>15. Exclusive'
    BY <1>1, <1>5, <1>6, <1>13 DEF IInv, Exclusive, Unrecorded
  <1>16. OneCloseEntryPerVersion'
    BY <1>1, <1>4 DEF IInv, OneCloseEntryPerVersion
  <1> QED
    BY <1>8, <1>9, <1>10, <1>11, <1>14, <1>15, <1>16 DEF IInv

LEMMA ReopenInv ==
  ASSUME IInv, NEW j \in Jobs, Reopen(j)
  PROVE  IInv'
  <1>1. /\ pc[j] = "reopen" /\ kind[j] = "reopen"
        /\ UNCHANGED <<rows, snapshots, audit, kind, todo, lines, seen>>
    BY DEF Reopen, locals, IInv, JobsFit, PhaseFits
  <1>2. PICK label \in {"not_found", "audit"} :
          /\ pc' = [pc EXCEPT ![j] = label]
          /\ label = "not_found" => status' = status
          /\ label = "audit" => status # "NONE" /\ status' = "DRAFT" /\ PeriodLockFree
    BY DEF Reopen, Goto
  <1>3. pc' \in [Jobs -> Pc] /\ pc'[j] = label /\ \A k \in Jobs \ {j} : pc'[k] = pc[k]
    BY <1>2 DEF IInv, TypeOK
  <1>4. TypeOK'
    BY <1>1, <1>2, <1>3 DEF IInv, TypeOK
  <1>5. RowsFit' /\ SnapshotsFit' /\ OneCloseEntryPerVersion'
    BY <1>1 DEF IInv, RowsFit, SnapshotsFit, OneCloseEntryPerVersion
  <1>6. LedgerFits'
    BY <1>1, <1>2 DEF IInv, LedgerFits
  <1>7. JobsFit'
    <2> SUFFICES ASSUME NEW k \in Jobs PROVE (LinesFit(k) /\ PhaseFits(k))'
      BY DEF JobsFit
    <2>1. LinesFit(k) /\ PhaseFits(k)
      BY DEF IInv, JobsFit
    <2>2. LinesFit(k)'
      BY <1>1, <1>3, <2>1 DEF LinesFit, LineFits, Cleared
    <2>3. PhaseFits(k)'
      BY <1>1, <1>2, <1>3, <2>1 DEF PhaseFits, Unrecorded, CloseEntryOf, PeriodLockFree
    <2> QED
      BY <2>2, <2>3
  <1>8. Exclusive'
    BY <1>1, <1>3 DEF IInv, Exclusive, Unrecorded
  <1> QED
    BY <1>4, <1>5, <1>6, <1>7, <1>8 DEF IInv

LEMMA RecordAuditInv ==
  ASSUME IInv, NEW j \in Jobs, RecordAudit(j)
  PROVE  IInv'
  <1> DEFINE m == Len(audit) + 1
             v == seen[j] + 1
  <1>1. pc[j] = "audit" /\ UNCHANGED <<rows, status, snapshots, kind>>
    BY DEF RecordAudit
  <1>2. audit \in Seq(Entry) /\ seen[j] \in Nat /\ v \in Nat
    BY DEF IInv, TypeOK
  <1>3. PICK entry \in Entry, label \in {"reopened", "closed"} :
          /\ audit' = Append(audit, entry)
          /\ End(j, label)
          /\ entry.action = "CLOSE" => kind[j] # "reopen" /\ entry.version = v
    <2>1. /\ [action |-> "REOPEN", version |-> 0] \in Entry
          /\ [action |-> "CLOSE", version |-> v] \in Entry
      BY <1>2 DEF Entry
    <2> QED
      BY <2>1 DEF RecordAudit
  <1>4. /\ audit' \in Seq(Entry) /\ DOMAIN audit' = DOMAIN audit \cup {m}
        /\ m \notin DOMAIN audit /\ audit'[m] = entry
        /\ \A i \in DOMAIN audit : audit'[i] = audit[i]
    BY <1>2, <1>3, AppendRow
  <1>5. OnlyJob(j) /\ pc'[j] = label /\ lines'[j] = NoLines
    BY <1>3 DEF End, Goto, IInv, TypeOK, OnlyJob, NoLines, Payload
  <1>6. entry.action = "CLOSE" =>
          /\ entry.version \in DOMAIN snapshots
          /\ \A i \in DOMAIN audit : ~CloseEntryOf(entry.version, i)
          /\ \A k \in Jobs \ {j} : Unrecorded(k) => seen[k] + 1 # entry.version
    <2> SUFFICES ASSUME entry.action = "CLOSE"
                 PROVE  /\ v \in DOMAIN snapshots
                        /\ \A i \in DOMAIN audit : ~CloseEntryOf(v, i)
                        /\ \A k \in Jobs \ {j} : Unrecorded(k) => seen[k] + 1 # v
      BY <1>3
    <2>1. Unrecorded(j)
      BY <1>1, <1>3 DEF Unrecorded
    <2>2. \A k \in Jobs : seen[k] \in Nat
      BY DEF IInv, TypeOK
    <2>3. \A k \in Jobs \ {j} : Unrecorded(k) => seen[k] # seen[j]
      BY <2>1 DEF IInv, Exclusive
    <2> QED
      BY <1>2, <2>1, <2>2, <2>3 DEF IInv, JobsFit, PhaseFits
  <1> HIDE DEF m, v
  <1>7. TypeOK'
    BY <1>1, <1>4, <1>5 DEF IInv, TypeOK, OnlyJob
  <1>8. RowsFit' /\ LedgerFits' /\ SnapshotsFit'
    BY <1>1 DEF IInv, RowsFit, LedgerFits, SnapshotsFit
  <1>9. JobsFit'
    <2> SUFFICES ASSUME NEW k \in Jobs PROVE (LinesFit(k) /\ PhaseFits(k))'
      BY DEF JobsFit
    <2>1. CASE k = j
      <3>1. PhaseFits(k)'
        BY <1>5, <2>1 DEF PhaseFits, Unrecorded
      <3>2. LinesFit(k)'
        BY <1>5, <2>1 DEF LinesFit, LineFits, Cleared, NoLines
      <3> QED
        BY <3>1, <3>2
    <2>2. CASE k # j
      <3>1. LinesFit(k) /\ PhaseFits(k)
        BY DEF IInv, JobsFit
      <3>2. /\ pc'[k] = pc[k] /\ todo'[k] = todo[k]
            /\ lines'[k] = lines[k] /\ seen'[k] = seen[k]
        BY <1>5, <2>2 DEF OnlyJob
      <3>3. LinesFit(k)'
        BY <1>1, <3>1, <3>2 DEF LinesFit, LineFits, Cleared
      <3>4. Unrecorded(k)' => \A i \in DOMAIN audit' : ~CloseEntryOf(seen[k] + 1, i)'
        BY <1>1, <1>4, <1>6, <2>2, <3>1, <3>2 DEF PhaseFits, Unrecorded, CloseEntryOf
      <3>5. PhaseFits(k)'
        BY <1>1, <3>1, <3>2, <3>4 DEF PhaseFits, Unrecorded
      <3> QED
        BY <3>3, <3>5
    <2> QED
      BY <2>1, <2>2
  <1>10. Exclusive'
    BY <1>1, <1>5 DEF IInv, Exclusive, Unrecorded, OnlyJob
  <1>11. OneCloseEntryPerVersion'
    BY <1>1, <1>4, <1>6 DEF IInv, OneCloseEntryPerVersion, CloseEntryOf
  <1> QED
    BY <1>7, <1>8, <1>9, <1>10, <1>11 DEF IInv

-----------------------------------------------------------------------------
(* Changes of the attendance *)

\* What a change of a shift keeps of the lines that pay it: a shift that was
\* not closed is on no line, a closed one comes out approved or stale.
Keeps(old, new) ==
  /\ new \in Row /\ RowFits(new)
  /\ new.state = "closed"
  /\ old.state # "closed" \/ new.approval # "PENDING"

LEMMA KeepsLines ==
  ASSUME NEW old \in Row, NEW new \in Row, Keeps(old, new),
         NEW line \in 0..MaxVersion \cup {NotPaid}, NEW cleared \in BOOLEAN,
         LineFits(line, old, cleared)
  PROVE  LineFits(line, new, cleared)
  <1>1. new.version # NotPaid
    BY DEF Row
  <1> QED
    BY <1>1 DEF Keeps, LineFits

LEMMA AttendanceKeeps ==
  ASSUME IInv, AttendanceChanges
  PROVE  \E s \in Shifts, new \in Row :
           rows' = [rows EXCEPT ![s] = new] /\ Keeps(rows[s], new)
  <1>1. PICK s \in Shifts : ClockOut(s) \/ AddManualShift(s) \/ ApproveShift(s)
                             \/ CorrectShift(s) \/ OvertakenCorrection(s)
    BY DEF AttendanceChanges
  <1>2. rows[s] \in Row /\ RowFits(rows[s])
    BY DEF IInv, TypeOK, RowsFit
  <1>3. \A month \in BOOLEAN, v \in 0..MaxVersion, a \in {"PENDING", "APPROVED", "STALE"} :
          ClosedRow(month, v, a) \in Row
    BY DEF ClosedRow, Row
  <1>4. \A month, v, a :
          /\ ClosedRow(month, v, a).state = "closed"
          /\ ClosedRow(month, v, a).version = v
          /\ ClosedRow(month, v, a).inMonth = month
          /\ ClosedRow(month, v, a).approval = a
    BY DEF ClosedRow
  <1>5. /\ rows[s].inMonth \in BOOLEAN /\ rows[s].version \in 0..MaxVersion
        /\ rows[s].version < MaxVersion => rows[s].version + 1 \in 0..MaxVersion
        /\ rows[s].version + 1 # 0
        /\ 0 \in 0..MaxVersion
    BY <1>2 DEF Row
  <1>6. CASE ClockOut(s)
    <2>1. Keeps(rows[s], ClosedRow(rows[s].inMonth, 0, "PENDING"))
      BY <1>2, <1>3, <1>4, <1>5, <1>6 DEF Keeps, RowFits, ClockOut
    <2> QED
      BY <1>6, <2>1 DEF ClockOut, Keeps
  <1>7. CASE AddManualShift(s)
    <2>1. PICK a \in {"PENDING", "APPROVED"} :
            rows' = [rows EXCEPT ![s] = ClosedRow(TRUE, 0, a)]
      BY <1>7 DEF AddManualShift
    <2> DEFINE new == ClosedRow(TRUE, 0, a)
    <2>2. new.inMonth /\ new.state = "closed" /\ new.version = 0
      BY DEF ClosedRow
    <2>3. new \in Row
      BY <1>3, <1>5
    <2> HIDE DEF new
    <2>4. Keeps(rows[s], new)
      BY <1>7, <2>2, <2>3 DEF Keeps, RowFits, AddManualShift
    <2> QED
      BY <2>1, <2>3, <2>4 DEF new
  <1>8. CASE ApproveShift(s)
    <2>1. Keeps(rows[s], ClosedRow(rows[s].inMonth, rows[s].version, "APPROVED"))
      BY <1>2, <1>3, <1>4, <1>5 DEF Keeps, RowFits
    <2> QED
      BY <1>8, <2>1 DEF ApproveShift, Keeps
  <1>9. CASE CorrectShift(s)
    <2>1. PICK month \in BOOLEAN :
            rows' = [rows EXCEPT ![s] = ClosedRow(month, rows[s].version + 1, "APPROVED")]
      BY <1>9 DEF CorrectShift
    <2>2. Keeps(rows[s], ClosedRow(month, rows[s].version + 1, "APPROVED"))
      BY <1>3, <1>4, <1>5, <1>9 DEF Keeps, RowFits, CorrectShift
    <2> QED
      BY <2>1, <2>2 DEF Keeps
  <1>10. CASE OvertakenCorrection(s)
    <2>1. Keeps(rows[s], ClosedRow(rows[s].inMonth, rows[s].version, "STALE"))
      BY <1>2, <1>3, <1>4, <1>5 DEF Keeps, RowFits
    <2> QED
      BY <1>10, <2>1 DEF OvertakenCorrection, Keeps
  <1> QED
    BY <1>1, <1>6, <1>7, <1>8, <1>9, <1>10

LEMMA AttendanceInv ==
  ASSUME IInv, AttendanceChanges
  PROVE  IInv'
  <1>1. PICK s \in Shifts, new \in Row :
          rows' = [rows EXCEPT ![s] = new] /\ Keeps(rows[s], new)
    BY AttendanceKeeps
  <1>2. UNCHANGED <<status, snapshots, audit, kind, pc, todo, lines, seen>>
    BY DEF AttendanceChanges, period, locals
  <1>3. /\ rows' \in [Shifts -> Row] /\ rows'[s] = new
        /\ \A q \in Shifts \ {s} : rows'[q] = rows[q]
        /\ \A q \in Shifts : rows[q] \in Row
    BY <1>1 DEF IInv, TypeOK
  <1>4. ASSUME NEW q \in Shifts, NEW line \in 0..MaxVersion \cup {NotPaid},
               NEW cleared \in BOOLEAN, LineFits(line, rows[q], cleared)
        PROVE  LineFits(line, rows'[q], cleared)
    BY <1>1, <1>3, <1>4, KeepsLines
  <1>5. TypeOK' /\ LedgerFits' /\ OneCloseEntryPerVersion' /\ Exclusive'
    BY <1>2, <1>3 DEF IInv, TypeOK, LedgerFits, OneCloseEntryPerVersion, Exclusive,
                      Unrecorded
  <1>6. RowsFit'
    BY <1>1, <1>3 DEF IInv, RowsFit, Keeps
  <1>7. SnapshotsFit'
    <2> SUFFICES ASSUME NEW n \in DOMAIN snapshots, NEW q \in Shifts
                 PROVE  LineFits(snapshots[n].payload[q], rows'[q], TRUE)
      BY <1>2 DEF SnapshotsFit
    <2>1. snapshots[n].payload[q] \in 0..MaxVersion \cup {NotPaid}
      <3>1. snapshots \in Seq(Snapshot)
        BY DEF IInv, TypeOK
      <3>2. snapshots[n] \in Snapshot
        BY <3>1
      <3> QED
        BY <3>2 DEF Snapshot, Payload
    <2>2. LineFits(snapshots[n].payload[q], rows[q], TRUE)
      BY DEF IInv, SnapshotsFit
    <2> QED
      BY <1>4, <2>1, <2>2
  <1>8. JobsFit'
    <2> SUFFICES ASSUME NEW j \in Jobs PROVE (LinesFit(j) /\ PhaseFits(j))'
      BY DEF JobsFit
    <2>1. LinesFit(j)'
      <3> SUFFICES ASSUME NEW q \in Shifts
                   PROVE  LineFits(lines[j][q], rows'[q], Cleared(j, q))
        BY <1>2 DEF LinesFit, Cleared
      <3>1. lines[j][q] \in 0..MaxVersion \cup {NotPaid}
        BY DEF IInv, TypeOK, Payload
      <3>2. LineFits(lines[j][q], rows[q], Cleared(j, q)) /\ Cleared(j, q) \in BOOLEAN
        BY DEF IInv, JobsFit, LinesFit, Cleared
      <3> QED
        BY <1>4, <3>1, <3>2
    <2>2. PhaseFits(j)'
      BY <1>2 DEF IInv, JobsFit, PhaseFits, Unrecorded, CloseEntryOf
    <2> QED
      BY <2>1, <2>2
  <1> QED
    BY <1>5, <1>6, <1>7, <1>8 DEF IInv

-----------------------------------------------------------------------------
(* Theorems *)

LEMMA NextInv == IInv /\ [Next]_vars => IInv'
  <1> SUFFICES ASSUME IInv, [Next]_vars PROVE IInv'
    OBVIOUS
  <1>1. ASSUME NEW j \in Jobs, Step(j) PROVE IInv'
    BY <1>1, StartInv, BuildLineInv, PrepareInv, LookInv, CheckOpenInv, CheckShiftInv,
       LockPeriodInv, WriteInv, ReopenInv, RecordAuditInv DEF Step
  <1>2. ASSUME NEW j \in Jobs, WorkerDies(j) PROVE IInv'
    BY <1>2, WorkerDiesInv
  <1>3. CASE UNCHANGED vars
    BY <1>3 DEF vars, IInv, TypeOK, RowsFit, JobsFit, LinesFit, Cleared, PhaseFits,
      Unrecorded, CloseEntryOf, Exclusive, LedgerFits, SnapshotsFit,
      OneCloseEntryPerVersion
  <1> QED
    BY <1>1, <1>2, <1>3, AttendanceInv DEF Next

\* The months, the versions, the entries and the requests keep fitting together.
THEOREM Invariance == Spec => []IInv
  BY InitInv, NextInv, PTL DEF Spec

\* Type correctness, for any number of jobs, shifts and corrections.
THEOREM TypeCorrect == Spec => []TypeOK
  BY Invariance, PTL DEF IInv

\* The row lock makes the version constraint redundant: no close fails on it.
THEOREM CloseNeverFailsHolds == Spec => []CloseNeverFails
  <1>1. IInv => CloseNeverFails
    BY DEF IInv, JobsFit, PhaseFits, CloseNeverFails
  <1> QED
    BY Invariance, <1>1, PTL

\* No race of closes, reopens and crashes records a version's close twice, or
\* the close of a version that does not exist.
THEOREM OneCloseEntryPerVersionHolds == Spec => []OneCloseEntryPerVersion
  BY Invariance, PTL DEF IInv

\* However the attendance changes while a payload is built and checked, what
\* was never approved is paid only if a correction has superseded it.
THEOREM UnapprovedPayIsSupersededHolds == Spec => []UnapprovedPayIsSuperseded
  <1>1. IInv => UnapprovedPayIsSuperseded
    BY DEF IInv, SnapshotsFit, LineFits, UnapprovedPayIsSuperseded
  <1> QED
    BY Invariance, <1>1, PTL

-----------------------------------------------------------------------------
(* The close implements the ledger *)

LEMMA WriteCloses ==
  ASSUME IInv, NEW j \in Jobs, Write(j)
  PROVE  Ledger!Close
  <1>1. /\ pc[j] = "write" /\ seen[j] = Len(snapshots) /\ status = "DRAFT"
        /\ lines[j] \in Payload
    BY DEF Write, IInv, TypeOK, JobsFit, PhaseFits
  <1>2. PICK reason \in {"manual", "automatic"} :
          NewSnapshot(j) = [version |-> Len(snapshots) + 1, supersedes |-> Len(snapshots),
                            payload |-> lines[j], reason |-> reason]
    BY <1>1 DEF NewSnapshot
  <1> QED
    BY <1>1, <1>2, WriteCommits DEF Commit, Ledger!Close

\* Every step of the close writes the whole next version of the month, opens
\* the month again, prepares it, or changes nothing of the ledger.
THEOREM CloseImplementsLedger == Spec => ImplementsLedger
  <1>1. Init => Ledger!Init
    BY DEF Init, Ledger!Init
  <1>2. IInv /\ [Next]_vars => [Ledger!Next]_Ledger!vars
    <2> SUFFICES ASSUME IInv, [Next]_vars PROVE Ledger!Next \/ UNCHANGED Ledger!vars
      OBVIOUS
    <2>1. ASSUME NEW j \in Jobs, Write(j) PROVE Ledger!Next
      BY <2>1, WriteCloses DEF Ledger!Next
    <2>2. ASSUME NEW j \in Jobs, Prepare(j)
          PROVE  Ledger!Next \/ UNCHANGED Ledger!vars
      BY <2>2 DEF Prepare, Ledger!Next, Ledger!Prepare, Ledger!vars
    <2>3. ASSUME NEW j \in Jobs, Reopen(j)
          PROVE  Ledger!Next \/ UNCHANGED Ledger!vars
      BY <2>3 DEF Reopen, Ledger!Next, Ledger!Reopen, Ledger!vars, IInv, TypeOK
    <2>4. ASSUME NEW j \in Jobs, Step(j), ~Write(j), ~Prepare(j), ~Reopen(j)
          PROVE  UNCHANGED <<status, snapshots>>
      BY <2>4 DEF Step, Start, BuildLine, Look, CheckOpen, CheckShift, LockPeriod,
                  RecordAudit, period
    <2>5. ASSUME NEW j \in Jobs, WorkerDies(j) PROVE UNCHANGED <<status, snapshots>>
      BY <2>5 DEF WorkerDies, period
    <2>6. CASE AttendanceChanges
      BY <2>6 DEF AttendanceChanges, period, Ledger!vars
    <2>7. CASE UNCHANGED vars
      BY <2>7 DEF vars, Ledger!vars
    <2> QED
      BY <2>1, <2>2, <2>3, <2>4, <2>5, <2>6, <2>7 DEF Next, Ledger!vars
  <1> QED
    BY <1>1, <1>2, Invariance, PTL DEF Spec, ImplementsLedger, Ledger!Spec
=============================================================================
