-------------------------- MODULE CorrectionsProofs --------------------------
(***************************************************************************)
(* Proofs about Corrections, for every set of jobs: its invariants, and    *)
(* that the shift changes as ShiftReview says.                             *)
(***************************************************************************)
EXTENDS Corrections, SequenceTheorems, TLAPS

-----------------------------------------------------------------------------
(* The inductive invariant *)

\* A job inserts one row, of its own, only to correct, and ends it as it ends.
RowOwned(j) ==
  /\ own[j] # 0 => own[j] \in DOMAIN corrections
  /\ kind[j] = "approve" \/ pc[j] \in {"idle", "previous", "insert"} => own[j] = 0
  /\ pc[j] \in {"previous", "insert", "commit"} => kind[j] = "correct"
  /\ pc[j] \in {"latest", "upsert", "commit"} /\ kind[j] = "correct" => own[j] # 0
  /\ pc[j] \notin Ended /\ own[j] # 0 => corrections[own[j]].state = "open"

\* What a job has read is committed, or its own; its own row counts for it.
ReadsFit(j) ==
  /\ pc[j] = "insert" => previous[j] \in Committed \cup {0}
  /\ pc[j] \in {"upsert", "commit"} =>
       latest[j] \in Committed \cup {own[j]} /\ own[j] <= latest[j]

\* The shift has once had events that calculate accepts, and has them since.
Payable == rawValid \/ Committed # {}
GatePassed(j) == kind[j] = "approve" /\ pc[j] \in {"latest", "upsert"} => Payable

JobsFit == \A j \in Jobs : RowOwned(j) /\ ReadsFit(j) /\ GatePassed(j)
OwnsDiffer == \A j, k \in Jobs : own[j] # 0 /\ own[j] = own[k] => j = k

\* There is a newest committed correction.
IsNewest(c) == c \in Committed \cup {0} /\ \A d \in Committed : d <= c
HasNewest == \E c \in Nat : IsNewest(c)

IInv == /\ TypeOK
        /\ JobsFit
        /\ OwnsDiffer
        /\ HasNewest
        /\ SupersedesCommitted
        /\ pinned # NotApproved => Payable

-----------------------------------------------------------------------------
USE CorrectionsAssumption

\* Newest finds the greatest of a set that has one.
LEMMA NewestOf ==
  ASSUME NEW S \in SUBSET Nat, NEW m \in S \cup {0}, \A d \in S : d <= m
  PROVE  Newest(S) = m
  <1>1. ASSUME NEW c \in S \cup {0}, \A d \in S : d <= c
        PROVE  c = m
    <2>1. c \in Nat /\ m \in Nat /\ c <= m /\ m <= c
      BY <1>1
    <2> QED
      BY <2>1
  <1> QED
    BY <1>1 DEF Newest

LEMMA CommittedRows == TypeOK => Committed \in SUBSET (Nat \ {0})
  BY DEF TypeOK, Committed

LEMMA CurrentIsNewest == IInv => Current \in Nat /\ IsNewest(Current)
  <1> SUFFICES ASSUME IInv PROVE Current \in Nat /\ IsNewest(Current)
    OBVIOUS
  <1>1. PICK c \in Nat : IsNewest(c)
    BY DEF IInv, HasNewest
  <1>2. Current = c
    BY <1>1, NewestOf, CommittedRows DEF IInv, IsNewest, Current
  <1> QED
    BY <1>1, <1>2

\* What the transaction of a job finds: its own row, or a newer one.
LEMMA CurrentForRead ==
  ASSUME IInv, NEW j \in Jobs
  PROVE  /\ CurrentFor(j) \in Nat
         /\ CurrentFor(j) \in Committed \cup {own[j]}
         /\ own[j] <= CurrentFor(j)
  <1> DEFINE m == IF own[j] > Current THEN own[j] ELSE Current
             S == Committed \cup (IF own[j] = 0 THEN {} ELSE {own[j]})
  <1>1. own[j] \in Nat /\ Committed \in SUBSET (Nat \ {0})
    BY CommittedRows DEF IInv, TypeOK
  <1>2. Current \in Nat /\ Current \in Committed \cup {0} /\ \A d \in Committed : d <= Current
    BY CurrentIsNewest DEF IsNewest
  <1>3. S \in SUBSET Nat /\ m \in S \cup {0} /\ \A d \in S : d <= m
    <2>1. CASE own[j] = 0
      BY <1>1, <1>2, <2>1
    <2>2. CASE own[j] # 0
      <3> DEFINE o == own[j]
                 c == Current
                 n == IF o > c THEN o ELSE c
      <3>1. S = Committed \cup {o} /\ m = n
        BY <2>2
      <3>2. o \in Nat /\ c \in Nat /\ c \in Committed \cup {0}
            /\ \A d \in Committed : d \in Nat /\ d <= c
        BY <1>1, <1>2
      <3> HIDE DEF S, m, o, c
      <3>3. S \in SUBSET Nat
        BY <1>1, <3>1, <3>2
      <3>4. n \in S \cup {0}
        BY <3>1, <3>2
      <3>5. \A d \in S : d <= n
        BY <3>1, <3>2
      <3> QED
        BY <3>1, <3>3, <3>4, <3>5
    <2> QED
      BY <2>1, <2>2
  <1>4. CurrentFor(j) = m
    <2> HIDE DEF m
    <2> QED
      BY <1>3, NewestOf DEF CurrentFor
  <1> QED
    BY <1>1, <1>2, <1>4

LEMMA InitInv == Init => IInv
  <1> SUFFICES ASSUME Init PROVE IInv
    OBVIOUS
  <1>1. corrections = <<>> /\ DOMAIN corrections = {} /\ Committed = {}
    BY DEF Init, Committed
  <1>2. TypeOK
    BY EmptySeq DEF Init, TypeOK, Pc, Ended
  <1>3. JobsFit
    BY <1>1 DEF Init, JobsFit, RowOwned, ReadsFit, GatePassed
  <1>4. OwnsDiffer
    BY DEF Init, OwnsDiffer
  <1>5. HasNewest
    <2>1. IsNewest(0)
      BY <1>1 DEF IsNewest
    <2> QED
      BY <2>1 DEF HasNewest
  <1> QED
    BY <1>1, <1>2, <1>3, <1>4, <1>5 DEF Init, IInv, SupersedesCommitted

-----------------------------------------------------------------------------
(* What the two changes to the corrections do *)

LEMMA Inserted ==
  ASSUME TypeOK, NEW r \in Correction, r.state = "open",
         corrections' = Append(corrections, r)
  PROVE  LET new == Len(corrections) + 1 IN
         /\ corrections' \in Seq(Correction)
         /\ new \in Nat \ {0} /\ new \notin DOMAIN corrections
         /\ DOMAIN corrections' = DOMAIN corrections \cup {new}
         /\ \A c \in DOMAIN corrections : corrections'[c] = corrections[c] /\ c < new
         /\ corrections'[new] = r
         /\ Committed' = Committed
  <1> DEFINE new == Len(corrections) + 1
  <1>1. corrections \in Seq(Correction) /\ Len(corrections) \in Nat
        /\ DOMAIN corrections = 1..Len(corrections)
    BY DEF TypeOK
  <1>2. /\ corrections' \in Seq(Correction)
        /\ DOMAIN corrections' = 1..new
        /\ \A c \in 1..Len(corrections) : corrections'[c] = corrections[c]
        /\ corrections'[new] = r
    BY <1>1, AppendProperties
  <1>3. Committed' = Committed
    BY <1>1, <1>2 DEF Committed
  <1> QED
    BY <1>1, <1>2, <1>3

LEMMA RowEnded ==
  ASSUME TypeOK, NEW o \in DOMAIN corrections,
         NEW state \in {"committed", "rolled_back"}, EndRow(o, state)
  PROVE  /\ corrections' \in Seq(Correction)
         /\ DOMAIN corrections' = DOMAIN corrections
         /\ \A c \in DOMAIN corrections : corrections'[c].supersedes = corrections[c].supersedes
         /\ \A c \in DOMAIN corrections \ {o} : corrections'[c] = corrections[c]
         /\ corrections'[o].state = state
  <1>1. corrections \in Seq(Correction) /\ DOMAIN corrections = 1..Len(corrections)
        /\ Len(corrections) \in Nat
    BY DEF TypeOK
  <1>2. corrections[o].supersedes \in Nat
    <2>1. corrections[o] \in Correction
      BY <1>1
    <2> QED
      BY <2>1 DEF Correction
  <1>3. PICK r : r = [supersedes |-> corrections[o].supersedes, state |-> state]
    OBVIOUS
  <1>4. r \in Correction /\ r.supersedes = corrections[o].supersedes /\ r.state = state
    <2> DEFINE n == corrections[o].supersedes
    <2> HIDE DEF n
    <2>1. n \in Nat /\ r = [supersedes |-> n, state |-> state]
      BY <1>2, <1>3 DEF n
    <2>2. r \in Correction /\ r.supersedes = n /\ r.state = state
      BY <2>1 DEF Correction
    <2> QED
      BY <2>2 DEF n
  <1>5. corrections' = [corrections EXCEPT ![o] = r]
    BY <1>3 DEF EndRow
  <1>6. corrections' \in [1..Len(corrections) -> Correction]
    BY <1>1, <1>4, <1>5
  <1>7. corrections' \in Seq(Correction)
    BY <1>1, <1>6, SeqDef
  <1> QED
    BY <1>1, <1>4, <1>5, <1>6, <1>7

-----------------------------------------------------------------------------
(* Steps *)

USE DEF Pc, Ended

JobFits(j) == RowOwned(j) /\ ReadsFit(j) /\ GatePassed(j)

\* Only job j moves, and no committed correction is lost.
OnlyJob(j) ==
  /\ kind' = kind /\ rawValid' = rawValid
  /\ \A k \in Jobs \ {j} : /\ pc'[k] = pc[k] /\ previous'[k] = previous[k]
                           /\ own'[k] = own[k] /\ latest'[k] = latest[k]
                           /\ own[k] # 0 => corrections'[own[k]] = corrections[own[k]]
  /\ DOMAIN corrections \subseteq DOMAIN corrections'
  /\ Committed \subseteq Committed'

LEMMA OthersFit ==
  ASSUME IInv, NEW j \in Jobs, OnlyJob(j), JobFits(j)'
  PROVE  JobsFit'
  <1> SUFFICES ASSUME NEW k \in Jobs, k # j PROVE JobFits(k)'
    BY DEF JobsFit, JobFits
  <1>1. JobFits(k)
    BY DEF IInv, JobsFit, JobFits
  <1>2. /\ pc'[k] = pc[k] /\ previous'[k] = previous[k]
        /\ own'[k] = own[k] /\ latest'[k] = latest[k] /\ kind'[k] = kind[k]
        /\ own[k] # 0 => corrections'[own[k]] = corrections[own[k]]
        /\ own[k] \in DOMAIN corrections => own[k] \in DOMAIN corrections'
        /\ Committed \subseteq Committed' /\ rawValid' = rawValid
    BY DEF OnlyJob
  <1>3. RowOwned(k)'
    BY <1>1, <1>2 DEF JobFits, RowOwned
  <1>4. ReadsFit(k)'
    BY <1>1, <1>2 DEF JobFits, ReadsFit
  <1>5. GatePassed(k)'
    BY <1>1, <1>2 DEF JobFits, GatePassed, Payable
  <1> QED
    BY <1>3, <1>4, <1>5 DEF JobFits

LEMMA CommittedUnchanged ==
  ASSUME corrections' = corrections
  PROVE  Committed' = Committed
  BY DEF Committed

\* Steps that neither touch the tables nor insert.
LEMMA LocalStep ==
  ASSUME IInv, NEW j \in Jobs, UNCHANGED <<tables, kind, own>>, TypeOK',
         \A k \in Jobs \ {j} : pc'[k] = pc[k] /\ previous'[k] = previous[k] /\ latest'[k] = latest[k],
         JobFits(j)'
  PROVE  IInv'
  <1>1. Committed' = Committed /\ UNCHANGED <<rawValid, corrections, pinned, own, kind>>
    BY CommittedUnchanged DEF tables
  <1>2. JobsFit'
    <2>1. OnlyJob(j)
      BY <1>1 DEF OnlyJob
    <2> QED
      BY <2>1, OthersFit
  <1>3. OwnsDiffer' /\ SupersedesCommitted' /\ (pinned' # NotApproved => Payable')
    BY <1>1 DEF IInv, OwnsDiffer, SupersedesCommitted, Payable
  <1>4. HasNewest'
    BY <1>1 DEF IInv, HasNewest, IsNewest
  <1> QED
    BY <1>2, <1>3, <1>4 DEF IInv

LEMMA JobFacts ==
  ASSUME IInv, NEW j \in Jobs
  PROVE  /\ JobFits(j) /\ TypeOK
         /\ pc[j] \in Pc /\ kind[j] \in {"approve", "correct"}
         /\ own[j] \in Nat /\ latest[j] \in Nat /\ previous[j] \in Nat
  BY DEF IInv, JobsFit, JobFits, TypeOK

LEMMA StartInv ==
  ASSUME IInv, NEW j \in Jobs, Start(j)
  PROVE  IInv'
  <1> USE JobFacts
  <1>1. PICK label \in {"latest", "previous", "refused"} :
          /\ pc' = [pc EXCEPT ![j] = label]
          /\ label = "latest" => kind[j] = "approve" /\ Valid(Current)
          /\ label = "previous" => kind[j] = "correct"
    BY DEF Start, Check, Goto
  <1>2. UNCHANGED <<tables, kind, previous, own, latest>> /\ pc[j] = "idle"
    BY DEF Start
  <1>3. own[j] = 0
    BY <1>2 DEF JobFits, RowOwned
  <1>4. label = "latest" => Payable
    <2>1. Current \in Committed \cup {0}
      BY CurrentIsNewest DEF IsNewest
    <2> QED
      BY <1>1, <2>1 DEF Valid, Payable
  <1>5. TypeOK'
    BY <1>1, <1>2 DEF TypeOK, tables
  <1>6. pc'[j] = label /\ \A k \in Jobs \ {j} : pc'[k] = pc[k]
    BY <1>1 DEF TypeOK
  <1>7. JobFits(j)'
    BY <1>1, <1>2, <1>3, <1>4, <1>6, CommittedUnchanged
      DEF JobFits, RowOwned, ReadsFit, GatePassed, Payable, tables
  <1> QED
    BY <1>2, <1>5, <1>6, <1>7, LocalStep

LEMMA ReadPreviousInv ==
  ASSUME IInv, NEW j \in Jobs, ReadPrevious(j)
  PROVE  IInv'
  <1> USE JobFacts
  <1>1. PICK c : c = CurrentFor(j)
    OBVIOUS
  <1>2. /\ pc[j] = "previous" /\ pc' = [pc EXCEPT ![j] = "insert"]
        /\ previous' = [previous EXCEPT ![j] = c]
        /\ UNCHANGED <<tables, kind, own, latest>>
    BY <1>1 DEF ReadPrevious, Goto
  <1>3. own[j] = 0 /\ kind[j] = "correct"
    BY <1>2 DEF JobFits, RowOwned
  <1>4. c \in Nat /\ c \in Committed \cup {0}
    BY <1>1, <1>3, CurrentForRead
  <1>5. TypeOK'
    BY <1>2, <1>4 DEF TypeOK, tables
  <1>6. pc'[j] = "insert" /\ previous'[j] = c
        /\ \A k \in Jobs \ {j} : pc'[k] = pc[k] /\ previous'[k] = previous[k]
    BY <1>2 DEF TypeOK
  <1>7. JobFits(j)'
    BY <1>2, <1>3, <1>4, <1>6, CommittedUnchanged
      DEF JobFits, RowOwned, ReadsFit, GatePassed, tables
  <1> QED
    BY <1>2, <1>5, <1>6, <1>7, LocalStep

LEMMA ReadLatestInv ==
  ASSUME IInv, NEW j \in Jobs, ReadLatest(j)
  PROVE  IInv'
  <1> USE JobFacts
  <1>1. PICK c : c = CurrentFor(j)
    OBVIOUS
  <1>2. /\ pc[j] = "latest" /\ pc' = [pc EXCEPT ![j] = "upsert"]
        /\ latest' = [latest EXCEPT ![j] = c]
        /\ UNCHANGED <<tables, kind, previous, own>>
    BY <1>1 DEF ReadLatest, Goto
  <1>3. c \in Nat /\ c \in Committed \cup {own[j]} /\ own[j] <= c
    BY <1>1, CurrentForRead
  <1>4. TypeOK'
    BY <1>2, <1>3 DEF TypeOK, tables
  <1>5. pc'[j] = "upsert" /\ latest'[j] = c
        /\ \A k \in Jobs \ {j} : pc'[k] = pc[k] /\ latest'[k] = latest[k]
    BY <1>2 DEF TypeOK
  <1>6. JobFits(j)'
    BY <1>2, <1>3, <1>5, CommittedUnchanged
      DEF JobFits, RowOwned, ReadsFit, GatePassed, Payable, tables
  <1> QED
    BY <1>2, <1>4, <1>5, <1>6, LocalStep

LEMMA InsertInv ==
  ASSUME IInv, NEW j \in Jobs, Insert(j)
  PROVE  IInv'
  <1> USE JobFacts
  <1> DEFINE new == Len(corrections) + 1
  <1>1. PICK r : r = NewCorrection(j)
    OBVIOUS
  <1>2. /\ pc[j] = "insert" /\ pc' = [pc EXCEPT ![j] = "latest"]
        /\ corrections' = Append(corrections, r)
        /\ own' = [own EXCEPT ![j] = new]
        /\ UNCHANGED <<rawValid, pinned, kind, previous, latest>>
    BY <1>1 DEF Insert, Goto
  <1>3. own[j] = 0 /\ kind[j] = "correct" /\ previous[j] \in Committed \cup {0}
    BY <1>2 DEF JobFits, RowOwned, ReadsFit
  <1>4. r \in Correction /\ r.state = "open" /\ r.supersedes = previous[j]
    BY <1>1 DEF NewCorrection, Correction
  <1>5. /\ corrections' \in Seq(Correction)
        /\ new \in Nat \ {0} /\ new \notin DOMAIN corrections
        /\ DOMAIN corrections' = DOMAIN corrections \cup {new}
        /\ \A c \in DOMAIN corrections : corrections'[c] = corrections[c] /\ c < new
        /\ corrections'[new] = r
        /\ Committed' = Committed
    BY <1>2, <1>4, Inserted
  <1> HIDE DEF new
  <1>6. TypeOK'
    BY <1>2, <1>5 DEF TypeOK
  <1>7. /\ pc'[j] = "latest" /\ own'[j] = new
        /\ \A k \in Jobs \ {j} : pc'[k] = pc[k] /\ own'[k] = own[k]
    BY <1>2 DEF TypeOK
  <1>8. \A k \in Jobs : own[k] # 0 => own[k] \in DOMAIN corrections
    BY DEF IInv, JobsFit, RowOwned
  <1>9. JobsFit'
    <2>1. OnlyJob(j)
      BY <1>2, <1>5, <1>7, <1>8 DEF OnlyJob
    <2>2. JobFits(j)'
      BY <1>2, <1>3, <1>4, <1>5, <1>7 DEF JobFits, RowOwned, ReadsFit, GatePassed
    <2> QED
      BY <2>1, <2>2, OthersFit
  <1>10. OwnsDiffer'
    BY <1>5, <1>7, <1>8 DEF IInv, OwnsDiffer
  <1>11. HasNewest'
    BY <1>5 DEF IInv, HasNewest, IsNewest
  <1>12. SupersedesCommitted'
    <2>1. previous[j] < new
      BY <1>3, <1>5 DEF Committed
    <2>2. ASSUME NEW c \in DOMAIN corrections'
          PROVE  corrections'[c].supersedes \in Committed \cup {0} /\ corrections'[c].supersedes < c
      <3>1. CASE c = new
        BY <1>3, <1>4, <1>5, <2>1, <3>1
      <3>2. CASE c \in DOMAIN corrections
        BY <1>5, <3>2 DEF IInv, SupersedesCommitted
      <3> QED
        BY <1>5, <3>1, <3>2
    <2> QED
      BY <1>5, <2>2 DEF SupersedesCommitted
  <1> QED
    BY <1>2, <1>5, <1>6, <1>9, <1>10, <1>11, <1>12 DEF IInv, Payable

LEMMA UpsertInv ==
  ASSUME IInv, NEW j \in Jobs, Upsert(j)
  PROVE  IInv'
  <1> USE JobFacts
  <1>1. PICK label \in {"approved", "commit"} :
          /\ pc' = [pc EXCEPT ![j] = label]
          /\ label = "approved" => kind[j] = "approve" /\ pinned' = latest[j]
          /\ label = "commit" => kind[j] = "correct" /\ pinned' = pinned
    BY DEF Upsert, Goto
  <1>2. pc[j] = "upsert" /\ UNCHANGED <<rawValid, corrections, kind, previous, own, latest>>
    BY DEF Upsert
  <1>3. Committed' = Committed
    BY <1>2, CommittedUnchanged
  <1>4. TypeOK'
    BY <1>1, <1>2 DEF TypeOK
  <1>5. pc'[j] = label /\ \A k \in Jobs \ {j} : pc'[k] = pc[k]
    BY <1>1 DEF TypeOK
  <1>6. JobsFit'
    <2>1. OnlyJob(j)
      BY <1>2, <1>3, <1>5 DEF OnlyJob
    <2>2. JobFits(j)'
      BY <1>1, <1>2, <1>3, <1>5 DEF JobFits, RowOwned, ReadsFit, GatePassed
    <2> QED
      BY <2>1, <2>2, OthersFit
  <1>7. OwnsDiffer' /\ SupersedesCommitted'
    BY <1>2, <1>3 DEF IInv, OwnsDiffer, SupersedesCommitted
  <1>8. HasNewest'
    BY <1>3 DEF IInv, HasNewest, IsNewest
  <1>9. pinned' # NotApproved => Payable'
    BY <1>1, <1>2, <1>3 DEF IInv, Payable, JobFits, GatePassed
  <1> QED
    BY <1>4, <1>6, <1>7, <1>8, <1>9 DEF IInv

\* The row a job ends is its own, open until then, and nobody else's.
LEMMA OwnRow ==
  ASSUME IInv, NEW j \in Jobs, own[j] # 0, pc[j] \notin Ended
  PROVE  /\ own[j] \in DOMAIN corrections /\ own[j] \notin Committed
         /\ own[j] \in Nat \ {0}
         /\ \A k \in Jobs \ {j} : own[k] # 0 => own[k] \in DOMAIN corrections \ {own[j]}
  <1>1. own[j] \in DOMAIN corrections /\ corrections[own[j]].state = "open"
    BY JobFacts DEF JobFits, RowOwned
  <1>2. \A k \in Jobs \ {j} : own[k] # 0 => own[k] \in DOMAIN corrections \ {own[j]}
    BY DEF IInv, JobsFit, RowOwned, OwnsDiffer
  <1> QED
    BY <1>1, <1>2, JobFacts DEF Committed

\* Committed corrections after job j has ended its row.
LEMMA CommittedAfter ==
  ASSUME IInv, NEW j \in Jobs, own[j] # 0, pc[j] \notin Ended,
         NEW state \in {"committed", "rolled_back"}, EndRow(own[j], state)
  PROVE  Committed' = IF state = "committed" THEN Committed \cup {own[j]} ELSE Committed
  <1> DEFINE o == own[j]
  <1>1. /\ o \in DOMAIN corrections /\ o \notin Committed
        /\ DOMAIN corrections' = DOMAIN corrections
        /\ \A c \in DOMAIN corrections \ {o} : corrections'[c] = corrections[c]
        /\ corrections'[o].state = state
    BY OwnRow, RowEnded, JobFacts
  <1> HIDE DEF o
  <1>2. CASE state = "committed"
    BY <1>1, <1>2 DEF Committed, o
  <1>3. CASE state = "rolled_back"
    BY <1>1, <1>3 DEF Committed, o
  <1> QED
    BY <1>2, <1>3

\* A job that ends with its row leaves the invariant intact.
LEMMA EndInv ==
  ASSUME IInv, NEW j \in Jobs, own[j] # 0, pc[j] \notin Ended,
         NEW state \in {"committed", "rolled_back"}, EndRow(own[j], state),
         NEW label \in {"corrected", "dead"}, Goto(j, label),
         UNCHANGED <<rawValid, kind, previous, own, latest>>,
         pinned' = pinned \/ (pinned' \in Nat /\ state = "committed")
  PROVE  IInv'
  <1> USE JobFacts
  <1> DEFINE o == own[j]
  <1>1. /\ o \in DOMAIN corrections /\ o \in Nat \ {0} /\ o \notin Committed
        /\ corrections' \in Seq(Correction)
        /\ DOMAIN corrections' = DOMAIN corrections
        /\ \A c \in DOMAIN corrections : corrections'[c].supersedes = corrections[c].supersedes
        /\ \A c \in DOMAIN corrections \ {o} : corrections'[c] = corrections[c]
        /\ \A k \in Jobs \ {j} : own[k] # 0 => own[k] \in DOMAIN corrections \ {o}
    BY OwnRow, RowEnded
  <1>2. Committed' = IF state = "committed" THEN Committed \cup {o} ELSE Committed
    BY CommittedAfter
  <1> HIDE DEF o
  <1>3. TypeOK'
    BY <1>1 DEF TypeOK, Goto
  <1>4. pc'[j] = label /\ \A k \in Jobs \ {j} : pc'[k] = pc[k]
    BY DEF TypeOK, Goto
  <1>5. JobsFit'
    <2>1. OnlyJob(j)
      BY <1>1, <1>2, <1>4 DEF OnlyJob
    <2>2. JobFits(j)'
      BY <1>1, <1>4 DEF JobFits, RowOwned, ReadsFit, GatePassed, o
    <2> QED
      BY <2>1, <2>2, OthersFit
  <1>6. OwnsDiffer'
    BY DEF IInv, OwnsDiffer
  <1>7. SupersedesCommitted'
    <2>1. \A c \in DOMAIN corrections :
            corrections[c].supersedes \in Committed \cup {0} /\ corrections[c].supersedes < c
      BY DEF IInv, SupersedesCommitted
    <2> QED
      BY <1>1, <1>2, <2>1 DEF SupersedesCommitted
  <1>8. HasNewest'
    <2>1. PICK c \in Nat : c \in Committed \cup {0} /\ \A d \in Committed : d <= c
      BY DEF IInv, HasNewest, IsNewest
    <2>2. CASE state = "committed"
      <3> DEFINE n == IF o > c THEN o ELSE c
      <3>1. n \in Nat /\ n \in Committed' \cup {0}
        BY <1>1, <1>2, <2>1, <2>2
      <3>2. \A d \in Committed : d \in Nat
        BY CommittedRows
      <3>3. \A d \in Committed' : d <= n
        BY <1>1, <1>2, <2>1, <2>2, <3>2
      <3> QED
        BY <3>1, <3>3 DEF HasNewest, IsNewest
    <2>3. CASE state # "committed"
      BY <1>2, <2>1, <2>3 DEF HasNewest, IsNewest
    <2> QED
      BY <2>2, <2>3
  <1>9. pinned' # NotApproved => Payable'
    BY <1>2 DEF IInv, Payable
  <1> QED
    BY <1>3, <1>5, <1>6, <1>7, <1>8, <1>9 DEF IInv

LEMMA CommitInv ==
  ASSUME IInv, NEW j \in Jobs, Commit(j)
  PROVE  IInv'
  <1>1. own[j] # 0 /\ pc[j] \notin Ended /\ latest[j] \in Nat
    BY JobFacts DEF Commit, JobFits, RowOwned
  <1> QED
    BY <1>1, EndInv DEF Commit

LEMMA WorkerDiesInv ==
  ASSUME IInv, NEW j \in Jobs, WorkerDies(j)
  PROVE  IInv'
  <1>1. CASE own[j] = 0
    <2>1. TypeOK'
      BY <1>1, JobFacts DEF WorkerDies, Goto, TypeOK
    <2>2. pc'[j] = "dead" /\ \A k \in Jobs \ {j} : pc'[k] = pc[k]
      BY JobFacts DEF WorkerDies, Goto, TypeOK
    <2>3. JobFits(j)'
      BY <1>1, <2>2, JobFacts DEF WorkerDies, JobFits, RowOwned, ReadsFit, GatePassed
    <2> QED
      BY <1>1, <2>1, <2>2, <2>3, LocalStep DEF WorkerDies, tables
  <1>2. CASE own[j] # 0
    BY <1>2, EndInv DEF WorkerDies
  <1> QED
    BY <1>1, <1>2

LEMMA NextInv == IInv /\ [Next]_vars => IInv'
  <1> SUFFICES ASSUME IInv, [Next]_vars PROVE IInv'
    OBVIOUS
  <1>1. ASSUME NEW j \in Jobs, Step(j) \/ WorkerDies(j)
        PROVE  IInv'
    BY <1>1, StartInv, ReadPreviousInv, InsertInv, ReadLatestInv, UpsertInv,
       CommitInv, WorkerDiesInv DEF Step
  <1>2. CASE UNCHANGED vars
    <2>1. Committed' = Committed
      BY <1>2, CommittedUnchanged DEF vars
    <2>2. TypeOK' /\ OwnsDiffer'
      BY <1>2 DEF vars, IInv, TypeOK, OwnsDiffer
    <2>3. JobsFit' /\ HasNewest' /\ SupersedesCommitted' /\ (pinned' # NotApproved => Payable')
      BY <1>2, <2>1 DEF vars, IInv, JobsFit, RowOwned, ReadsFit, GatePassed, HasNewest,
                        IsNewest, SupersedesCommitted, Payable
    <2> QED
      BY <2>2, <2>3 DEF IInv
  <1> QED
    BY <1>1, <1>2 DEF Next

\* Whatever managers do at once, what their requests have read keeps fitting
\* what is committed, and what is pinned stays payable.
THEOREM Invariance == Spec => []IInv
  BY InitInv, NextInv, PTL DEF Spec

-----------------------------------------------------------------------------
(* Results *)

\* The tables and the jobs keep their types.
THEOREM TypeCorrect == Spec => []TypeOK
  BY Invariance, PTL DEF IInv

\* A correction supersedes an older one that was committed (create_correction):
\* following the links always ends at the raw punches.
THEOREM LinksCommitted == Spec => []SupersedesCommitted
  BY Invariance, PTL DEF IInv

\* What is approved has events calculate accepts, although approve_shift checks
\* and approves in statements of their own.
THEOREM ApprovedPayable == Spec => []ApprovedIsPayable
  <1>1. IInv => ApprovedIsPayable
    <2> SUFFICES ASSUME IInv, Status = "APPROVED" PROVE Valid(Current)
      BY DEF ApprovedIsPayable
    <2>1. Payable
      BY DEF IInv, Status
    <2>2. Current \in Nat /\ \A d \in Committed : d \in Nat \ {0} /\ d <= Current
      BY CurrentIsNewest, CommittedRows DEF IsNewest, IInv
    <2> QED
      BY <2>1, <2>2 DEF Payable, Valid
  <1> QED
    BY <1>1, Invariance, PTL

LEMMA ReviewInit == Init => Review!Init
  <1> SUFFICES ASSUME Init PROVE Review!Init
    OBVIOUS
  <1>1. Committed = {}
    BY DEF Init, Committed
  <1>2. Current = 0
    BY <1>1, NewestOf DEF Current
  <1> QED
    BY <1>2 DEF Init, Review!Init, Status

\* Nobody reads a difference.
LEMMA ReviewStutter ==
  ASSUME Committed' = Committed, pinned' = pinned
  PROVE  UNCHANGED Review!vars
  <1>1. Current' = Current
    BY DEF Current, Newest
  <1> QED
    BY <1>1 DEF Status, Review!vars

\* An approval that was read before is of what is current, or stale.
LEMMA ReviewUpsert ==
  ASSUME IInv, NEW j \in Jobs, Upsert(j)
  PROVE  [Review!Next]_(Review!vars)
  <1>1. Committed' = Committed
    BY CommittedUnchanged DEF Upsert
  <1>2. CASE pinned' = pinned
    BY <1>1, <1>2, ReviewStutter
  <1>3. CASE kind[j] = "approve" /\ pinned' = latest[j]
    <2>1. Current' = Current
      BY <1>1 DEF Current, Newest
    <2>2. latest[j] \in Committed \cup {0} /\ latest[j] \in Nat
      BY <1>3, JobFacts DEF Upsert, JobFits, RowOwned, ReadsFit
    <2>3. Current \in Nat /\ \A d \in Committed : d <= Current
      BY CurrentIsNewest DEF IsNewest
    <2>4. pinned' # NotApproved
      BY <1>3, <2>2
    <2>5. CASE latest[j] = Current
      BY <1>3, <2>1, <2>4, <2>5 DEF Status, Review!Next, Review!Approve
    <2>6. CASE latest[j] # Current
      <3>1. Current > 0
        BY <2>2, <2>3, <2>6
      <3> QED
        BY <1>3, <2>1, <2>4, <2>6, <3>1 DEF Status, Review!Next, Review!Overtake
    <2> QED
      BY <2>5, <2>6
  <1> QED
    BY <1>2, <1>3 DEF Upsert

\* A correction that is committed becomes current and approved, or others have
\* overtaken it and it is they that stay current.
LEMMA ReviewCommit ==
  ASSUME IInv, NEW j \in Jobs, Commit(j)
  PROVE  [Review!Next]_(Review!vars)
  <1> DEFINE o == own[j]
             l == latest[j]
  <1>1. o # 0 /\ pc[j] \notin Ended /\ l \in Committed \cup {o} /\ o <= l
        /\ o \in Nat /\ l \in Nat
    BY JobFacts DEF Commit, JobFits, RowOwned, ReadsFit
  <1>2. Committed' = Committed \cup {o} /\ pinned' = l
    BY <1>1, CommittedAfter DEF Commit
  <1>3. o \notin Committed
    BY <1>1, OwnRow
  <1>4. /\ Current \in Nat /\ Current \in Committed \cup {0} /\ \A d \in Committed : d <= Current
        /\ \A d \in Committed : d \in Nat
    BY CurrentIsNewest, CommittedRows DEF IsNewest, IInv
  <1> HIDE DEF o, l
  <1>5. Committed' \in SUBSET Nat /\ pinned' # NotApproved
    BY <1>1, <1>2, <1>4
  <1>6. CASE Current < o
    <2>1. o \in Committed' \cup {0} /\ \A d \in Committed' : d <= o
      BY <1>1, <1>2, <1>4, <1>6
    <2>2. Current' = o
      BY <1>5, <2>1, NewestOf DEF Current
    <2>3. l = o
      BY <1>1, <1>4, <1>6
    <2> QED
      BY <1>2, <1>5, <1>6, <2>2, <2>3 DEF Status, Review!Next, Review!Correct
  <1>7. CASE ~(Current < o)
    <2>1. Current \in Committed' \cup {0} /\ \A d \in Committed' : d <= Current
      BY <1>1, <1>2, <1>4, <1>7
    <2>2. Current' = Current
      <3>1. PICK c : c = Current
        OBVIOUS
      <3>2. Newest(Committed') = c
        BY <1>5, <2>1, <3>1, NewestOf
      <3> QED
        BY <3>1, <3>2 DEF Current
    <2>3. Current > 0
      BY <1>1, <1>4, <1>7
    <2> QED
      BY <1>2, <1>5, <2>2, <2>3 DEF Status, Review!Next, Review!Approve, Review!Overtake
  <1> QED
    BY <1>6, <1>7

LEMMA ReviewNext == IInv /\ [Next]_vars => [Review!Next]_(Review!vars)
  <1> SUFFICES ASSUME IInv, [Next]_vars PROVE [Review!Next]_(Review!vars)
    OBVIOUS
  <1>1. CASE UNCHANGED vars
    BY <1>1, CommittedUnchanged, ReviewStutter DEF vars
  <1>2. ASSUME NEW j \in Jobs, Start(j) \/ ReadPrevious(j) \/ ReadLatest(j)
        PROVE  [Review!Next]_(Review!vars)
    BY <1>2, CommittedUnchanged, ReviewStutter DEF Start, ReadPrevious, ReadLatest, tables
  <1>3. ASSUME NEW j \in Jobs, Insert(j)
        PROVE  [Review!Next]_(Review!vars)
    <2>1. PICK r : r = NewCorrection(j)
      OBVIOUS
    <2>2. r \in Correction /\ r.state = "open" /\ corrections' = Append(corrections, r)
      BY <1>3, <2>1, JobFacts DEF Insert, NewCorrection, Correction
    <2>3. Committed' = Committed
      BY <2>2, Inserted, JobFacts
    <2> QED
      BY <1>3, <2>3, ReviewStutter DEF Insert
  <1>4. ASSUME NEW j \in Jobs, WorkerDies(j)
        PROVE  [Review!Next]_(Review!vars)
    <2>1. Committed' = Committed
      BY <1>4, CommittedAfter, CommittedUnchanged DEF WorkerDies
    <2> QED
      BY <1>4, <2>1, ReviewStutter DEF WorkerDies
  <1> QED
    BY <1>1, <1>2, <1>3, <1>4, ReviewUpsert, ReviewCommit DEF Next, Step

\* Managers who correct and approve a shift together change it, for whoever
\* reads it, in the steps of ShiftReview.
THEOREM Refinement == Spec => ImplementsReview
  BY Invariance, ReviewInit, ReviewNext, PTL DEF Spec, ImplementsReview, Review!Spec
=============================================================================
