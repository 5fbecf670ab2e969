------------------------------ MODULE PayProofs ------------------------------
(***************************************************************************)
(* Proofs about pay: Payslips, with Reconciliation, Earnings and           *)
(* Statements, for any store, rates, dates and number of requests;         *)
(* PayableTime, for any days, months, times and number of punches; and     *)
(* Wages, for any dates, months and number of requests.                    *)
(***************************************************************************)
EXTENDS Wages, Payslips, PayableTime, FiniteSetTheorems, WellFoundedInduction, TLAPS

-----------------------------------------------------------------------------
(* Recursion over the naturals *)

\* Induction, over a set.
LEMMA CountedUp ==
  ASSUME NEW T, 0 \in T, \A n \in Nat : n \in T => n + 1 \in T
  PROVE  \A n \in Nat : n \in T
  <1> SUFFICES ASSUME Nat \ T # {} PROVE FALSE
    OBVIOUS
  <1>1. PICK x \in Nat \ T : \A y \in Nat \ T : ~(<<y, x>> \in OpToRel(<, Nat))
    BY NatLessThanWellFounded, WFMin
  <1>2. x # 0 /\ x - 1 \in Nat
    OBVIOUS
  <1>3. x - 1 \notin T
    BY <1>2
  <1>4. <<x - 1, x>> \in OpToRel(<, Nat)
    BY <1>2 DEF OpToRel
  <1> QED
    BY <1>1, <1>2, <1>3, <1>4

StepsIn(S, first, step) == first \in S /\ step \in [Nat -> [S -> S]]
Steps(f, first, step) == f[0] = first /\ \A n \in Nat \ {0} : f[n] = step[n][f[n - 1]]

\* A function defined by recursion over the naturals exists.
LEMMA Recursion ==
  ASSUME NEW S, NEW first, NEW step, StepsIn(S, first, step)
  PROVE  \E f \in [Nat -> S] : Steps(f, first, step)
  <1>0. first \in S /\ step \in [Nat -> [S -> S]]
    BY DEF StepsIn
  <1> DEFINE Part(n) == {g \in [0..n -> S] : g[0] = first /\ \A k \in 1..n : g[k] = step[k][g[k - 1]]}
             Parts == {n \in Nat : Part(n) # {}}
  <1>1. \A n \in Nat : Part(n) # {}
    <2>1. 0 \in Parts
      <3>1. [k \in 0..0 |-> first] \in Part(0)
        BY <1>0
      <3> QED
        BY <3>1
    <2>2. ASSUME NEW n \in Nat, n \in Parts PROVE n + 1 \in Parts
      <3>1. PICK g : g \in Part(n)
        BY <2>2
      <3> DEFINE h == [k \in 0..(n + 1) |-> IF k = n + 1 THEN step[n + 1][g[n]] ELSE g[k]]
      <3>2. h \in [0..(n + 1) -> S] /\ h[0] = first
        BY <1>0, <3>1
      <3>3. ASSUME NEW k \in 1..(n + 1) PROVE h[k] = step[k][h[k - 1]]
        <4>1. k - 1 \in 0..(n + 1) /\ k - 1 # n + 1 /\ k \in 0..(n + 1)
          OBVIOUS
        <4>2. h[k - 1] = g[k - 1]
          BY <4>1
        <4>3. CASE k = n + 1
          BY <4>2, <4>3
        <4>4. CASE k # n + 1
          <5>1. k \in 1..n /\ h[k] = g[k]
            BY <4>4
          <5> QED
            BY <5>1, <4>2, <3>1
        <4> QED
          BY <4>3, <4>4
      <3> HIDE DEF h
      <3>4. h \in Part(n + 1)
        BY <3>2, <3>3
      <3> QED
        BY <3>4
    <2> HIDE DEF Parts
    <2>3. \A n \in Nat : n \in Parts
      BY <2>1, <2>2, CountedUp
    <2> QED
      BY <2>3 DEF Parts
  <1>2. ASSUME NEW n \in Nat, NEW g \in Part(n), NEW m \in Nat, NEW h \in Part(m)
        PROVE  \A k \in Nat : k <= n /\ k <= m => g[k] = h[k]
    <2> DEFINE Same == {k \in Nat : k <= n /\ k <= m => g[k] = h[k]}
    <2>1. 0 \in Same
      BY <1>2
    <2>2. ASSUME NEW k \in Nat, k \in Same PROVE k + 1 \in Same
      <3> SUFFICES ASSUME k + 1 <= n, k + 1 <= m PROVE g[k + 1] = h[k + 1]
        OBVIOUS
      <3>1. g[k] = h[k] /\ k + 1 \in 1..n /\ k + 1 \in 1..m /\ (k + 1) - 1 = k
        BY <2>2
      <3> QED
        BY <3>1, <1>2
    <2> HIDE DEF Same
    <2>3. \A k \in Nat : k \in Same
      BY <2>1, <2>2, CountedUp
    <2> QED
      BY <2>3 DEF Same
  <1> DEFINE G(n) == CHOOSE g : g \in Part(n)
             f == [n \in Nat |-> G(n)[n]]
  <1>3. \A n \in Nat : G(n) \in Part(n)
    BY <1>1
  <1> HIDE DEF G
  <1>4. \A n \in Nat : f[n] \in S /\ f[n] = G(n)[n]
    BY <1>3
  <1>7. f \in [Nat -> S]
    BY <1>4
  <1> HIDE DEF f
  <1>5. f[0] = first
    BY <1>3, <1>4
  <1>6. ASSUME NEW n \in Nat, n # 0 PROVE f[n] = step[n][f[n - 1]]
    <2>1. n - 1 \in Nat /\ n \in 1..n /\ n - 1 <= n
      BY <1>6
    <2>2. G(n)[n] = step[n][G(n)[n - 1]]
      BY <1>3, <2>1
    <2>3. G(n) \in Part(n) /\ G(n - 1) \in Part(n - 1)
      BY <1>3, <2>1
    <2> HIDE DEF Part
    <2>4. G(n)[n - 1] = G(n - 1)[n - 1]
      BY <1>2, <2>1, <2>3
    <2>5. f[n] = G(n)[n] /\ f[n - 1] = G(n - 1)[n - 1]
      BY <1>4, <2>1
    <2> QED
      BY <2>2, <2>4, <2>5
  <1> QED
    BY <1>5, <1>6, <1>7 DEF Steps

-----------------------------------------------------------------------------
(* Payslips: the inductive invariant *)

IsSeq(t) == \E S : t \in Seq(S)

\* A line whose first n segments are rated.
RatedUpTo(line, n, seen) ==
  LET e == line.employee IN
  line.blockers = {} =>
    /\ Len(line.rated) = InMonthUpTo(e, n)
    /\ \A i \in 1..n : InMonth(e, i) =>
         LET rated == line.rated[InMonthUpTo(e, i)]
         IN  /\ rated.units = Employee(e).work[i].units
             /\ rated.wage \in WagesSeen(e, Employee(e).work[i].day, seen)

\* Lines of employees, and, in the console's, one for everybody listed.
LinesKnown(lines) == \A line \in ToSet(lines) : line.employee \in Codes
AllPaid(payload, seen) ==
  store.kind = "console" =>
    \A e \in Codes : Listed(e) => \E line \in ToSet(payload) : PaidInFull(line, e, seen)

\* Every labour week that has its rest day in the month was over on the day on.
WeeksOver(payload, on) ==
  /\ on > Length /\ on \in Nat
  /\ \A line \in ToSet(payload) : \A r \in RowOn(Employee(line.employee).terms, on) :
       BoundaryWeekComplete(Length, store.first, r.weekday, on)

Shape ==
  \/ build = Done
  \/ /\ build = [pc |-> "employee", lines |-> build.lines, seen |-> build.seen,
                 staff |-> build.staff]
     /\ IsSeq(build.lines)
  \/ /\ build = [pc |-> "segment", lines |-> build.lines, seen |-> build.seen,
                 staff |-> build.staff, next |-> build.next, line |-> build.line]
     /\ build.line = [employee |-> build.line.employee, rated |-> build.line.rated,
                      blockers |-> build.line.blockers]
     /\ IsSeq(build.lines) /\ IsSeq(build.line.rated)
  \/ build = [pc |-> "check", payload |-> build.payload, seen |-> build.seen]
  \/ build = [pc |-> "close", payload |-> build.payload, seen |-> build.seen, on |-> build.on]

\* The preview: everybody listed is before it, under way, or has a line.
PreviewFits ==
  build.pc \in {"employee", "segment"} =>
    /\ build.staff \subseteq Codes
    /\ wages \in build.seen
    /\ LinesKnown(build.lines)
    /\ \A line \in ToSet(build.lines) :
         line.blockers = {} => PaidInFull(line, line.employee, build.seen)
    /\ \A e \in Codes : Listed(e) =>
         \/ e \in build.staff
         \/ build.pc = "segment" /\ build.line.employee = e
         \/ \E line \in ToSet(build.lines) : line.employee = e
LineFits ==
  build.pc = "segment" =>
    /\ build.line.employee \in Codes
    /\ build.next \in 1..(Len(Employee(build.line.employee).work) + 1)
    /\ RatedUpTo(build.line, build.next - 1, build.seen)
PayloadFits ==
  /\ build.pc \in {"check", "close"} =>
       LinesKnown(build.payload) /\ AllPaid(build.payload, build.seen)
  /\ build.pc = "close" => WeeksOver(build.payload, build.on)
SnapshotsFit ==
  /\ IsSeq(snapshots)
  /\ \A s \in ToSet(snapshots) :
       LinesKnown(s.payload) /\ AllPaid(s.payload, s.seen) /\ WeeksOver(s.payload, s.on)

BuildFits == Shape /\ PreviewFits /\ LineFits /\ PayloadFits

PayInv == store \in Stores /\ today \in Clock /\ BuildFits /\ SnapshotsFit

-----------------------------------------------------------------------------
(* Helpers *)

LEMMA Appended ==
  ASSUME NEW t, IsSeq(t), NEW x
  PROVE  /\ IsSeq(Append(t, x)) /\ Len(t) \in Nat /\ DOMAIN t = 1..Len(t)
         /\ Len(Append(t, x)) = Len(t) + 1 /\ Append(t, x)[Len(t) + 1] = x
         /\ \A n \in 1..Len(t) : Append(t, x)[n] = t[n]
         /\ ToSet(Append(t, x)) = ToSet(t) \cup {x}
  <1>1. PICK S : t \in Seq(S)
    BY DEF IsSeq
  <1>2. t \in Seq(S \cup {x}) /\ x \in S \cup {x}
    BY <1>1
  <1>3. /\ Append(t, x) \in Seq(S \cup {x}) /\ Len(t) \in Nat /\ DOMAIN t = 1..Len(t)
        /\ Len(Append(t, x)) = Len(t) + 1 /\ Append(t, x)[Len(t) + 1] = x
        /\ \A n \in 1..Len(t) : Append(t, x)[n] = t[n]
        /\ DOMAIN Append(t, x) = 1..(Len(t) + 1)
    BY <1>2
  <1>4. ToSet(Append(t, x)) = ToSet(t) \cup {x}
    BY <1>3 DEF ToSet
  <1> QED
    BY <1>3, <1>4 DEF IsSeq

LEMMA StoreKnown == ASSUME PayInv PROVE StoreFits(store) /\ today \in Nat
  BY PayslipsAssumption DEF PayInv

LEMMA WorkOf ==
  ASSUME PayInv, NEW e \in Codes
  PROVE  /\ Employee(e).work \in Seq([day : Int, units : Units])
         /\ Len(Employee(e).work) \in Nat
         /\ DOMAIN Employee(e).work = 1..Len(Employee(e).work)
  <1>1. EmployeeFits(Employee(e))
    BY StoreKnown DEF StoreFits, Codes, Employee
  <1>2. Employee(e).work \in Seq([day : Int, units : Units])
    BY <1>1 DEF EmployeeFits
  <1> QED
    BY <1>2

\* The segments of the month are numbered from 1 on, in their order.
LEMMA Numbered ==
  ASSUME NEW e, NEW n \in Nat
  PROVE  /\ InMonthUpTo(e, 0) = 0
         /\ InMonthUpTo(e, n) \in Nat
         /\ InMonth(e, n + 1) => InMonthUpTo(e, n + 1) = InMonthUpTo(e, n) + 1
         /\ ~InMonth(e, n + 1) => InMonthUpTo(e, n + 1) = InMonthUpTo(e, n)
         /\ \A i \in 1..n : InMonth(e, i) => InMonthUpTo(e, i) \in 1..InMonthUpTo(e, n)
  <1> DEFINE C(k) == {i \in 1..k : InMonth(e, i)}
  <1>1. ASSUME NEW k \in Nat PROVE IsFiniteSet(C(k)) /\ Cardinality(C(k)) \in Nat
    <2>1. IsFiniteSet(1..k) /\ C(k) \subseteq 1..k
      BY FS_Interval
    <2> QED
      BY <2>1, FS_Subset, FS_CardinalityType
  <1>2. C(0) = {}
    OBVIOUS
  <1>3. Cardinality(C(0)) = 0
    BY <1>2, FS_EmptySet
  <1>0. InMonthUpTo(e, n) = Cardinality(C(n)) /\ InMonthUpTo(e, n + 1) = Cardinality(C(n + 1))
    BY DEF InMonthUpTo
  <1>4. ASSUME InMonth(e, n + 1) PROVE InMonthUpTo(e, n + 1) = InMonthUpTo(e, n) + 1
    <2>1. C(n + 1) = C(n) \cup {n + 1} /\ n + 1 \notin C(n)
      BY <1>4
    <2>2. Cardinality(C(n + 1)) = Cardinality(C(n)) + 1
      BY <1>1, <2>1, FS_AddElement
    <2> QED
      BY <2>2, <1>4, <1>0
  <1>5. ASSUME ~InMonth(e, n + 1) PROVE InMonthUpTo(e, n + 1) = InMonthUpTo(e, n)
    <2>1. C(n + 1) = C(n)
      BY <1>5
    <2> QED
      BY <2>1, <1>5, <1>0
  <1>6. ASSUME NEW i \in 1..n, InMonth(e, i) PROVE InMonthUpTo(e, i) \in 1..InMonthUpTo(e, n)
    <2>1. i \in C(i) /\ C(i) \subseteq C(n)
      BY <1>6
    <2>2. Cardinality(C(i)) <= Cardinality(C(n))
      BY <2>1, <1>1, FS_Subset
    <2>3. Cardinality(C(i)) # 0
      BY <2>1, <1>1, FS_EmptySet
    <2> QED
      BY <2>2, <2>3, <1>1 DEF InMonthUpTo
  <1> QED
    BY <1>1, <1>3, <1>4, <1>5, <1>6 DEF InMonthUpTo

-----------------------------------------------------------------------------
(* What is kept *)

LEMMA SeenGrows ==
  ASSUME NEW seen, NEW w, NEW line, NEW e
  PROVE  /\ PaidInFull(line, e, seen) => PaidInFull(line, e, seen \cup {w})
         /\ \A n \in Int : RatedUpTo(line, n, seen) => RatedUpTo(line, n, seen \cup {w})
  <1>1. \A day : WagesSeen(e, day, seen) \subseteq WagesSeen(e, day, seen \cup {w})
    BY DEF WagesSeen
  <1>2. \A day : WagesSeen(line.employee, day, seen) \subseteq WagesSeen(line.employee, day, seen \cup {w})
    BY DEF WagesSeen
  <1> QED
    BY <1>1, <1>2 DEF PaidInFull, RatedUpTo

LEMMA StoreStays ==
  ASSUME store' = store
  PROVE  /\ Codes' = Codes
         /\ \A e : Listed(e)' = Listed(e) /\ Employee(e)' = Employee(e)
         /\ \A lines : LinesKnown(lines)' = LinesKnown(lines)
         /\ \A payload, seen : AllPaid(payload, seen)' = AllPaid(payload, seen)
         /\ \A payload, on : WeeksOver(payload, on)' = WeeksOver(payload, on)
         /\ \A line, e, seen : PaidInFull(line, e, seen)' = PaidInFull(line, e, seen)
         /\ \A line, n, seen : RatedUpTo(line, n, seen)' = RatedUpTo(line, n, seen)
  <1>1. Codes' = Codes /\ \A e : Employee(e)' = Employee(e)
    BY DEF Codes, Employee
  <1>2. \A e : Listed(e)' = Listed(e)
    BY DEF Listed, Employee
  <1>3. \A lines : LinesKnown(lines)' = LinesKnown(lines)
    BY DEF LinesKnown, Codes
  <1>4. \A line, e, seen : PaidInFull(line, e, seen)' = PaidInFull(line, e, seen)
    BY DEF PaidInFull, InMonthUpTo, InMonth, Employee
  <1>5. \A line, n, seen : RatedUpTo(line, n, seen)' = RatedUpTo(line, n, seen)
    BY DEF RatedUpTo, InMonthUpTo, InMonth, Employee
  <1>6. \A payload, seen : AllPaid(payload, seen)' = AllPaid(payload, seen)
    BY <1>1, <1>2, <1>4 DEF AllPaid
  <1>7. \A payload, on : WeeksOver(payload, on)' = WeeksOver(payload, on)
    BY DEF WeeksOver, Employee
  <1> QED
    BY <1>1, <1>2, <1>3, <1>4, <1>5, <1>6, <1>7

-----------------------------------------------------------------------------
(* The steps *)

LEMMA PayslipsInitInv == PayslipsInit => PayInv
  <1> SUFFICES ASSUME PayslipsInit PROVE PayInv
    OBVIOUS
  <1>1. store \in Stores /\ today \in Clock /\ build = Done /\ snapshots = <<>>
    BY DEF PayslipsInit
  <1>2. BuildFits
    BY <1>1 DEF BuildFits, Shape, PreviewFits, LineFits, PayloadFits, Done
  <1>3. SnapshotsFit
    BY <1>1 DEF SnapshotsFit, IsSeq, ToSet
  <1> QED
    BY <1>1, <1>2, <1>3 DEF PayInv

LEMMA SnapshotsKept ==
  ASSUME PayInv, store' = store, snapshots' = snapshots
  PROVE  SnapshotsFit'
  BY StoreStays DEF PayInv, SnapshotsFit

LEMMA BuildKept ==
  ASSUME PayInv, store' = store, build' = build, wages' = wages \/ build = Done
  PROVE  BuildFits'
  <1>1. CASE build = Done
    BY <1>1 DEF BuildFits, Shape, PreviewFits, LineFits, PayloadFits, Done
  <1>2. CASE wages' = wages
    <2>1. Shape' /\ PayloadFits'
      BY StoreStays DEF PayInv, BuildFits, Shape, PayloadFits, Done
    <2>2. PreviewFits'
      BY <1>2, StoreStays DEF PayInv, BuildFits, PreviewFits
    <2>3. LineFits'
      BY StoreStays DEF PayInv, BuildFits, LineFits
    <2> QED
      BY <2>1, <2>2, <2>3 DEF BuildFits
  <1> QED
    BY <1>1, <1>2

\* Dates pass, months are reopened and downloaded, premiums change.
LEMMA OutsideKeeps ==
  ASSUME PayInv, \/ Tick \/ Reopen \/ Download \/ PremiumStep \/ UNCHANGED payslipsVars
  PROVE  PayInv'
  <1>1. UNCHANGED <<store, wages, build, snapshots>>
    BY DEF Tick, Reopen, Download, PremiumStep, payslipsVars
  <1>2. today' \in Clock
    <2>1. CASE Tick
      BY <2>1 DEF Tick
    <2>2. CASE UNCHANGED today
      BY <2>2 DEF PayInv
    <2> QED
      BY <2>1, <2>2 DEF Reopen, Download, PremiumStep, payslipsVars
  <1> QED
    BY <1>1, <1>2, BuildKept, SnapshotsKept DEF PayInv

\* A wage that is set meanwhile is one more that the preview may have seen.
LEMMA SetHourlyWageKeeps ==
  ASSUME PayInv, NEW e \in Codes, NEW amount \in Amounts, SetHourlyWage(e, amount)
  PROVE  PayInv'
  <1>1. UNCHANGED <<store, today, snapshots>>
    BY DEF SetHourlyWage
  <1>2. CASE build = Done
    BY <1>1, <1>2, BuildKept, SnapshotsKept DEF PayInv, SetHourlyWage
  <1>3. CASE build # Done
    <2> DEFINE seen == build.seen \cup {wages'}
    <2>1. build' = [build EXCEPT !.seen = seen]
      BY <1>3 DEF SetHourlyWage
    <2>2. /\ Shape' /\ build'.seen = seen /\ build'.pc = build.pc
          /\ build.pc \in {"employee", "segment"} =>
               build'.staff = build.staff /\ build'.lines = build.lines
          /\ build.pc = "segment" => build'.line = build.line /\ build'.next = build.next
          /\ build.pc \in {"check", "close"} => build'.payload = build.payload
          /\ build.pc = "close" => build'.on = build.on
      BY <2>1, <1>3 DEF PayInv, BuildFits, Shape
    <2>. HIDE DEF seen
    <2>3. /\ \A line, x : PaidInFull(line, x, build.seen) => PaidInFull(line, x, seen)
          /\ \A line : \A n \in Int : RatedUpTo(line, n, build.seen) => RatedUpTo(line, n, seen)
      BY SeenGrows DEF seen
    <2>4. PreviewFits'
      <3>1. wages' \in seen
        BY DEF seen
      <3> QED
        BY <2>2, <2>3, <3>1, <1>1, StoreStays DEF PayInv, BuildFits, PreviewFits
    <2>5. LineFits'
      <3>1. build.pc = "segment" => build.next - 1 \in Int
        BY DEF PayInv, BuildFits, LineFits
      <3> QED
        BY <2>2, <2>3, <3>1, <1>1, StoreStays DEF PayInv, BuildFits, LineFits
    <2>6. PayloadFits'
      <3>1. AllPaid(build.payload, build.seen) => AllPaid(build.payload, seen)
        BY <2>3 DEF AllPaid
      <3> QED
        BY <2>2, <3>1, <1>1, StoreStays DEF PayInv, BuildFits, PayloadFits
    <2> QED
      BY <1>1, <2>2, <2>4, <2>5, <2>6, SnapshotsKept DEF PayInv, BuildFits
  <1> QED
    BY <1>2, <1>3

LEMMA ListEmployeesKeeps == ASSUME PayInv, ListEmployees PROVE PayInv'
  <1>1. /\ UNCHANGED <<store, today, wages, snapshots>>
        /\ build' = [pc |-> "employee", lines |-> <<>>, seen |-> {wages},
                     staff |-> {e \in Codes : Listed(e)}]
    BY DEF ListEmployees, BuildOnly
  <1>2. ToSet(<<>>) = {} /\ IsSeq(<<>>)
    BY DEF ToSet, IsSeq
  <1>3. Shape'
    BY <1>1, <1>2 DEF Shape
  <1>4. PreviewFits'
    BY <1>1, <1>2, StoreStays DEF PreviewFits, LinesKnown
  <1>5. LineFits' /\ PayloadFits'
    BY <1>1 DEF LineFits, PayloadFits
  <1> QED
    BY <1>1, <1>3, <1>4, <1>5, SnapshotsKept DEF PayInv, BuildFits

LEMMA ReadWageAtStartKeeps == ASSUME PayInv, ReadWageAtStart PROVE PayInv'
  <1>1. PICK e \in build.staff : \E blockers :
          build' = [pc |-> "segment", lines |-> build.lines, seen |-> build.seen,
                    staff |-> build.staff \ {e}, next |-> 1,
                    line |-> [employee |-> e, rated |-> <<>>, blockers |-> blockers]]
    BY DEF ReadWageAtStart
  <1>2. build.pc = "employee" /\ UNCHANGED <<store, today, wages, snapshots>>
    BY DEF ReadWageAtStart, BuildOnly
  <1>3. e \in Codes
    BY <1>1, <1>2 DEF PayInv, BuildFits, PreviewFits
  <1>4. IsSeq(<<>>) /\ Len(<<>>) = 0
    BY DEF IsSeq
  <1>5. Shape'
    BY <1>1, <1>2, <1>4 DEF PayInv, BuildFits, Shape, Done
  <1>6. PreviewFits'
    BY <1>1, <1>2, StoreStays DEF PayInv, BuildFits, PreviewFits
  <1>7. LineFits'
    <2>1. RatedUpTo(build'.line, 0, build'.seen)
      BY <1>1, <1>4, Numbered DEF RatedUpTo
    <2>2. 1 \in 1..(Len(Employee(e).work) + 1)
      BY <1>3, WorkOf
    <2>3. build'.line.employee = e /\ build'.next = 1
      BY <1>1
    <2> QED
      BY <1>2, <1>3, <2>1, <2>2, <2>3, StoreStays DEF LineFits
  <1>8. PayloadFits'
    BY <1>1 DEF PayloadFits
  <1> QED
    BY <1>2, <1>5, <1>6, <1>7, <1>8, SnapshotsKept DEF PayInv, BuildFits

\* The wage of the next segment is that of now, which the preview has seen.
LEMMA RatedNext ==
  ASSUME PayInv, build.pc = "segment",
         build.next \in DOMAIN Employee(build.line.employee).work,
         InMonth(build.line.employee, build.next),
         NEW line, line = Rated(build.line, Employee(build.line.employee).work[build.next])
  PROVE  /\ line = [employee |-> build.line.employee, rated |-> line.rated,
                    blockers |-> line.blockers]
         /\ IsSeq(line.rated) /\ RatedUpTo(line, build.next, build.seen)
  <1> DEFINE e == build.line.employee
             n == build.next
             segment == Employee(e).work[n]
             paid == WageOn(wages[e], segment.day)
  <1>1. /\ build.line = [employee |-> e, rated |-> build.line.rated,
                         blockers |-> build.line.blockers]
        /\ IsSeq(build.line.rated)
        /\ wages \in build.seen /\ n \in Nat \ {0} /\ e \in Codes
        /\ RatedUpTo(build.line, n - 1, build.seen)
    <2>1. Shape /\ PreviewFits /\ LineFits
      BY DEF PayInv, BuildFits
    <2>2. n \in Nat \ {0} /\ e \in Codes /\ wages \in build.seen
      BY <2>1, WorkOf DEF LineFits, PreviewFits
    <2> QED
      BY <2>1, <2>2 DEF Shape, LineFits, Done
  <1>2. CASE paid = None
    <2>1. line = [employee |-> e, rated |-> build.line.rated,
                  blockers |-> build.line.blockers \cup {"MISSING_HOURLY_WAGE"}]
      BY <1>1, <1>2 DEF Rated
    <2> QED
      BY <2>1, <1>1 DEF RatedUpTo
  <1>3. CASE paid # None
    <2> DEFINE new == [units |-> segment.units, wage |-> paid]
    <2>1. line = [employee |-> e, rated |-> Append(build.line.rated, new),
                  blockers |-> build.line.blockers]
      BY <1>1, <1>3 DEF Rated
    <2> HIDE DEF new
    <2>2. /\ line.employee = e /\ line.rated = Append(build.line.rated, new)
          /\ line.blockers = build.line.blockers
      BY <2>1
    <2>3. /\ IsSeq(line.rated) /\ Len(line.rated) = Len(build.line.rated) + 1
          /\ line.rated[Len(build.line.rated) + 1] = new
          /\ \A k \in 1..Len(build.line.rated) : line.rated[k] = build.line.rated[k]
      <3>1. PICK t : t = build.line.rated /\ IsSeq(t)
        BY <1>1
      <3>2. /\ IsSeq(Append(t, new)) /\ Len(Append(t, new)) = Len(t) + 1
            /\ Append(t, new)[Len(t) + 1] = new
            /\ \A k \in 1..Len(t) : Append(t, new)[k] = t[k]
        BY <3>1, Appended
      <3> QED
        BY <2>2, <3>1, <3>2
    <2>4. /\ InMonthUpTo(e, n) = InMonthUpTo(e, n - 1) + 1
          /\ \A i \in 1..(n - 1) : InMonth(e, i) => InMonthUpTo(e, i) \in 1..InMonthUpTo(e, n - 1)
      <3>1. n - 1 \in Nat /\ (n - 1) + 1 = n
        BY <1>1
      <3> QED
        BY <3>1, Numbered
    <2>5. ASSUME line.blockers = {}
          PROVE  /\ Len(line.rated) = InMonthUpTo(e, n)
                 /\ \A i \in 1..n : InMonth(e, i) =>
                      LET rated == line.rated[InMonthUpTo(e, i)]
                      IN  /\ rated.units = Employee(e).work[i].units
                          /\ rated.wage \in WagesSeen(e, Employee(e).work[i].day, build.seen)
      <3>1. /\ Len(build.line.rated) = InMonthUpTo(e, n - 1)
            /\ \A i \in 1..(n - 1) : InMonth(e, i) =>
                 LET rated == build.line.rated[InMonthUpTo(e, i)]
                 IN  /\ rated.units = Employee(e).work[i].units
                     /\ rated.wage \in WagesSeen(e, Employee(e).work[i].day, build.seen)
        BY <2>5, <2>2, <1>1 DEF RatedUpTo
      <3>2. new.units = segment.units /\ new.wage \in WagesSeen(e, segment.day, build.seen)
        BY <1>1 DEF new, WagesSeen
      <3>3. Len(line.rated) = InMonthUpTo(e, n)
        BY <3>1, <2>3, <2>4
      <3>4. line.rated[InMonthUpTo(e, n)] = new
        BY <3>1, <2>3, <2>4
      <3>5. ASSUME NEW i \in 1..(n - 1), InMonth(e, i)
            PROVE  line.rated[InMonthUpTo(e, i)] = build.line.rated[InMonthUpTo(e, i)]
        BY <3>5, <3>1, <2>3, <2>4
      <3>6. \A i \in 1..n : i = n \/ i \in 1..(n - 1)
        BY <1>1
      <3> QED
        BY <3>1, <3>2, <3>3, <3>4, <3>5, <3>6
    <2> QED
      BY <2>1, <2>2, <2>3, <2>5 DEF RatedUpTo
  <1> QED
    BY <1>2, <1>3

LEMMA RateSegmentStep ==
  ASSUME PayInv, RateSegment, NEW line,
         line = IF InMonth(build.line.employee, build.next)
                THEN Rated(build.line, Employee(build.line.employee).work[build.next])
                ELSE build.line
  PROVE  /\ build' = [pc |-> "segment", lines |-> build.lines, seen |-> build.seen,
                      staff |-> build.staff, next |-> build.next + 1, line |-> line]
         /\ IsSeq(build.lines)
  <1>1. build' = [build EXCEPT !.next = build.next + 1, !.line = line]
    BY DEF RateSegment
  <1>2. /\ build = [pc |-> "segment", lines |-> build.lines, seen |-> build.seen,
                    staff |-> build.staff, next |-> build.next, line |-> build.line]
        /\ IsSeq(build.lines)
    BY DEF RateSegment, PayInv, BuildFits, Shape, Done
  <1>3. PICK mid : mid = [build EXCEPT !.next = build.next + 1]
    OBVIOUS
  <1>4. mid = [pc |-> "segment", lines |-> build.lines, seen |-> build.seen,
               staff |-> build.staff, next |-> build.next + 1, line |-> build.line]
    BY <1>2, <1>3
  <1>5. build' = [mid EXCEPT !.line = line]
    BY <1>1, <1>3
  <1> QED
    BY <1>2, <1>4, <1>5

LEMMA RateSegmentKeeps == ASSUME PayInv, RateSegment PROVE PayInv'
  <1> DEFINE e == build.line.employee
             n == build.next
  <1>1. PICK line :
          line = IF InMonth(e, n) THEN Rated(build.line, Employee(e).work[n]) ELSE build.line
    OBVIOUS
  <1>2. /\ build.pc = "segment" /\ n \in DOMAIN Employee(e).work
        /\ UNCHANGED <<store, today, wages, snapshots>>
    BY DEF RateSegment, BuildOnly
  <1>3. /\ Shape /\ PreviewFits /\ LineFits /\ e \in Codes
        /\ n \in Nat \ {0} /\ n <= Len(Employee(e).work)
    <2>1. Shape /\ PreviewFits /\ LineFits
      BY DEF PayInv, BuildFits
    <2> QED
      BY <2>1, <1>2, WorkOf DEF LineFits
  <1>4. /\ line = [employee |-> e, rated |-> line.rated, blockers |-> line.blockers]
        /\ IsSeq(line.rated) /\ RatedUpTo(line, n, build.seen)
    <2>1. CASE InMonth(e, n)
      BY <1>1, <1>2, <2>1, RatedNext
    <2>2. CASE ~InMonth(e, n)
      <3>1. line = build.line
        BY <1>1, <2>2
      <3>2. n - 1 \in Nat /\ (n - 1) + 1 = n /\ \A i \in 1..n : i = n \/ i \in 1..(n - 1)
        BY <1>3
      <3>3. InMonthUpTo(e, n) = InMonthUpTo(e, n - 1)
        BY <3>2, <2>2, Numbered
      <3>4. RatedUpTo(line, n, build.seen)
        BY <3>1, <3>2, <3>3, <2>2, <1>2, <1>3 DEF LineFits, RatedUpTo
      <3> QED
        BY <3>1, <3>4, <1>2, <1>3 DEF Shape, Done
    <2> QED
      BY <2>1, <2>2
  <1>5. /\ build' = [pc |-> "segment", lines |-> build.lines, seen |-> build.seen,
                     staff |-> build.staff, next |-> n + 1, line |-> line]
        /\ IsSeq(build.lines)
    BY <1>1, RateSegmentStep
  <1>6. /\ build'.pc = "segment" /\ build'.lines = build.lines /\ build'.seen = build.seen
        /\ build'.staff = build.staff /\ build'.next = n + 1 /\ build'.line = line
        /\ line.employee = e
    BY <1>5, <1>4
  <1>7. Shape'
    BY <1>4, <1>5, <1>6 DEF Shape
  <1>8. PreviewFits'
    BY <1>2, <1>3, <1>6, StoreStays DEF PreviewFits
  <1>9. LineFits'
    <2>1. n + 1 \in 1..(Len(Employee(e).work) + 1) /\ (n + 1) - 1 = n
      BY <1>3, WorkOf
    <2>2. build'.next - 1 = n /\ build'.next \in 1..(Len(Employee(e).work) + 1)
      BY <1>6, <2>1
    <2>3. RatedUpTo(build'.line, build'.next - 1, build'.seen)
      BY <1>4, <1>6, <2>2
    <2>4. build'.line.employee = e
      BY <1>6
    <2> QED
      BY <1>2, <1>3, <2>2, <2>3, <2>4, StoreStays DEF LineFits
  <1>10. PayloadFits'
    BY <1>6 DEF PayloadFits
  <1> QED
    BY <1>2, <1>7, <1>8, <1>9, <1>10, SnapshotsKept DEF PayInv, BuildFits

LEMMA FinishLineKeeps == ASSUME PayInv, FinishLine PROVE PayInv'
  <1> DEFINE e == build.line.employee
  <1>1. /\ build.pc = "segment" /\ build.next \notin DOMAIN Employee(e).work
        /\ build' = [pc |-> "employee", seen |-> build.seen, staff |-> build.staff,
                     lines |-> Append(build.lines, build.line)]
        /\ UNCHANGED <<store, today, wages, snapshots>>
    BY DEF FinishLine, BuildOnly
  <1>2. Shape /\ PreviewFits /\ LineFits /\ e \in Codes
    BY <1>1 DEF PayInv, BuildFits, LineFits
  <1>3. IsSeq(build.lines)
    BY <1>1, <1>2 DEF Shape, Done
  <1>4. /\ IsSeq(build'.lines) /\ ToSet(build'.lines) = ToSet(build.lines) \cup {build.line}
        /\ build'.pc = "employee" /\ build'.seen = build.seen /\ build'.staff = build.staff
    BY <1>1, <1>3, Appended
  <1>5. Shape'
    BY <1>1, <1>4 DEF Shape
  <1>6. build.line.blockers = {} => PaidInFull(build.line, e, build.seen)
    <2>1. build.next - 1 = Len(Employee(e).work)
      <3>1. PICK last \in Nat : last = Len(Employee(e).work)
        BY <1>2, WorkOf
      <3>2. build.next \in 1..(last + 1)
        BY <1>1, <1>2, <3>1 DEF LineFits
      <3>3. build.next \notin 1..last
        BY <1>1, <1>2, <3>1, WorkOf
      <3>4. build.next - 1 = last
        BY <3>2, <3>3
      <3> QED
        BY <3>1, <3>4
    <2>2. RatedUpTo(build.line, Len(Employee(e).work), build.seen)
      BY <1>1, <1>2, <2>1 DEF LineFits
    <2> QED
      BY <2>2, <1>2, WorkOf DEF RatedUpTo, PaidInFull
  <1>7. PreviewFits'
    BY <1>1, <1>2, <1>4, <1>6, StoreStays DEF PreviewFits, LinesKnown
  <1>8. LineFits' /\ PayloadFits'
    BY <1>4 DEF LineFits, PayloadFits
  <1> QED
    BY <1>1, <1>5, <1>7, <1>8, SnapshotsKept DEF PayInv, BuildFits

LEMMA GivenUp == ASSUME build' = Done PROVE BuildFits'
  BY DEF BuildFits, Shape, PreviewFits, LineFits, PayloadFits, Done

LEMMA BuildMonthPayloadKeeps == ASSUME PayInv, BuildMonthPayload PROVE PayInv'
  <1>1. /\ build.pc = "employee" /\ build.staff = {}
        /\ UNCHANGED <<store, today, wages, snapshots>>
    BY DEF BuildMonthPayload, BuildOnly
  <1> DEFINE payload == [i \in DOMAIN build.lines |-> PayLine(build.lines[i])]
  <1>2. CASE build' = Done
    BY <1>1, <1>2, GivenUp, SnapshotsKept DEF PayInv
  <1>3. CASE /\ \A line \in ToSet(build.lines) : line.blockers = {}
             /\ build' = Payload(payload, build.seen)
    <2>1. build' = [pc |-> "check", payload |-> payload, seen |-> build.seen]
      BY <1>3 DEF Payload
    <2>2. /\ LinesKnown(build.lines)
          /\ \A line \in ToSet(build.lines) : PaidInFull(line, line.employee, build.seen)
          /\ \A e \in Codes : Listed(e) => \E line \in ToSet(build.lines) : line.employee = e
      BY <1>1, <1>3 DEF PayInv, BuildFits, PreviewFits
    <2>3. \A line : PayLine(line).employee = line.employee /\ PayLine(line).rated = line.rated
      BY DEF PayLine
    <2>4. \A i \in DOMAIN payload : build.lines[i] \in ToSet(build.lines)
      BY DEF ToSet
    <2>5. LinesKnown(payload)
      <3>1. \A i \in DOMAIN payload : payload[i].employee = build.lines[i].employee
        BY <2>3
      <3> HIDE DEF payload
      <3>2. \A line \in ToSet(payload) : \E i \in DOMAIN payload : line = payload[i]
        BY DEF ToSet
      <3> QED
        BY <2>2, <2>4, <3>1, <3>2 DEF LinesKnown
    <2>6. AllPaid(payload, build.seen)
      <3> SUFFICES ASSUME NEW e \in Codes, Listed(e)
                   PROVE  \E line \in ToSet(payload) : PaidInFull(line, e, build.seen)
        BY DEF AllPaid
      <3>1. PICK i \in DOMAIN build.lines : build.lines[i].employee = e
        BY <2>2 DEF ToSet
      <3>2. PaidInFull(build.lines[i], e, build.seen)
        BY <2>2, <3>1 DEF ToSet
      <3>3. PaidInFull(payload[i], e, build.seen)
        BY <2>3, <3>1, <3>2 DEF PaidInFull
      <3> QED
        BY <3>1, <3>3 DEF ToSet
    <2> HIDE DEF payload
    <2>7. Shape' /\ PreviewFits' /\ LineFits'
      BY <2>1 DEF Shape, PreviewFits, LineFits
    <2>8. PayloadFits'
      BY <1>1, <2>1, <2>5, <2>6, StoreStays DEF PayloadFits
    <2> QED
      BY <1>1, <2>7, <2>8, SnapshotsKept DEF PayInv, BuildFits
  <1> QED
    BY <1>2, <1>3 DEF BuildMonthPayload

LEMMA BuildServicesPayloadKeeps == ASSUME PayInv, BuildServicesPayload PROVE PayInv'
  <1> DEFINE line == ServicesLine(store.pay)
  <1>1. /\ store.kind = "services"
        /\ build' = [pc |-> "check", payload |-> <<line>>, seen |-> {wages}]
        /\ UNCHANGED <<store, today, wages, snapshots>>
    BY DEF BuildServicesPayload, BuildOnly, Payload
  <1>2. line.employee \in Codes
    BY <1>1, StoreKnown DEF StoreFits, ServicesLine, Codes
  <1> HIDE DEF line
  <1>3. LinesKnown(<<line>>) /\ AllPaid(<<line>>, {wages})
    BY <1>1, <1>2 DEF LinesKnown, ToSet, AllPaid
  <1>4. Shape' /\ PreviewFits' /\ LineFits'
    BY <1>1 DEF Shape, PreviewFits, LineFits
  <1>5. PayloadFits'
    BY <1>1, <1>3, StoreStays DEF PayloadFits
  <1> QED
    BY <1>1, <1>4, <1>5, SnapshotsKept DEF PayInv, BuildFits

\* Without blockers the weeks are over: the rest day in force today is that of
\* the one row of terms for today.
LEMMA NoBlockers ==
  ASSUME PayInv, NEW payload, LinesKnown(payload), CollectBlockers(payload) = {}
  PROVE  WeeksOver(payload, today)
  <1>1. today \in Nat /\ StoreFits(store)
    BY StoreKnown
  <1>2. ~(today <= Length)
    <2>1. {b \in {"PERIOD_NOT_ENDED"} : today <= Length} = {}
      BY DEF CollectBlockers
    <2> QED
      BY <2>1
  <1>3. \A line \in ToSet(payload) : ~WeekIncomplete(line)
    <2> SUFFICES ASSUME \E line \in ToSet(payload) : WeekIncomplete(line)
                 PROVE  "MONTH_BOUNDARY_WEEK_INCOMPLETE" \in CollectBlockers(payload)
      OBVIOUS
    <2> QED
      BY DEF CollectBlockers
  <1>4. ASSUME NEW line \in ToSet(payload), NEW r \in RowOn(Employee(line.employee).terms, today)
        PROVE  BoundaryWeekComplete(Length, store.first, r.weekday, today)
    <2> DEFINE terms == Employee(line.employee).terms
    <2>1. EmployeeFits(Employee(line.employee))
      BY <1>1 DEF LinesKnown, StoreFits, Employee, Codes
    <2>2. \A q \in RowOn(terms, today) : q = r
      <3>1. ASSUME NEW q \in RowOn(terms, today) PROVE q = r
        <4>1. /\ q \in terms /\ q.from <= today /\ today < q.to
              /\ r \in terms /\ r.from <= today /\ today < r.to
          BY <3>1, <1>4 DEF RowOn
        <4>2. q.from \in Int /\ q.to \in Int /\ r.from \in Int /\ r.to \in Int
          BY <2>1, <4>1 DEF EmployeeFits
        <4>3. r = q \/ r.to <= q.from \/ q.to <= r.from
          BY <2>1, <4>1 DEF EmployeeFits
        <4> QED
          BY <1>1, <4>1, <4>2, <4>3
      <3> QED
        BY <3>1
    <2>3. RestWeekday(line) = r.weekday
      <3>1. (CHOOSE q \in RowOn(terms, today) : TRUE) = r /\ RowOn(terms, today) # {}
        BY <2>2
      <3> QED
        BY <3>1 DEF RestWeekday
    <2>4. r.weekday \in Int
      BY <2>1 DEF EmployeeFits, RowOn
    <2>5. r.weekday # None
      BY <2>4, PayslipsAssumption
    <2> QED
      BY <1>3, <2>3, <2>5 DEF WeekIncomplete
  <1> QED
    BY <1>1, <1>2, <1>4, PayslipsAssumption DEF WeeksOver

LEMMA CheckKeeps == ASSUME PayInv, Check PROVE PayInv'
  <1>1. build.pc = "check" /\ UNCHANGED <<store, today, wages, snapshots>>
    BY DEF Check, BuildOnly
  <1>2. CASE build' = Done
    BY <1>1, <1>2, GivenUp, SnapshotsKept DEF PayInv
  <1>3. CASE /\ CollectBlockers(build.payload) = {}
             /\ build' = [pc |-> "close", payload |-> build.payload, seen |-> build.seen,
                          on |-> today]
    <2>1. LinesKnown(build.payload) /\ AllPaid(build.payload, build.seen)
      BY <1>1 DEF PayInv, BuildFits, PayloadFits
    <2>2. WeeksOver(build.payload, today)
      BY <1>3, <2>1, NoBlockers
    <2>3. /\ build'.pc = "close" /\ build'.payload = build.payload /\ build'.seen = build.seen
          /\ build'.on = today
      BY <1>3
    <2>4. Shape' /\ PreviewFits' /\ LineFits'
      BY <1>3 DEF Shape, PreviewFits, LineFits
    <2>5. PayloadFits'
      BY <1>1, <2>1, <2>2, <2>3, StoreStays DEF PayloadFits
    <2> QED
      BY <1>1, <2>4, <2>5, SnapshotsKept DEF PayInv, BuildFits
  <1> QED
    BY <1>2, <1>3 DEF Check

LEMMA CloseKeeps == ASSUME PayInv, Close PROVE PayInv'
  <1>1. build.pc = "close" /\ build' = Done /\ UNCHANGED <<store, today, wages>>
    BY DEF Close
  <1>2. CASE snapshots' = snapshots
    BY <1>1, <1>2, GivenUp, SnapshotsKept DEF PayInv
  <1>3. CASE snapshots' # snapshots
    <2> DEFINE new == [version |-> Len(snapshots) + 1, payload |-> build.payload,
                       seen |-> build.seen, on |-> build.on]
    <2>1. snapshots' = Append(snapshots, new)
      BY <1>3 DEF Close
    <2>2. new.payload = build.payload /\ new.seen = build.seen /\ new.on = build.on
      OBVIOUS
    <2> HIDE DEF new
    <2>3. IsSeq(snapshots') /\ ToSet(snapshots') = ToSet(snapshots) \cup {new}
      BY <2>1, Appended DEF PayInv, SnapshotsFit
    <2>4. LinesKnown(new.payload) /\ AllPaid(new.payload, new.seen) /\ WeeksOver(new.payload, new.on)
      BY <1>1, <2>2 DEF PayInv, BuildFits, PayloadFits
    <2>5. SnapshotsFit'
      BY <1>1, <2>3, <2>4, StoreStays DEF PayInv, SnapshotsFit
    <2> QED
      BY <1>1, <2>5, GivenUp DEF PayInv
  <1> QED
    BY <1>2, <1>3

LEMMA PayslipsNextInv == PayInv /\ [PayslipsNext]_payslipsVars => PayInv'
  BY OutsideKeeps, SetHourlyWageKeeps, ListEmployeesKeeps, ReadWageAtStartKeeps,
     RateSegmentKeeps, FinishLineKeeps, BuildMonthPayloadKeeps, BuildServicesPayloadKeeps,
     CheckKeeps, CloseKeeps DEF PayslipsNext

\* However wages change meanwhile, the preview, the payload and the snapshots
\* keep the work of everybody listed, and the weeks of a closed month are over.
THEOREM PayslipsInvariance == PayslipsSpec => []PayInv
  BY PayslipsInitInv, PayslipsNextInv, PTL DEF PayslipsSpec

-----------------------------------------------------------------------------
(* Payslips: results *)

\* Whoever worked in the month while employed has, in every snapshot that the
\* console's close stores, a line with each of those segments at a wage that
\* was its day's while the preview ran.
THEOREM WorkIsPaidHolds == PayslipsSpec => []WorkIsPaid
  <1>1. ASSUME PayInv PROVE WorkIsPaid
    <2> SUFFICES ASSUME store.kind = "console", NEW s \in Snapshots, NEW e \in Codes,
                        NEW i \in DOMAIN Employee(e).work,
                        InMonth(e, i), Employed(e, Employee(e).work[i].day)
                 PROVE  \E line \in ToSet(s.payload) : PaidInFull(line, e, s.seen)
      BY DEF WorkIsPaid
    <2>1. AllPaid(s.payload, s.seen)
      BY <1>1 DEF PayInv, SnapshotsFit, Snapshots
    <2>2. EmployeeFits(Employee(e))
      BY <1>1, StoreKnown DEF StoreFits, Employee, Codes
    <2>3. Listed(e)
      <3>1. Employee(e).work[i].day \in 1..Length
        BY DEF InMonth, Days
      <3>2. Length \in Nat
        BY PayslipsAssumption
      <3> QED
        BY <2>2, <3>1, <3>2 DEF EmployeeFits, Employed, Listed
    <2> QED
      BY <2>1, <2>3 DEF AllPaid
  <1> QED
    BY <1>1, PayslipsInvariance, PTL

\* The Sunday of a day's week is at most six days later.
LEMMA SundayFollows ==
  ASSUME NEW day \in Nat \ {0}, NEW first \in 0..6
  PROVE  /\ SundayAfter(day, first) \in day..(day + 6)
         /\ Weekday(SundayAfter(day, first), first) = 6
  <1>1. PICK n \in Nat : n = day - 1 + first
    OBVIOUS
  <1>2. n % 7 \in 0..6 /\ n \div 7 \in Nat /\ n = 7 * (n \div 7) + (n % 7)
    OBVIOUS
  <1>3. SundayAfter(day, first) = day + 6 - (n % 7)
    BY <1>1 DEF SundayAfter, Weekday
  <1>4. Weekday(SundayAfter(day, first), first) = (7 * (n \div 7) + 6) % 7
    BY <1>1, <1>2, <1>3 DEF Weekday
  <1> QED
    BY <1>2, <1>3, <1>4

\* Every labour week with its rest day in the month is over when it is closed.
THEOREM AllowanceWeeksElapsedHolds == PayslipsSpec => []AllowanceWeeksElapsed
  <1>1. ASSUME PayInv PROVE AllowanceWeeksElapsed
    <2> SUFFICES ASSUME NEW s \in Snapshots, NEW line \in ToSet(s.payload),
                        NEW r \in Employee(line.employee).terms, r.from <= 1, s.on < r.to,
                        NEW day \in Days, Weekday(day, store.first) = r.weekday
                 PROVE  \E sunday \in day..(day + 6) :
                          Weekday(sunday, store.first) = 6 /\ sunday <= s.on
      BY DEF AllowanceWeeksElapsed
    <2>1. LinesKnown(s.payload) /\ WeeksOver(s.payload, s.on)
      BY <1>1 DEF PayInv, SnapshotsFit, Snapshots
    <2>2. /\ Length \in Nat \ {0} /\ s.on \in Nat /\ s.on > Length
          /\ store.first \in 0..6 /\ day \in Nat \ {0} /\ day <= Length
      BY <1>1, <2>1, StoreKnown, PayslipsAssumption DEF WeeksOver, StoreFits, Days
    <2>3. r.from \in Int /\ r.to \in Int
      BY <1>1, <2>1, StoreKnown DEF LinesKnown, StoreFits, EmployeeFits, Employee, Codes
    <2>4. r \in RowOn(Employee(line.employee).terms, s.on)
      BY <2>2, <2>3 DEF RowOn
    <2>5. BoundaryWeekComplete(Length, store.first, r.weekday, s.on)
      BY <2>1, <2>4 DEF WeeksOver
    <2>6. SundayAfter(day, store.first) <= Length \/ SundayAfter(day, store.first) <= s.on
      BY <2>5 DEF BoundaryWeekComplete, Days
    <2>7. /\ SundayAfter(day, store.first) \in day..(day + 6)
          /\ Weekday(SundayAfter(day, store.first), store.first) = 6
      BY <2>2, SundayFollows
    <2>8. SundayAfter(day, store.first) <= s.on
      BY <2>2, <2>6, <2>7
    <2> QED
      BY <2>7, <2>8
  <1> QED
    BY <1>1, PayslipsInvariance, PTL

-----------------------------------------------------------------------------
(* Powers of ten *)

LEMMA PowersOfTen ==
  /\ Pow10[0] = 1
  /\ \A n \in Nat : Pow10[n] \in Nat \ {0} /\ Pow10[n + 1] = 10 * Pow10[n]
  <1> DEFINE P == Nat \ {0}
  <1>1. PICK step \in [Nat -> [P -> P]] : \A n \in Nat, x \in P : step[n][x] = 10 * x
    <2> DEFINE s == [n \in Nat |-> [x \in P |-> 10 * x]]
    <2>1. \A x \in P : 10 * x \in P
      OBVIOUS
    <2>2. s \in [Nat -> [P -> P]] /\ \A n \in Nat, x \in P : s[n][x] = 10 * x
      BY <2>1
    <2> HIDE DEF s, P
    <2> QED
      BY <2>2
  <1>2. PICK g \in [Nat -> P] : g[0] = 1 /\ \A n \in Nat \ {0} : g[n] = step[n][g[n - 1]]
    <2>1. 1 \in P
      OBVIOUS
    <2> HIDE DEF P
    <2>2. StepsIn(P, 1, step)
      BY <2>1, Zenon DEF StepsIn
    <2>3. PICK g \in [Nat -> P] : Steps(g, 1, step)
      BY <2>2, Recursion
    <2> QED
      BY <2>3 DEF Steps
  <1>3. ASSUME NEW n \in Nat \ {0} PROVE g[n] = 10 * g[n - 1]
    <2>1. n - 1 \in Nat
      OBVIOUS
    <2>2. g[n - 1] \in P /\ g[n] = step[n][g[n - 1]]
      BY <1>2, <2>1
    <2> QED
      BY <1>1, <2>2
  <1>4. g = [n \in Nat |-> IF n = 0 THEN 1 ELSE 10 * g[n - 1]]
    BY <1>2, <1>3
  <1>5. Pow10 = [n \in Nat |-> IF n = 0 THEN 1 ELSE 10 * Pow10[n - 1]]
    BY <1>4 DEF Pow10
  <1> DEFINE T == {n \in Nat : Pow10[n] \in P}
  <1>6. Pow10[0] = 1 /\ \A n \in Nat : Pow10[n + 1] = 10 * Pow10[n]
    <2>1. \A n \in Nat : n + 1 \in Nat /\ n + 1 # 0 /\ (n + 1) - 1 = n
      OBVIOUS
    <2> QED
      BY <1>5, <2>1
  <1>7. 0 \in T /\ \A n \in Nat : n \in T => n + 1 \in T
    <2>1. \A x \in P : 10 * x \in P
      OBVIOUS
    <2>2. ASSUME NEW n \in Nat, Pow10[n] \in P PROVE Pow10[n + 1] \in P
      BY <1>6, <2>1, <2>2
    <2>3. Pow10[0] \in P /\ 0 \in Nat /\ \A n \in Nat : n + 1 \in Nat
      BY <1>6
    <2> HIDE DEF P
    <2> QED
      BY <2>2, <2>3
  <1> HIDE DEF T
  <1>8. \A n \in Nat : n \in T
    BY <1>7, CountedUp
  <1> QED
    BY <1>6, <1>8 DEF T

-----------------------------------------------------------------------------
(* Premiums *)

\* A share of nothing is nothing, however it is rounded.
LEMMA ShareOfNothing ==
  ASSUME NEW entry, entry.rate \in [coef : Nat, digits : Nat]
  PROVE  ShareOf(0, entry) = 0
  <1> DEFINE digits == entry.rate.digits
             d == Decimal(0, digits)
  <1>1. digits \in Nat /\ entry.rate.coef * 0 = 0
    OBVIOUS
  <1>2. d.coef = 0 /\ d.digits = digits
    BY DEF Decimal
  <1>3. Surplus(d) = 0
    <2>1. \A n \in 0..digits : Pow10[Precision + n] > 0
      BY <1>1, PowersOfTen, PrecisionAssumption
    <2>2. \A n \in 0..digits : n # 0 => Pow10[Precision + n - 1] > 0
      <3>1. \A n \in 0..digits : n # 0 => Precision + n - 1 \in Nat
        BY PrecisionAssumption
      <3> QED
        BY <3>1, PowersOfTen
    <2> HIDE DEF d
    <2>3. \A n \in 0..digits : (/\ n = d.digits \/ d.coef < Pow10[Precision + n]
                                /\ n = 0 \/ d.coef >= Pow10[Precision + n - 1]) <=> n = 0
      BY <1>1, <1>2, <2>1, <2>2, PowersOfTen, PrecisionAssumption
    <2>4. 0 \in 0..digits
      BY <1>1
    <2> QED
      BY <1>2, <2>3, <2>4 DEF Surplus
  <1>4. Rounded(d) = d
    <2>1. HalfEven(0, 1) = 0
      BY DEF HalfEven
    <2> QED
      BY <1>1, <1>2, <1>3, <2>1, PowersOfTen DEF Rounded, Decimal
  <1>5. TimesWhole(entry.rate, 0) = d
    BY <1>1, <1>4 DEF TimesWhole
  <1>6. PICK p \in Nat \ {0} : p = Pow10[digits]
    BY <1>1, PowersOfTen
  <1>7. 0 \div p = 0 /\ (2 * 0 + p) \div (2 * p) = 0
    OBVIOUS
  <1>8. RoundDown(d) = 0 /\ RoundHalfUp(d) = 0
    BY <1>2, <1>6, <1>7 DEF RoundDown, RoundHalfUp
  <1> QED
    BY <1>5, <1>8 DEF ShareOf, RoundBy

LEMMA EstimateOfNothing == \A i \in EmployeeInsurances : EstimatePremium(i, 0, Rates) = 0
  BY ShareOfNothing, ReconciliationAssumption DEF EstimatePremium, EmployeeInsurances

\* What a request has read was the estimate of the base it has read.
PremiumsFit ==
  /\ premiums = [i \in EmployeeInsurances |-> premiums[i]]
  /\ requests = [m \in Managers |-> requests[m]]
  /\ \A i \in EmployeeInsurances \ Pending : premiums[i] = NewRow
  /\ RowConsistent
  /\ \A m \in Managers :
       LET r == requests[m] IN
       r # Idle =>
         /\ r.insurance \in Pending /\ r.final \in Finals
         /\ r.row.estimated = EstimatePremium(r.insurance, r.row.base, Rates)

LEMMA PremiumsFitAtFirst == ReconciliationInit => PremiumsFit
  BY ReconciliationAssumption DEF ReconciliationInit, PremiumsFit, RowConsistent

LEMMA ReconciliationKeeps == ASSUME PremiumsFit, ReconciliationNext PROVE PremiumsFit'
  <1> DEFINE RowFits(i, p) ==
        /\ p.estimated = EstimatePremium(i, p.base, Rates)
        /\ p.status = "RECONCILED" => p.final \in Finals /\ p.variance = p.final - p.estimated
        /\ p.status = "NOT_APPLICABLE" => p.final = 0 /\ p.variance = None
        /\ p.status = "ESTIMATED" => p.final = None /\ p.variance = None
  <1>0. \A i \in Pending : premiums[i] # Missing => RowFits(i, premiums[i])
    BY DEF PremiumsFit, RowConsistent
  <1>1. ASSUME NEW i \in Pending, NEW p, RowFits(i, p), premiums' = [premiums EXCEPT ![i] = p]
        PROVE  /\ premiums' = [k \in EmployeeInsurances |-> premiums'[k]]
               /\ \A k \in EmployeeInsurances \ Pending : premiums'[k] = NewRow
               /\ RowConsistent'
    <2>1. i \in EmployeeInsurances
      BY ReconciliationAssumption
    <2>2. premiums = [k \in EmployeeInsurances |-> premiums[k]]
      BY DEF PremiumsFit
    <2>3. premiums'[i] = p /\ \A k \in EmployeeInsurances \ {i} : premiums'[k] = premiums[k]
      BY <1>1, <2>1, <2>2
    <2>4. ASSUME NEW k \in Pending PROVE premiums'[k] # Missing => RowFits(k, premiums'[k])
      BY <1>0, <1>1, <2>3, ReconciliationAssumption
    <2>5. RowConsistent'
      BY <2>4 DEF RowConsistent
    <2>6. \A k \in EmployeeInsurances \ Pending : premiums'[k] = NewRow
      BY <2>3 DEF PremiumsFit
    <2> QED
      BY <1>1, <2>2, <2>5, <2>6
  <1>2. ASSUME NEW i \in Pending, NEW base \in Bases, SetEstimate(i, base) PROVE PremiumsFit'
    <2> DEFINE p == Row("ESTIMATED", base, EstimatePremium(i, base, Rates), None, None)
    <2>1. RowFits(i, p)
      BY DEF Row
    <2>2. premiums' = [premiums EXCEPT ![i] = p] /\ requests' = requests
      BY <1>2 DEF SetEstimate
    <2> HIDE DEF p, RowFits
    <2> QED
      BY <1>1, <2>1, <2>2 DEF PremiumsFit
  <1>3. ASSUME NEW i \in Pending, SetNotApplicable(i) PROVE PremiumsFit'
    <2> DEFINE p == IF premiums[i] = Missing THEN NewRow
                    ELSE Row("NOT_APPLICABLE", premiums[i].base, premiums[i].estimated, 0, None)
    <2>1. RowFits(i, p)
      BY <1>0, EstimateOfNothing, ReconciliationAssumption DEF Row, NewRow
    <2>2. premiums' = [premiums EXCEPT ![i] = p] /\ requests' = requests
      BY <1>3 DEF SetNotApplicable
    <2> HIDE DEF p, RowFits
    <2> QED
      BY <1>1, <2>1, <2>2 DEF PremiumsFit
  <1>4. ASSUME NEW m \in Managers, NEW i \in Pending, NEW final \in Finals, Read(m, i, final)
        PROVE  PremiumsFit'
    <2> DEFINE r == [insurance |-> i, row |-> premiums[i], final |-> final]
    <2>1. premiums' = premiums /\ requests' = [requests EXCEPT ![m] = r] /\ premiums[i] # Missing
      BY <1>4 DEF Read
    <2>2. r.insurance = i /\ r.row = premiums[i] /\ r.final = final
      OBVIOUS
    <2> HIDE DEF r
    <2>3. premiums[i].estimated = EstimatePremium(i, premiums[i].base, Rates)
      BY <1>0, <2>1
    <2>4. RowConsistent'
      BY <2>1 DEF PremiumsFit, RowConsistent
    <2> QED
      BY <2>1, <2>2, <2>3, <2>4 DEF PremiumsFit
  <1>5. ASSUME NEW m \in Managers, Save(m) PROVE PremiumsFit'
    <2> DEFINE r == requests[m]
               p == Row("RECONCILED", r.row.base, r.row.estimated, r.final,
                        r.final - r.row.estimated)
    <2>1. r # Idle /\ premiums' = [premiums EXCEPT ![r.insurance] = p]
          /\ requests' = [requests EXCEPT ![m] = Idle]
      BY <1>5 DEF Save
    <2>2. r.insurance \in Pending /\ RowFits(r.insurance, p)
      BY <2>1 DEF PremiumsFit, Row
    <2>3. requests' = [n \in Managers |-> requests'[n]]
          /\ \A n \in Managers : requests'[n] # Idle => requests'[n] = requests[n]
      BY <2>1 DEF PremiumsFit
    <2> HIDE DEF p, RowFits
    <2>4. /\ premiums' = [k \in EmployeeInsurances |-> premiums'[k]]
          /\ \A k \in EmployeeInsurances \ Pending : premiums'[k] = NewRow
          /\ RowConsistent'
      BY <1>1, <2>1, <2>2
    <2> QED
      BY <2>3, <2>4 DEF PremiumsFit
  <1> QED
    BY <1>2, <1>3, <1>4, <1>5 DEF ReconciliationNext

LEMMA PremiumsAlwaysFit == PayslipsSpec => []PremiumsFit
  <1>1. PayslipsInit => PremiumsFit
    BY PremiumsFitAtFirst DEF PayslipsInit
  <1>2. ASSUME PremiumsFit, [PayslipsNext]_payslipsVars PROVE PremiumsFit'
    <2>1. CASE PremiumStep
      BY <1>2, <2>1, ReconciliationKeeps DEF PremiumStep
    <2>2. CASE UNCHANGED reconciliationVars
      BY <1>2, <2>2 DEF reconciliationVars, PremiumsFit, RowConsistent
    <2> QED
      BY <1>2, <2>1, <2>2
      DEF PayslipsNext, payslipsVars, BuildOnly, Tick, SetHourlyWage, ListEmployees,
          ReadWageAtStart, RateSegment, FinishLine, BuildMonthPayload, BuildServicesPayload,
          Check, Close, Reopen, Download
  <1> QED
    BY <1>1, <1>2, PTL DEF PayslipsSpec

\* However estimates, reconciliations and marks of one premium cross, the row
\* that is stored fits together.
THEOREM RowConsistentHolds == PayslipsSpec => []RowConsistent
  <1>1. PremiumsFit => RowConsistent
    BY DEF PremiumsFit
  <1> QED
    BY <1>1, PremiumsAlwaysFit, PTL

-----------------------------------------------------------------------------
(* Sums *)

LEMMA Least ==
  ASSUME NEW T, T \subseteq Nat, T # {}
  PROVE  \E x \in T : \A y \in T : x <= y
  <1>1. PICK x \in T : \A y \in T : ~(<<y, x>> \in OpToRel(<, Nat))
    BY NatLessThanWellFounded, WFMin
  <1>2. ASSUME NEW y \in T PROVE x <= y
    <2>1. ~(y < x)
      BY <1>1, <1>2 DEF OpToRel
    <2> QED
      BY <2>1
  <1> QED
    BY <1>2

LEMMA Indexes == \A n \in Nat : \A i \in 1..n : i - 1 \in 0..n /\ i \in 0..n /\ i \in Nat \ {0}
  OBVIOUS

StepsUpTo(f, n, first, step) == f[0] = first /\ \A i \in 1..n : f[i] = step[i][f[i - 1]]

\* A function defined by recursion up to some number exists.
LEMMA RecursionUpTo ==
  ASSUME NEW S, NEW first, NEW step, StepsIn(S, first, step), NEW n \in Nat
  PROVE  \E f \in [0..n -> S] : StepsUpTo(f, n, first, step)
  <1>1. PICK g \in [Nat -> S] : Steps(g, first, step)
    BY Recursion
  <1>2. PICK f \in [0..n -> S] : \A i \in 0..n : f[i] = g[i]
    <2> DEFINE h == [i \in 0..n |-> g[i]]
    <2>1. h \in [0..n -> S]
      OBVIOUS
    <2> QED
      BY <2>1
  <1>3. ASSUME NEW i \in 1..n PROVE f[i] = step[i][f[i - 1]]
    <2>1. i \in Nat \ {0} /\ i \in 0..n /\ i - 1 \in 0..n
      OBVIOUS
    <2> QED
      BY <2>1, <1>1, <1>2 DEF Steps
  <1>4. f[0] = first
    BY <1>1, <1>2 DEF Steps
  <1> QED
    BY <1>3, <1>4 DEF StepsUpTo

LEMMA ElementOf == ASSUME NEW S, NEW t \in Seq(S), NEW i \in DOMAIN t PROVE t[i] \in S
  OBVIOUS

\* The running sums of amounts.
LEMMA RunningTotal ==
  ASSUME NEW t \in Seq(Int), NEW l \in Nat, l = Len(t)
  PROVE  \E f \in [0..l -> Int] :
           f[0] = 0 /\ (\A i \in 1..l : f[i] = f[i - 1] + t[i]) /\ Total(t) = f[l]
  <1>0. \A i \in 1..l : t[i] \in Int
    OBVIOUS
  <1>1. PICK step \in [Nat -> [Int -> Int]] : \A n \in 1..l, x \in Int : step[n][x] = x + t[n]
    <2> DEFINE s == [n \in Nat |-> [x \in Int |-> IF n \in 1..l THEN x + t[n] ELSE x]]
    <2>1. s \in [Nat -> [Int -> Int]] /\ \A n \in 1..l, x \in Int : s[n][x] = x + t[n]
      BY <1>0
    <2> HIDE DEF s
    <2> QED
      BY <2>1
  <1>2. StepsIn(Int, 0, step)
    <2>1. 0 \in Int
      OBVIOUS
    <2> QED
      BY <2>1, Zenon DEF StepsIn
  <1>3. PICK g \in [0..l -> Int] : g[0] = 0 /\ \A i \in 1..l : g[i] = step[i][g[i - 1]]
    <2>1. PICK h \in [0..l -> Int] : StepsUpTo(h, l, 0, step)
      BY <1>2, RecursionUpTo, Zenon
    <2> QED
      BY <2>1 DEF StepsUpTo
  <1>4. \A i \in 1..l : i - 1 \in 0..l /\ i \in 0..l /\ i # 0
    BY Indexes, Zenon
  <1>5. ASSUME NEW i \in 1..l PROVE g[i] = g[i - 1] + t[i]
    BY <1>1, <1>3, <1>4
  <1>6. g = [i \in 0..l |-> IF i = 0 THEN 0 ELSE g[i - 1] + t[i]]
    <2>1. \A i \in 0..l : i # 0 => i \in 1..l
      OBVIOUS
    <2> QED
      BY <1>3, <1>5, <2>1
  <1> DEFINE f == CHOOSE f : f = [i \in 0..Len(t) |-> IF i = 0 THEN 0 ELSE f[i - 1] + t[i]]
  <1>7. f = [i \in 0..l |-> IF i = 0 THEN 0 ELSE f[i - 1] + t[i]]
    BY <1>6
  <1>8. Total(t) = f[l]
    BY DEF Total
  <1> HIDE DEF f
  <1>9. f[0] = 0 /\ \A i \in 1..l : f[i] = f[i - 1] + t[i]
    <2>1. 0 \in 0..l
      OBVIOUS
    <2> QED
      BY <1>4, <1>7, <2>1
  <1> DEFINE Same == {n \in Nat : n <= l => f[n] = g[n]}
  <1>10. 0 \in Same
    BY <1>3, <1>9
  <1>11. ASSUME NEW n \in Nat, n \in Same PROVE n + 1 \in Same
    <2> SUFFICES ASSUME n + 1 <= l PROVE f[n + 1] = g[n + 1]
      OBVIOUS
    <2>1. n + 1 \in 1..l /\ (n + 1) - 1 = n /\ f[n] = g[n]
      BY <1>11
    <2> QED
      BY <2>1, <1>5, <1>9
  <1> HIDE DEF Same
  <1>12. l \in Same
    BY <1>10, <1>11, CountedUp
  <1>13. Total(t) = g[l]
    BY <1>8, <1>12 DEF Same
  <1> QED
    BY <1>3, <1>5, <1>13

LEMMA TotalIsAmount == ASSUME NEW t \in Seq(Int) PROVE Total(t) \in Int
  <1>1. PICK l \in Nat : l = Len(t)
    OBVIOUS
  <1>2. PICK f \in [0..l -> Int] : Total(t) = f[l]
    BY <1>1, RunningTotal
  <1> QED
    BY <1>2

LEMMA TotalOfNone == Total(<<>>) = 0
  <1>1. <<>> \in Seq(Int) /\ 0 \in Nat
    OBVIOUS
  <1>2. 0 = Len(<<>>)
    OBVIOUS
  <1>3. PICK f \in [0..0 -> Int] :
          f[0] = 0 /\ (\A i \in 1..0 : f[i] = f[i - 1] + <<>>[i]) /\ Total(<<>>) = f[0]
    BY <1>1, <1>2, RunningTotal, Zenon
  <1> QED
    BY <1>3

LEMMA TotalOfOne == ASSUME NEW a \in Int PROVE Total(<<a>>) = a
  <1>1. PICK t \in Seq(Int) : t = <<a>> /\ 1 = Len(t) /\ t[1] = a
    <2>1. <<a>> \in Seq(Int)
      OBVIOUS
    <2>2. Len(<<a>>) = 1 /\ <<a>>[1] = a
      OBVIOUS
    <2> QED
      BY <2>1, <2>2, Zenon
  <1>2. PICK f \in [0..1 -> Int] :
           f[0] = 0 /\ (\A i \in 1..1 : f[i] = f[i - 1] + t[i]) /\ Total(t) = f[1]
    <2>1. 1 \in Nat
      OBVIOUS
    <2> QED
      BY <1>1, <2>1, RunningTotal, Zenon
  <1>3. f[1] = f[0] + a
    <2>1. 1 \in 1..1 /\ 1 - 1 = 0
      OBVIOUS
    <2> QED
      BY <1>1, <1>2, <2>1
  <1> QED
    BY <1>1, <1>2, <1>3

\* Rows left blank add nothing.
LEMMA TotalPadded ==
  ASSUME NEW t \in Seq(Int), NEW p \in Seq(Int), Len(t) <= Len(p),
         \A i \in 1..Len(p) : p[i] = IF i <= Len(t) THEN t[i] ELSE 0
  PROVE  Total(p) = Total(t)
  <1>1. PICK m \in Nat : m = Len(t)
    OBVIOUS
  <1>2. PICK l \in Nat : l = Len(p)
    OBVIOUS
  <1>3. PICK f \in [0..m -> Int] :
          f[0] = 0 /\ (\A i \in 1..m : f[i] = f[i - 1] + t[i]) /\ Total(t) = f[m]
    BY <1>1, RunningTotal
  <1>4. PICK g \in [0..l -> Int] :
          g[0] = 0 /\ (\A i \in 1..l : g[i] = g[i - 1] + p[i]) /\ Total(p) = g[l]
    BY <1>2, RunningTotal
  <1> DEFINE Same == {n \in Nat : n <= l => g[n] = IF n <= m THEN f[n] ELSE f[m]}
  <1>5. 0 \in Same
    BY <1>3, <1>4
  <1>6. ASSUME NEW n \in Nat, n \in Same PROVE n + 1 \in Same
    <2> SUFFICES ASSUME n + 1 <= l PROVE g[n + 1] = IF n + 1 <= m THEN f[n + 1] ELSE f[m]
      OBVIOUS
    <2>1. n + 1 \in 1..l /\ (n + 1) - 1 = n /\ n \in 0..l
      OBVIOUS
    <2>2. g[n + 1] = g[n] + p[n + 1] /\ g[n] = IF n <= m THEN f[n] ELSE f[m]
      BY <1>4, <1>6, <2>1
    <2>3. CASE n + 1 <= m
      <3>1. n + 1 \in 1..m /\ n <= m /\ p[n + 1] = t[n + 1]
        BY <2>1, <2>3, <1>1, <1>2
      <3>2. f[n + 1] = f[n] + t[n + 1]
        BY <3>1, <2>1, <1>3
      <3> QED
        BY <2>2, <3>1, <3>2
    <2>4. CASE ~(n + 1 <= m)
      <3>1. p[n + 1] = 0
        BY <2>1, <2>4, <1>1, <1>2
      <3>2. g[n] = f[m] /\ f[m] \in Int
        <4>1. n <= m => n = m
          BY <2>4
        <4> QED
          BY <2>2, <4>1
      <3> QED
        BY <2>2, <2>4, <3>1, <3>2
    <2> QED
      BY <2>3, <2>4
  <1> HIDE DEF Same
  <1>7. l \in Same
    BY <1>5, <1>6, CountedUp
  <1>8. m <= l
    BY <1>1, <1>2
  <1>9. g[l] = f[m]
    BY <1>7, <1>8 DEF Same
  <1> QED
    BY <1>3, <1>4, <1>9

\* The total of differences is the difference of the totals.
LEMMA TotalOfDifferences ==
  ASSUME NEW a \in Seq(Int), NEW b \in Seq(Int), NEW c \in Seq(Int),
         Len(a) = Len(c), Len(b) = Len(c), \A i \in 1..Len(c) : c[i] = a[i] - b[i]
  PROVE  Total(c) = Total(a) - Total(b)
  <1>1. PICK l \in Nat : l = Len(c)
    OBVIOUS
  <1>2. PICK f \in [0..l -> Int] :
          f[0] = 0 /\ (\A i \in 1..l : f[i] = f[i - 1] + a[i]) /\ Total(a) = f[l]
    BY <1>1, RunningTotal
  <1>3. PICK g \in [0..l -> Int] :
          g[0] = 0 /\ (\A i \in 1..l : g[i] = g[i - 1] + b[i]) /\ Total(b) = g[l]
    BY <1>1, RunningTotal
  <1>4. PICK h \in [0..l -> Int] :
          h[0] = 0 /\ (\A i \in 1..l : h[i] = h[i - 1] + c[i]) /\ Total(c) = h[l]
    BY <1>1, RunningTotal
  <1> DEFINE Same == {n \in Nat : n <= l => h[n] = f[n] - g[n]}
  <1>5. 0 \in Same
    BY <1>2, <1>3, <1>4
  <1>6. ASSUME NEW n \in Nat, n \in Same PROVE n + 1 \in Same
    <2> SUFFICES ASSUME n + 1 <= l PROVE h[n + 1] = f[n + 1] - g[n + 1]
      OBVIOUS
    <2>1. n + 1 \in 1..l /\ (n + 1) - 1 = n /\ n \in 0..l
      OBVIOUS
    <2>2. h[n + 1] = h[n] + c[n + 1]
      BY <1>4, <2>1
    <2>5. f[n + 1] = f[n] + a[n + 1]
      BY <1>2, <2>1
    <2>6. g[n + 1] = g[n] + b[n + 1]
      BY <1>3, <2>1
    <2>7. h[n] = f[n] - g[n]
      BY <1>6, <2>1
    <2>3. c[n + 1] = a[n + 1] - b[n + 1] /\ a[n + 1] \in Int /\ b[n + 1] \in Int
      BY <1>1, <2>1
    <2>4. f[n] \in Int /\ g[n] \in Int
      BY <2>1
    <2>8. PICK x \in Int, y \in Int, p \in Int, q \in Int :
            x = f[n] /\ y = g[n] /\ p = a[n + 1] /\ q = b[n + 1]
      BY <2>3, <2>4, Zenon
    <2>9. h[n + 1] = (x - y) + (p - q) /\ f[n + 1] = x + p /\ g[n + 1] = y + q
      BY <2>2, <2>3, <2>5, <2>6, <2>7, <2>8, Zenon
    <2>10. (x - y) + (p - q) = (x + p) - (y + q)
      OBVIOUS
    <2> QED
      BY <2>9, <2>10, Zenon
  <1> HIDE DEF Same
  <1>7. l \in Same
    BY <1>5, <1>6, CountedUp
  <1> QED
    BY <1>2, <1>3, <1>4, <1>7 DEF Same

-----------------------------------------------------------------------------
(* Decimals *)

Decimals == [coef : Nat, digits : Nat]

LEMMA HalfEvenIsNatural ==
  ASSUME NEW a \in Nat, NEW b \in Nat \ {0}
  PROVE  HalfEven(a, b) \in Nat
  <1>1. a \div b \in Nat
    OBVIOUS
  <1> QED
    BY <1>1 DEF HalfEven

LEMMA PowerOfTen == ASSUME NEW n \in Nat PROVE Pow10[n] \in Nat \ {0}
  BY PowersOfTen

\* There are so few digits after the point that the rest fits the precision.
LEMMA SurplusFits ==
  ASSUME NEW d \in Decimals
  PROVE  /\ Surplus(d) \in 0..d.digits
         /\ Surplus(d) = 0 \/ d.coef >= Pow10[Precision + Surplus(d) - 1]
  <1>1. d.digits \in Nat /\ Precision \in Nat \ {0} /\ d.coef \in Nat
    BY PrecisionAssumption DEF Decimals
  <1> DEFINE Fits == {n \in 0..d.digits : n = d.digits \/ d.coef < Pow10[Precision + n]}
  <1>2. PICK n \in Fits : \A m \in Fits : n <= m
    <2>1. d.digits \in Fits /\ Fits \subseteq Nat
      BY <1>1
    <2> HIDE DEF Fits
    <2> QED
      BY <2>1, Least
  <1>3. n = 0 \/ d.coef >= Pow10[Precision + n - 1]
    <2> SUFFICES ASSUME n # 0 PROVE d.coef >= Pow10[Precision + n - 1]
      OBVIOUS
    <2>1. n - 1 \in 0..d.digits /\ n - 1 \notin Fits /\ n - 1 # d.digits
      BY <1>1, <1>2
    <2>2. Precision + (n - 1) = Precision + n - 1 /\ Precision + n - 1 \in Nat
      BY <1>1, <2>1
    <2>3. ~(d.coef < Pow10[Precision + n - 1])
      BY <2>1, <2>2
    <2> QED
      BY <1>1, <2>2, <2>3, PowerOfTen
  <1> QED
    BY <1>2, <1>3 DEF Surplus

LEMMA RoundedIsDecimal == ASSUME NEW d \in Decimals PROVE Rounded(d) \in Decimals
  <1>1. d.coef \in Nat /\ d.digits \in Nat
    BY DEF Decimals
  <1>2. PICK n \in Nat : n = Surplus(d) /\ d.digits - n \in Nat
    BY <1>1, SurplusFits
  <1>3. HalfEven(d.coef, Pow10[n]) \in Nat
    BY <1>1, PowerOfTen, HalfEvenIsNatural
  <1> QED
    BY <1>2, <1>3 DEF Rounded, Decimal, Decimals

LEMMA TimesWholeIsDecimal ==
  ASSUME NEW d \in Decimals, NEW n \in Nat PROVE TimesWhole(d, n) \in Decimals
  <1>1. d.coef * n \in Nat /\ d.digits \in Nat
    BY DEF Decimals
  <1>2. Decimal(d.coef * n, d.digits) \in Decimals
    BY <1>1 DEF Decimal, Decimals
  <1> QED
    BY <1>2, RoundedIsDecimal DEF TimesWhole

LEMMA PlusIsDecimal ==
  ASSUME NEW c \in Decimals, NEW d \in Decimals PROVE Plus(c, d) \in Decimals
  <1> DEFINE digits == IF c.digits > d.digits THEN c.digits ELSE d.digits
  <1>1. digits \in Nat /\ digits - c.digits \in Nat /\ digits - d.digits \in Nat
        /\ c.coef \in Nat /\ d.coef \in Nat
    BY DEF Decimals
  <1> HIDE DEF digits
  <1>2. Pow10[digits - c.digits] \in Nat /\ Pow10[digits - d.digits] \in Nat
    BY <1>1, PowerOfTen
  <1>3. Times10(c, digits) + Times10(d, digits) \in Nat
    BY <1>1, <1>2 DEF Times10
  <1>4. Decimal(Times10(c, digits) + Times10(d, digits), digits) \in Decimals
    BY <1>1, <1>3 DEF Decimal, Decimals
  <1> QED
    BY <1>4, RoundedIsDecimal DEF Plus, digits

\* A quotient below a power of ten has room for its digits.
LEMMA RoomExists ==
  ASSUME NEW a \in Nat, NEW b \in Nat \ {0}, a < b * Pow10[Precision]
  PROVE  LET room == CHOOSE n \in 0..Precision :
                       /\ a * Pow10[n] < b * Pow10[Precision]
                       /\ n = Precision \/ a * Pow10[n + 1] >= b * Pow10[Precision]
         IN  /\ room \in 0..Precision
             /\ room = Precision \/ a * Pow10[room + 1] >= b * Pow10[Precision]
  <1> DEFINE Full == {n \in 0..Precision : n = Precision \/ a * Pow10[n + 1] >= b * Pow10[Precision]}
  <1>0. Precision \in Nat /\ Precision # 0
    BY PrecisionAssumption
  <1>1. PICK n \in Full : \A m \in Full : n <= m
    <2>1. Precision \in Full /\ Full \subseteq Nat
      BY <1>0
    <2> HIDE DEF Full
    <2> QED
      BY <2>1, Least
  <1>2. a * Pow10[n] < b * Pow10[Precision]
    <2>1. CASE n = 0
      BY <2>1, PowersOfTen
    <2>2. CASE n # 0
      <3>1. n - 1 \in 0..Precision /\ n - 1 \notin Full /\ n - 1 # Precision /\ (n - 1) + 1 = n
        BY <1>0, <1>1, <2>2
      <3>2. ~(a * Pow10[n] >= b * Pow10[Precision])
        BY <3>1
      <3>3. Pow10[n] \in Nat /\ Pow10[Precision] \in Nat
        BY <1>0, <1>1, PowerOfTen
      <3>4. a * Pow10[n] \in Nat /\ b * Pow10[Precision] \in Nat
        BY <3>3
      <3> QED
        BY <3>2, <3>4
    <2> QED
      BY <2>1, <2>2
  <1> QED
    BY <1>1, <1>2

LEMMA DivideIsDecimal ==
  ASSUME NEW a \in Nat, NEW b \in Nat \ {0}, a < b * Pow10[Precision]
  PROVE  Divide(a, b) \in Decimals
  <1> DEFINE room == CHOOSE k \in 0..Precision :
                       /\ a * Pow10[k] < b * Pow10[Precision]
                       /\ k = Precision \/ a * Pow10[k + 1] >= b * Pow10[Precision]
  <1>1. room \in 0..Precision
    BY RoomExists
  <1>2. Divide(a, b) = Decimal(HalfEven(a * Pow10[room], b), room)
    BY DEF Divide
  <1> HIDE DEF room
  <1>3. room \in Nat
    BY <1>1, PrecisionAssumption
  <1>4. a * Pow10[room] \in Nat
    BY <1>3, PowerOfTen
  <1>5. HalfEven(a * Pow10[room], b) \in Nat
    BY <1>4, HalfEvenIsNatural
  <1> QED
    BY <1>2, <1>3, <1>5 DEF Decimal, Decimals

LEMMA CeilWonIsAmount == ASSUME NEW d \in Decimals PROVE CeilWon(d) \in Int
  <1>1. Pow10[d.digits] \in Nat \ {0} /\ -d.coef \in Int
    BY PowerOfTen DEF Decimals
  <1>2. \A x \in Int, y \in Nat \ {0} : -(x \div y) \in Int
    OBVIOUS
  <1> QED
    BY <1>1, <1>2 DEF CeilWon

-----------------------------------------------------------------------------
(* Pay *)

Ratings == [units : Units, wage : Nat]

LEMMA SubtotalIsDecimal == ASSUME NEW s \in Ratings PROVE Subtotal(s, PerHour) \in Decimals
  <1>1. s.units \in Nat /\ s.units < PerHour * Pow10[Precision] /\ s.wage \in Nat
    BY DEF Ratings, Units
  <1>2. Hours(s.units, PerHour) \in Decimals
    BY <1>1, DivideIsDecimal, PayslipsAssumption DEF Hours
  <1> QED
    BY <1>1, <1>2, TimesWholeIsDecimal DEF Subtotal

\* The sums of base pay, one segment after the other.
LEMMA RunningPay ==
  ASSUME NEW t \in Seq(Ratings), NEW l \in Nat, l = Len(t)
  PROVE  \E f \in [0..l -> Decimals] :
           /\ f[0] = Whole(0) /\ \A i \in 1..l : f[i] = Plus(f[i - 1], Subtotal(t[i], PerHour))
           /\ BasePay(t, PerHour) = CeilWon(f[l])
  <1>1. \A i \in 1..l : Subtotal(t[i], PerHour) \in Decimals
    BY SubtotalIsDecimal
  <1>2. PICK step \in [Nat -> [Decimals -> Decimals]] :
          \A n \in 1..l, x \in Decimals : step[n][x] = Plus(x, Subtotal(t[n], PerHour))
    <2> DEFINE s == [n \in Nat |-> [x \in Decimals |->
                       IF n \in 1..l THEN Plus(x, Subtotal(t[n], PerHour)) ELSE x]]
    <2>1. s \in [Nat -> [Decimals -> Decimals]]
      BY <1>1, PlusIsDecimal
    <2>2. \A n \in 1..l, x \in Decimals : s[n][x] = Plus(x, Subtotal(t[n], PerHour))
      BY Indexes
    <2> HIDE DEF s
    <2> QED
      BY <2>1, <2>2
  <1>3. StepsIn(Decimals, Whole(0), step)
    <2>1. Whole(0) \in Decimals
      BY DEF Whole, Decimal, Decimals
    <2> QED
      BY <2>1, <1>2, Zenon DEF StepsIn
  <1>4. PICK g \in [0..l -> Decimals] : StepsUpTo(g, l, Whole(0), step)
    BY <1>3, RecursionUpTo, Zenon
  <1>5. ASSUME NEW i \in 1..l PROVE g[i] = Plus(g[i - 1], Subtotal(t[i], PerHour))
    <2>1. i - 1 \in 0..l
      BY Indexes
    <2> QED
      BY <2>1, <1>2, <1>4 DEF StepsUpTo
  <1>6. g = [i \in 0..l |-> IF i = 0 THEN Whole(0) ELSE Plus(g[i - 1], Subtotal(t[i], PerHour))]
    <2>1. \A i \in 0..l : i # 0 => i \in 1..l
      OBVIOUS
    <2> QED
      BY <1>4, <1>5, <2>1 DEF StepsUpTo
  <1> DEFINE f == CHOOSE f : f = [i \in 0..Len(t) |->
                    IF i = 0 THEN Whole(0) ELSE Plus(f[i - 1], Subtotal(t[i], PerHour))]
  <1>7. f = [i \in 0..l |-> IF i = 0 THEN Whole(0) ELSE Plus(f[i - 1], Subtotal(t[i], PerHour))]
    BY <1>6
  <1>8. BasePay(t, PerHour) = CeilWon(f[l])
    BY DEF BasePay
  <1> HIDE DEF f
  <1> DEFINE Fits == {n \in Nat : n <= l => f[n] \in Decimals}
  <1>9. 0 \in Fits
    <2>1. 0 \in 0..l /\ Whole(0) \in Decimals
      BY DEF Whole, Decimal, Decimals
    <2> QED
      BY <1>7, <2>1
  <1>10. ASSUME NEW n \in Nat, n \in Fits PROVE n + 1 \in Fits
    <2> SUFFICES ASSUME n + 1 <= l PROVE f[n + 1] \in Decimals
      OBVIOUS
    <2>1. n + 1 \in 1..l /\ n + 1 \in 0..l /\ n + 1 # 0 /\ (n + 1) - 1 = n /\ f[n] \in Decimals
      BY <1>10
    <2>2. f[n + 1] = Plus(f[n], Subtotal(t[n + 1], PerHour))
      BY <1>7, <2>1
    <2> QED
      BY <1>1, <2>1, <2>2, PlusIsDecimal
  <1> HIDE DEF Fits
  <1>11. \A n \in Nat : n \in Fits
    BY <1>9, <1>10, CountedUp
  <1>12. f \in [0..l -> Decimals]
    <2>1. \A n \in 0..l : f[n] \in Decimals
      BY <1>11 DEF Fits
    <2> QED
      BY <1>7, <2>1
  <1>13. f[0] = Whole(0) /\ \A i \in 1..l : f[i] = Plus(f[i - 1], Subtotal(t[i], PerHour))
    <2>1. 0 \in 0..l /\ \A i \in 1..l : i \in 0..l /\ i # 0
      OBVIOUS
    <2> QED
      BY <1>7, <2>1
  <1> QED
    BY <1>8, <1>12, <1>13

LEMMA BasePayIsAmount ==
  ASSUME NEW t \in Seq(Ratings) PROVE BasePay(t, PerHour) \in Int
  <1>1. PICK l \in Nat : l = Len(t)
    OBVIOUS
  <1>2. PICK f \in [0..l -> Decimals] : BasePay(t, PerHour) = CeilWon(f[l])
    BY <1>1, RunningPay
  <1>3. f[l] \in Decimals
    OBVIOUS
  <1> QED
    BY <1>2, <1>3, CeilWonIsAmount

LEMMA WeeklyAllowanceIsAmount ==
  ASSUME NEW pay, PayFits(pay), PayValid(pay)
  PROVE  WeeklyAllowance(pay.facts, pay.applicable) \in Int
  <1> DEFINE facts == pay.facts
  <1>1. /\ facts.shortTime \in BOOLEAN /\ facts.dailyHours \in Nat /\ facts.fourWeekHours \in Nat
        /\ facts.referenceDays \in Int /\ facts.wage \in Nat
        /\ facts.fourWeekHours < Pow10[Precision]
    BY DEF PayFits
  <1>2. CASE ~pay.applicable
    BY <1>2 DEF WeeklyAllowance
  <1>3. CASE pay.applicable
    <2>1. AllowanceHours(facts) \in Decimals
      <3>1. CASE facts.shortTime
        <4>1. facts.referenceDays \in Nat \ {0}
          BY <1>1, <1>3, <3>1 DEF PayValid, AllowanceRefused
        <4>2. PICK p \in Nat : p = Pow10[Precision]
          BY PowerOfTen, PrecisionAssumption
        <4>3. \A a, b \in Nat : a < p /\ b # 0 => a < b * p
          <5>1. ASSUME NEW a \in Nat, NEW b \in Nat, a < p, b # 0 PROVE a < b * p
            <6>1. PICK c \in Nat : b = c + 1
              <7>1. b - 1 \in Nat /\ b = (b - 1) + 1
                BY <5>1
              <7> QED
                BY <7>1
            <6>2. b * p = c * p + p /\ c * p \in Nat
              BY <6>1
            <6> QED
              BY <5>1, <6>2
          <5> QED
            BY <5>1
        <4>4. facts.fourWeekHours < facts.referenceDays * Pow10[Precision]
          BY <1>1, <4>1, <4>2, <4>3
        <4>5. Divide(facts.fourWeekHours, facts.referenceDays) \in Decimals
          BY <1>1, <4>1, <4>4, DivideIsDecimal
        <4> QED
          BY <3>1, <4>5 DEF AllowanceHours
      <3>2. CASE ~facts.shortTime
        BY <1>1, <3>2 DEF AllowanceHours, Whole, Decimal, Decimals
      <3> QED
        BY <3>1, <3>2
    <2>2. CeilWon(TimesWhole(AllowanceHours(facts), facts.wage)) \in Int
      BY <1>1, <2>1, TimesWholeIsDecimal, CeilWonIsAmount
    <2> QED
      BY <1>3, <2>2 DEF WeeklyAllowance
  <1> QED
    BY <1>2, <1>3

\* When every premium is final there is an amount to deduct.
LEMMA FinalAmountsAreAmounts == ASSUME PremiumsFit, AllInsurancesFinal PROVE FinalAmounts \in Int
  <1>1. ASSUME NEW i \in EmployeeInsurances PROVE premiums[i].final \in Int
    <2>1. CASE i \in Pending
      <3>1. premiums[i].status \in FinalStatuses /\ premiums[i].status # None
        BY ReconciliationAssumption DEF AllInsurancesFinal, FinalStatuses
      <3>2. premiums[i] # Missing
        BY <3>1 DEF Missing
      <3>3. CASE premiums[i].status = "RECONCILED"
        <4>1. premiums[i].final \in Finals
          BY <2>1, <3>2, <3>3 DEF PremiumsFit, RowConsistent
        <4> QED
          BY <4>1, ReconciliationAssumption
      <3>4. CASE premiums[i].status = "NOT_APPLICABLE"
        <4>1. premiums[i].final = 0
          BY <2>1, <3>2, <3>4 DEF PremiumsFit, RowConsistent
        <4> QED
          BY <4>1
      <3> QED
        BY <3>1, <3>3, <3>4 DEF FinalStatuses
    <2>2. CASE i \notin Pending
      BY <2>2 DEF PremiumsFit, NewRow, Row
    <2> QED
      BY <2>1, <2>2
  <1>2. /\ "NATIONAL_PENSION" \in EmployeeInsurances /\ "HEALTH" \in EmployeeInsurances
        /\ "LONG_TERM_CARE" \in EmployeeInsurances /\ "EMPLOYMENT" \in EmployeeInsurances
    BY DEF EmployeeInsurances
  <1> QED
    BY <1>1, <1>2 DEF FinalAmounts

-----------------------------------------------------------------------------
(* How far decimals are from what they stand for *)

LEMMA ProductsOfNaturals == \A a, b \in Nat : a * b \in Nat
  OBVIOUS

LEMMA TimesMonotone == \A a, b \in Int, c \in Nat : a <= b => a * c <= b * c
  OBVIOUS

LEMMA Cancels == \A a, b \in Int, c \in Nat \ {0} : a * c <= b * c => a <= b
  OBVIOUS

LEMMA PowerOfSum == \A m, n \in Nat : Pow10[m + n] = Pow10[m] * Pow10[n]
  <1> SUFFICES ASSUME NEW m \in Nat PROVE \A n \in Nat : Pow10[m + n] = Pow10[m] * Pow10[n]
    OBVIOUS
  <1> DEFINE T == {n \in Nat : Pow10[m + n] = Pow10[m] * Pow10[n]}
  <1>1. 0 \in T
    <2>1. m + 0 = m /\ Pow10[0] = 1 /\ Pow10[m] \in Nat
      BY PowersOfTen
    <2> QED
      BY <2>1
  <1>2. ASSUME NEW n \in Nat, n \in T PROVE n + 1 \in T
    <2>1. m + (n + 1) = (m + n) + 1 /\ m + n \in Nat
      OBVIOUS
    <2>2. PICK a \in Nat, b \in Nat : a = Pow10[m] /\ b = Pow10[n]
      BY PowersOfTen
    <2>3. Pow10[m + (n + 1)] = 10 * (a * b) /\ Pow10[n + 1] = 10 * b
      BY <1>2, <2>1, <2>2, PowersOfTen
    <2>4. 10 * (a * b) = a * (10 * b)
      BY <2>2
    <2> QED
      BY <2>2, <2>3, <2>4
  <1> HIDE DEF T
  <1>3. \A n \in Nat : n \in T
    BY <1>1, <1>2, CountedUp
  <1> QED
    BY <1>3 DEF T

LEMMA HalfEvenIsNear ==
  ASSUME NEW a \in Nat, NEW b \in Nat \ {0}
  PROVE  /\ 2 * (b * HalfEven(a, b)) <= 2 * a + b
         /\ 2 * a <= 2 * (b * HalfEven(a, b)) + b
  <1>1. PICK floor \in Nat, rest \in Nat :
          floor = a \div b /\ rest = a % b /\ a = b * floor + rest /\ rest < b
    OBVIOUS
  <1>2. b * (floor + 1) = b * floor + b
    BY <1>1
  <1>3. CASE 2 * rest > b \/ (2 * rest = b /\ floor % 2 = 1)
    <2>1. HalfEven(a, b) = floor + 1
      BY <1>1, <1>3 DEF HalfEven
    <2>2. PICK t \in Nat : t = b * floor
      BY <1>1
    <2> QED
      BY <1>1, <1>2, <1>3, <2>1, <2>2
  <1>4. CASE ~(2 * rest > b \/ (2 * rest = b /\ floor % 2 = 1))
    <2>1. HalfEven(a, b) = floor
      BY <1>1, <1>4 DEF HalfEven
    <2>2. PICK t \in Nat : t = b * floor
      BY <1>1
    <2> QED
      BY <1>1, <1>4, <2>1, <2>2
  <1> QED
    BY <1>3, <1>4

\* A decimal in the smallest units that the context can tell apart.
Scale == Pow10[Precision]
InRange(d) == d \in Decimals /\ d.digits <= Precision
Scaled(d) == d.coef * Pow10[Precision - d.digits]

LEMMA ScaleIsNatural ==
  /\ Precision \in Nat \ {0} /\ Scale \in Nat /\ Scale >= 10
  /\ \A d : InRange(d) => Precision - d.digits \in Nat /\ Scaled(d) \in Nat
  <1>1. Precision \in Nat \ {0}
    BY PrecisionAssumption
  <1>2. Scale \in Nat /\ Scale >= 10
    <2>1. Precision - 1 \in Nat /\ (Precision - 1) + 1 = Precision
      BY <1>1
    <2>2. Scale = 10 * Pow10[Precision - 1] /\ Pow10[Precision - 1] \in Nat \ {0}
      BY <2>1, PowersOfTen DEF Scale
    <2> QED
      BY <2>2
  <1>3. ASSUME NEW d, InRange(d) PROVE Precision - d.digits \in Nat /\ Scaled(d) \in Nat
    <2>1. d.coef \in Nat /\ Precision - d.digits \in Nat
      BY <1>1, <1>3 DEF InRange, Decimals
    <2> QED
      BY <2>1, PowerOfTen DEF Scaled
  <1> QED
    BY <1>1, <1>2, <1>3

\* Rounding changes an amount by no more than five parts in Scale.
RoundsTo(x, y) == Scale * x <= Scale * y + 5 * y /\ Scale * y <= Scale * x + 5 * y

LEMMA RoundedIsClose ==
  ASSUME NEW d, InRange(d)
  PROVE  InRange(Rounded(d)) /\ RoundsTo(Scaled(Rounded(d)), Scaled(d))
  <1>1. /\ d \in Decimals /\ d.coef \in Nat /\ d.digits \in Nat
        /\ Precision \in Nat \ {0} /\ Precision - d.digits \in Nat
    BY ScaleIsNatural DEF InRange, Decimals
  <1>2. PICK n \in Nat :
          n = Surplus(d) /\ n <= d.digits /\ (n = 0 \/ d.coef >= Pow10[Precision + n - 1])
    BY <1>1, SurplusFits
  <1>3. PICK T \in Nat \ {0} : T = Pow10[n]
    BY PowersOfTen
  <1>4. PICK W \in Nat : W = Pow10[Precision - d.digits]
    BY <1>1, PowersOfTen
  <1>5. PICK R \in Nat : R = HalfEven(d.coef, T)
    BY <1>1, HalfEvenIsNatural
  <1>6. Rounded(d) = [coef |-> R, digits |-> d.digits - n] /\ d.digits - n \in Nat
    BY <1>1, <1>2, <1>3, <1>5 DEF Rounded, Decimal
  <1>7. InRange(Rounded(d))
    BY <1>1, <1>6 DEF InRange, Decimals
  <1>8. Precision - (d.digits - n) = n + (Precision - d.digits)
    BY <1>1
  <1>9. Scaled(Rounded(d)) = R * (T * W) /\ Scaled(d) = d.coef * W
    <2>1. Pow10[Precision - (d.digits - n)] = T * W
      BY <1>1, <1>3, <1>4, <1>8, PowerOfSum
    <2> QED
      BY <1>4, <1>6, <2>1 DEF Scaled
  <1>10. PICK v \in Nat, x \in Nat, U \in Nat, P \in Nat :
           v = d.coef * W /\ x = R * (T * W) /\ U = T * W /\ P = Scale
    BY <1>1, ScaleIsNatural
  <1>11. 2 * x <= 2 * v + U /\ 2 * v <= 2 * x + U
    <2>1. PICK TR \in Nat : TR = T * R
      OBVIOUS
    <2>2. 2 * TR <= 2 * d.coef + T /\ 2 * d.coef <= 2 * TR + T
      BY <1>1, <1>5, <2>1, HalfEvenIsNear
    <2>3. (2 * TR) * W <= (2 * d.coef + T) * W /\ (2 * d.coef) * W <= (2 * TR + T) * W
      BY <1>1, <2>2, TimesMonotone
    <2>4. TR * W = x
      BY <1>10, <2>1
    <2>5. (2 * TR) * W = 2 * x /\ (2 * d.coef) * W = 2 * v
      BY <1>1, <1>10, <2>4
    <2>6. (2 * d.coef + T) * W = (2 * d.coef) * W + T * W /\ (2 * TR + T) * W = (2 * TR) * W + T * W
      BY <1>1
    <2> QED
      BY <1>10, <2>3, <2>5, <2>6
  <1>12. CASE n = 0
    <2>1. T = 1
      BY <1>3, <1>12, PowersOfTen
    <2>2. R = d.coef
      <3>1. 2 * (T * R) <= 2 * d.coef + T /\ 2 * d.coef <= 2 * (T * R) + T
        BY <1>1, <1>5, HalfEvenIsNear
      <3> QED
        BY <1>1, <2>1, <3>1
    <2>3. x = v
      BY <1>1, <1>10, <2>1, <2>2
    <2> QED
      BY <1>7, <1>9, <1>10, <2>3 DEF RoundsTo
  <1>13. CASE n # 0
    <2>1. Precision + n - 1 \in Nat /\ (Precision + n - 1) + 1 = Precision + n
      BY <1>1, <1>13
    <2>2. Pow10[Precision + n] = P * T /\ Pow10[Precision + n] = 10 * Pow10[Precision + n - 1]
      <3>1. Pow10[Precision + n] = Pow10[Precision] * Pow10[n]
        BY <1>1, PowerOfSum
      <3>2. Pow10[(Precision + n - 1) + 1] = 10 * Pow10[Precision + n - 1]
        BY <2>1, PowersOfTen
      <3> QED
        BY <1>3, <1>10, <2>1, <3>1, <3>2 DEF Scale
    <2>3. P * T <= 10 * d.coef
      BY <1>1, <1>2, <1>13, <2>1, <2>2, PowerOfTen
    <2>4. (P * T) * W <= (10 * d.coef) * W
      BY <1>1, <2>3, TimesMonotone
    <2>5. P * U <= 10 * v
      BY <1>1, <1>10, <2>4
    <2>6. (2 * x) * P <= (2 * v + U) * P /\ (2 * v) * P <= (2 * x + U) * P
      BY <1>11, TimesMonotone
    <2>7. P * x <= P * v + 5 * v /\ P * v <= P * x + 5 * v
      BY <2>5, <2>6
    <2> QED
      BY <1>7, <1>9, <1>10, <2>7 DEF RoundsTo
  <1> QED
    BY <1>12, <1>13

LEMMA DivideIsClose ==
  ASSUME NEW a \in Nat, NEW b \in Nat \ {0}, a < b * Scale
  PROVE  /\ InRange(Divide(a, b))
         /\ 2 * (b * Scaled(Divide(a, b))) <= 2 * (a * Scale) + (b + 10 * a)
         /\ 2 * (a * Scale) <= 2 * (b * Scaled(Divide(a, b))) + (b + 10 * a)
  <1> DEFINE room == CHOOSE k \in 0..Precision :
                       /\ a * Pow10[k] < b * Pow10[Precision]
                       /\ k = Precision \/ a * Pow10[k + 1] >= b * Pow10[Precision]
  <1>0. Precision \in Nat /\ Precision # 0
    BY PrecisionAssumption
  <1>1. room \in 0..Precision /\ (room = Precision \/ a * Pow10[room + 1] >= b * Pow10[Precision])
    BY RoomExists DEF Scale
  <1>2. Divide(a, b) = Decimal(HalfEven(a * Pow10[room], b), room)
    BY DEF Divide
  <1> HIDE DEF room
  <1>3. PICK n \in Nat : n = room /\ Precision - n \in Nat
    BY <1>0, <1>1
  <1>4. PICK T \in Nat \ {0}, W \in Nat \ {0}, P \in Nat :
          T = Pow10[n] /\ W = Pow10[Precision - n] /\ P = Scale
    BY <1>3, PowersOfTen, ScaleIsNatural
  <1>5. P = W * T
    <2>1. (Precision - n) + n = Precision
      BY <1>0, <1>3
    <2> QED
      BY <1>3, <1>4, <2>1, PowerOfSum DEF Scale
  <1>6. PICK aT \in Nat : aT = a * T
    OBVIOUS
  <1>7. PICK C \in Nat : C = HalfEven(aT, b)
    BY <1>6, HalfEvenIsNatural
  <1>8. Divide(a, b) = [coef |-> C, digits |-> n]
    BY <1>2, <1>3, <1>4, <1>6, <1>7 DEF Decimal
  <1>9. InRange(Divide(a, b)) /\ Scaled(Divide(a, b)) = C * W
    BY <1>0, <1>3, <1>4, <1>8 DEF InRange, Decimals, Scaled
  <1>10. PICK bC \in Nat, x \in Nat, y \in Nat, U \in Nat :
           bC = b * C /\ x = b * (C * W) /\ y = a * P /\ U = b * W
    OBVIOUS
  <1>11. x = bC * W /\ y = aT * W
    BY <1>5, <1>6, <1>10
  <1>12. 2 * x <= 2 * y + U /\ 2 * y <= 2 * x + U
    <2>1. 2 * bC <= 2 * aT + b /\ 2 * aT <= 2 * bC + b
      BY <1>6, <1>7, <1>10, HalfEvenIsNear
    <2>2. (2 * bC) * W <= (2 * aT + b) * W /\ (2 * aT) * W <= (2 * bC + b) * W
      BY <2>1, TimesMonotone
    <2>3. (2 * bC) * W = 2 * x /\ (2 * aT) * W = 2 * y
      BY <1>11
    <2>4. (2 * aT + b) * W = (2 * aT) * W + b * W /\ (2 * bC + b) * W = (2 * bC) * W + b * W
      OBVIOUS
    <2> QED
      BY <1>10, <2>2, <2>3, <2>4
  <1>13. U <= b + 10 * a
    <2>1. CASE n = Precision
      <3>1. Precision - n = 0 /\ W = 1
        BY <1>0, <1>4, <2>1, PowersOfTen
      <3> QED
        BY <1>10, <3>1
    <2>2. CASE n # Precision
      <3>1. Pow10[n + 1] = 10 * T
        BY <1>3, <1>4, PowersOfTen
      <3>2. b * P <= a * (10 * T)
        <4>1. a * Pow10[n + 1] >= b * P
          BY <1>1, <1>3, <1>4, <2>2 DEF Scale
        <4> QED
          BY <3>1, <4>1
      <3>3. b * P = U * T /\ a * (10 * T) = (10 * a) * T
        BY <1>5, <1>10
      <3>4. U <= 10 * a
        BY <3>2, <3>3, Cancels
      <3> QED
        BY <3>4
    <2> QED
      BY <2>1, <2>2
  <1> QED
    BY <1>4, <1>9, <1>10, <1>12, <1>13

\* A decimal is within e of n: n units of time at a won an hour, and e in parts
\* of Scale and of an hour.
Near(d, n, e) ==
  /\ InRange(d)
  /\ PerHour * Scaled(d) <= Scale * n + e /\ Scale * n <= PerHour * Scaled(d) + e

LEMMA SubtotalIsClose ==
  ASSUME NEW s \in Ratings, NEW z \in Nat, z = s.units * s.wage,
         NEW e \in Nat, e = PerHour * s.wage + 15 * z
  PROVE  Near(Subtotal(s, PerHour), z, e)
  <1>1. PICK u \in Nat, w \in Nat, q \in Nat \ {0}, P \in Nat :
          /\ u = s.units /\ w = s.wage /\ q = PerHour /\ P = Scale
          /\ P >= 10 /\ u < q * P
    BY PayslipsAssumption, ScaleIsNatural DEF Ratings, Units, Scale
  <1>2. PICK h : h = Divide(u, q)
    OBVIOUS
  <1>3. InRange(h)
    BY <1>1, <1>2, DivideIsClose
  <1>4. PICK c \in Nat, digits \in Nat, W \in Nat :
          /\ c = h.coef /\ digits = h.digits /\ W = Pow10[Precision - digits]
          /\ digits <= Precision
    <2>1. Precision - h.digits \in Nat /\ h.coef \in Nat /\ h.digits \in Nat /\ h.digits <= Precision
      BY <1>3, ScaleIsNatural DEF InRange, Decimals
    <2> QED
      BY <2>1, PowersOfTen
  <1>5. PICK d : d = [coef |-> c * w, digits |-> digits]
    OBVIOUS
  <1>6. InRange(d) /\ Subtotal(s, PerHour) = Rounded(d)
    BY <1>1, <1>2, <1>4, <1>5 DEF InRange, Decimals, Subtotal, Hours, TimesWhole, Decimal
  <1>7. PICK v \in Nat, m \in Nat, x \in Nat :
          v = Scaled(h) /\ m = Scaled(d) /\ x = Scaled(Rounded(d))
    BY <1>3, <1>6, RoundedIsClose, ScaleIsNatural
  <1>8. m = v * w
    <2>1. d.coef = c * w /\ d.digits = digits
      BY <1>5
    <2>2. m = (c * w) * W /\ v = c * W
      BY <1>4, <1>7, <2>1 DEF Scaled
    <2> QED
      BY <2>2
  <1>9. PICK a \in Nat, X \in Nat : a = q * m /\ X = q * x
    OBVIOUS
  <1>10. 2 * (q * v) <= 2 * (u * P) + (q + 10 * u) /\ 2 * (u * P) <= 2 * (q * v) + (q + 10 * u)
    BY <1>1, <1>2, <1>7, DivideIsClose
  <1>11. PICK f \in Nat : f = q * w + 10 * z
    OBVIOUS
  <1>12. 2 * a <= 2 * (P * z) + f /\ 2 * (P * z) <= 2 * a + f
    <2>1. PICK qv \in Nat, uP \in Nat : qv = q * v /\ uP = u * P
      OBVIOUS
    <2>2. (2 * qv) * w <= (2 * uP + (q + 10 * u)) * w /\ (2 * uP) * w <= (2 * qv + (q + 10 * u)) * w
      BY <1>10, <2>1, TimesMonotone
    <2>3. qv * w = a /\ uP * w = P * z
      BY <1>1, <1>8, <1>9, <2>1
    <2>4. (q + 10 * u) * w = f
      BY <1>1, <1>11
    <2>5. (2 * uP + (q + 10 * u)) * w = 2 * (uP * w) + (q + 10 * u) * w
      OBVIOUS
    <2>6. (2 * qv + (q + 10 * u)) * w = 2 * (qv * w) + (q + 10 * u) * w
      OBVIOUS
    <2>7. (2 * qv) * w = 2 * (qv * w) /\ (2 * uP) * w = 2 * (uP * w)
      OBVIOUS
    <2> QED
      BY <2>2, <2>3, <2>4, <2>5, <2>6, <2>7
  <1>13. P * X <= P * a + 5 * a /\ P * a <= P * X + 5 * a
    <2>1. P * x <= P * m + 5 * m /\ P * m <= P * x + 5 * m
      BY <1>1, <1>6, <1>7, RoundedIsClose DEF RoundsTo
    <2>2. (P * x) * q <= (P * m + 5 * m) * q /\ (P * m) * q <= (P * x + 5 * m) * q
      BY <2>1, TimesMonotone
    <2>3. (P * x) * q = P * X /\ (P * m) * q = P * a
      BY <1>9
    <2>4. (P * m + 5 * m) * q = (P * m) * q + 5 * a /\ (P * x + 5 * m) * q = (P * x) * q + 5 * a
      BY <1>9
    <2> QED
      BY <2>2, <2>3, <2>4
  <1>14. 5 * f <= P * f
    BY <1>1, TimesMonotone
  <1>15. PICK Pz \in Nat, Pa \in Nat, PX \in Nat, Pf \in Nat :
           Pz = P * z /\ Pa = P * a /\ PX = P * X /\ Pf = P * f
    OBVIOUS
  <1>16. PICK PPz \in Nat : PPz = P * Pz
    OBVIOUS
  <1>17. 2 * Pa <= 2 * PPz + Pf /\ 2 * PPz <= 2 * Pa + Pf
    <2>1. (2 * a) * P <= (2 * Pz + f) * P /\ (2 * Pz) * P <= (2 * a + f) * P
      BY <1>12, <1>15, TimesMonotone
    <2> QED
      BY <2>1, <1>15, <1>16
  <1>18. PX <= PPz + Pf + 5 * Pz /\ PPz <= PX + Pf + 5 * Pz
    BY <1>12, <1>13, <1>14, <1>15, <1>17
  <1>19. X <= Pz + (f + 5 * z) /\ Pz <= X + (f + 5 * z)
    <2>1. X * P <= (Pz + (f + 5 * z)) * P /\ Pz * P <= (X + (f + 5 * z)) * P
      BY <1>15, <1>16, <1>18
    <2> QED
      BY <1>1, <2>1, Cancels
  <1>20. f + 5 * z = e
    BY <1>1, <1>11
  <1> QED
    BY <1>1, <1>6, <1>7, <1>9, <1>15, <1>19, <1>20, RoundedIsClose DEF Near

LEMMA PlusIsClose ==
  ASSUME NEW c, InRange(c), NEW d, InRange(d)
  PROVE  InRange(Plus(c, d)) /\ RoundsTo(Scaled(Plus(c, d)), Scaled(c) + Scaled(d))
  <1>1. PICK digits \in Nat :
          /\ digits = IF c.digits > d.digits THEN c.digits ELSE d.digits
          /\ digits - c.digits \in Nat /\ digits - d.digits \in Nat /\ Precision - digits \in Nat
          /\ digits <= Precision
    BY ScaleIsNatural DEF InRange, Decimals
  <1>2. PICK x \in Nat, y \in Nat, X \in Nat, Y \in Nat, W \in Nat :
          /\ x = c.coef /\ y = d.coef
          /\ X = Pow10[digits - c.digits] /\ Y = Pow10[digits - d.digits]
          /\ W = Pow10[Precision - digits]
    BY <1>1, PowersOfTen DEF InRange, Decimals
  <1>3. PICK sum : sum = [coef |-> x * X + y * Y, digits |-> digits]
    OBVIOUS
  <1>4. Plus(c, d) = Rounded(sum) /\ InRange(sum)
    BY <1>1, <1>2, <1>3 DEF Plus, Times10, Decimal, InRange, Decimals
  <1>5. Scaled(c) = x * (X * W) /\ Scaled(d) = y * (Y * W)
    <2>1. /\ Precision - c.digits = (digits - c.digits) + (Precision - digits)
          /\ Precision - d.digits = (digits - d.digits) + (Precision - digits)
      BY <1>1, ScaleIsNatural DEF InRange, Decimals
    <2>2. /\ Pow10[(digits - c.digits) + (Precision - digits)] = X * W
          /\ Pow10[(digits - d.digits) + (Precision - digits)] = Y * W
      <3>1. PICK i \in Nat, j \in Nat, k \in Nat :
              i = digits - c.digits /\ j = digits - d.digits /\ k = Precision - digits
        BY <1>1
      <3>2. Pow10[i + k] = Pow10[i] * Pow10[k] /\ Pow10[j + k] = Pow10[j] * Pow10[k]
        BY PowerOfSum
      <3> QED
        BY <1>2, <3>1, <3>2
    <2>3. Pow10[Precision - c.digits] = X * W /\ Pow10[Precision - d.digits] = Y * W
      BY <2>1, <2>2
    <2> QED
      BY <1>2, <2>3 DEF Scaled
  <1>6. Scaled(sum) = (x * X + y * Y) * W
    <2>1. sum.coef = x * X + y * Y /\ sum.digits = digits
      BY <1>3
    <2> QED
      BY <1>2, <2>1 DEF Scaled
  <1>7. (x * X + y * Y) * W = x * (X * W) + y * (Y * W)
    <2>1. (x * X + y * Y) * W = (x * X) * W + (y * Y) * W
      OBVIOUS
    <2>2. (x * X) * W = x * (X * W) /\ (y * Y) * W = y * (Y * W)
      OBVIOUS
    <2> QED
      BY <2>1, <2>2
  <1> QED
    BY <1>4, <1>5, <1>6, <1>7, RoundedIsClose

LEMMA UpToIsLeast ==
  ASSUME NEW n \in Nat, NEW b \in Nat \ {0}
  PROVE  UpTo(n, b) \in Nat /\ n <= b * UpTo(n, b) /\ b * UpTo(n, b) <= n + b - 1
  <1>1. PICK m \in Nat : m = n + b - 1
    OBVIOUS
  <1>2. m \div b \in Nat /\ b * (m \div b) <= m /\ m < b * (m \div b) + b
    OBVIOUS
  <1> QED
    BY <1>1, <1>2 DEF UpTo

\* What is less than a won from a number of parts of an hour is rounded up to
\* that number of won, or one more.
LEMMA CeilWonIsNear ==
  ASSUME NEW d, NEW n \in Nat, NEW e \in Nat, Near(d, n, e), e < Scale
  PROVE  CeilWon(d) \in UpTo(n, PerHour)..(UpTo(n, PerHour) + 1)
  <1>1. PICK k \in Nat, T \in Nat \ {0}, W \in Nat \ {0} :
          k = d.coef /\ T = Pow10[d.digits] /\ W = Pow10[Precision - d.digits]
    BY ScaleIsNatural, PowersOfTen DEF Near, InRange, Decimals
  <1>2. PICK P \in Nat \ {0}, v \in Nat, q \in Nat \ {0} :
          P = Scale /\ v = Scaled(d) /\ q = PerHour
    BY ScaleIsNatural, PayslipsAssumption DEF Near
  <1>3. P = T * W /\ v = k * W
    <2>1. d.digits + (Precision - d.digits) = Precision /\ d.digits \in Nat
          /\ Precision - d.digits \in Nat
      BY ScaleIsNatural DEF Near, InRange, Decimals
    <2> QED
      BY <1>1, <1>2, <2>1, PowerOfSum DEF Scale, Scaled
  <1>4. PICK c \in Int : c = CeilWon(d) /\ k <= c * T /\ (c - 1) * T < k
    <2>1. PICK g \in Int : g = (-k) \div T /\ T * g <= -k /\ -k < T * g + T
      BY <1>1
    <2>2. PICK c \in Int : c = -g
      BY <2>1
    <2>3. c * T = -(T * g) /\ (c - 1) * T = c * T - T
      BY <2>1, <2>2
    <2> QED
      BY <1>1, <2>1, <2>2, <2>3 DEF CeilWon
  <1>5. v <= c * P /\ (c - 1) * P < v
    <2>1. k * W <= (c * T) * W /\ ((c - 1) * T + 1) * W <= k * W
      BY <1>4, TimesMonotone
    <2>2. (c * T) * W = c * P /\ ((c - 1) * T + 1) * W = (c - 1) * P + W
      BY <1>3
    <2> QED
      BY <1>3, <2>1, <2>2
  <1>6. q * v < P * n + P /\ P * n < q * v + P
    <2>1. PICK a \in Nat, b \in Nat : a = q * v /\ b = P * n
      BY ProductsOfNaturals
    <2>2. a <= b + e /\ b <= a + e
      BY <1>2, <2>1 DEF Near
    <2> QED
      BY <1>2, <2>1, <2>2
  <1>7. n <= q * c
    <2>1. v * q <= (c * P) * q
      BY <1>5, TimesMonotone
    <2>2. (c * P) * q = (q * c) * P /\ v * q = q * v /\ P * n = n * P
      OBVIOUS
    <2>3. n * P < (q * c + 1) * P
      BY <1>6, <2>1, <2>2
    <2>4. n < q * c + 1
      <3>1. q * c + 1 <= n => (q * c + 1) * P <= n * P
        BY TimesMonotone
      <3>2. q * c + 1 \in Int /\ (q * c + 1) * P \in Int /\ n * P \in Int
        OBVIOUS
      <3> QED
        BY <2>3, <3>1, <3>2
    <2> QED
      BY <2>4
  <1>8. q * (c - 1) <= n
    <2>1. ((c - 1) * P) * q <= v * q
      BY <1>5, TimesMonotone
    <2>2. ((c - 1) * P) * q = (q * (c - 1)) * P /\ v * q = q * v /\ P * n + P = (n + 1) * P
      OBVIOUS
    <2>3. (q * (c - 1)) * P < (n + 1) * P
      BY <1>6, <2>1, <2>2
    <2>4. q * (c - 1) < n + 1
      <3>1. n + 1 <= q * (c - 1) => (n + 1) * P <= (q * (c - 1)) * P
        BY TimesMonotone
      <3>2. q * (c - 1) \in Int /\ (n + 1) * P \in Int /\ (q * (c - 1)) * P \in Int
        OBVIOUS
      <3> QED
        BY <2>3, <3>1, <3>2
    <2> QED
      BY <2>4
  <1>9. PICK N \in Nat : N = UpTo(n, q) /\ n <= q * N /\ q * N <= n + q - 1
    BY UpToIsLeast
  <1>10. N <= c
    <2>1. c + 1 <= N => (c + 1) * q <= N * q
      BY TimesMonotone
    <2>2. (c + 1) * q = q * c + q /\ N * q = q * N
      OBVIOUS
    <2> QED
      BY <1>7, <1>9, <2>1, <2>2
  <1>11. c - 1 <= N
    <2>1. (c - 1) * q <= N * q
      BY <1>8, <1>9
    <2> QED
      BY <2>1, Cancels
  <1> QED
    BY <1>2, <1>4, <1>9, <1>10, <1>11

\* Of sums, the inaccuracies add up, and rounding the sum adds little.
LEMMA SumIsClose ==
  ASSUME NEW c, NEW x \in Nat, NEW D \in Nat, Near(c, x, D),
         NEW d, NEW z \in Nat, NEW e \in Nat, Near(d, z, e),
         NEW G \in Nat, D + e <= Scale, x + z + 1 <= G
  PROVE  Near(Plus(c, d), x + z, D + e + 5 * G)
  <1>0. InRange(c) /\ InRange(d)
    BY DEF Near
  <1>1. InRange(Plus(c, d)) /\ RoundsTo(Scaled(Plus(c, d)), Scaled(c) + Scaled(d))
    BY <1>0, PlusIsClose
  <1>2. PICK P \in Nat \ {0}, q \in Nat, u \in Nat, v \in Nat, r \in Nat :
          P = Scale /\ q = PerHour /\ u = Scaled(c) /\ v = Scaled(d) /\ r = Scaled(Plus(c, d))
    <2>1. Scale \in Nat \ {0} /\ PerHour \in Nat
      BY ScaleIsNatural, PayslipsAssumption
    <2>2. Scaled(c) \in Nat /\ Scaled(d) \in Nat /\ Scaled(Plus(c, d)) \in Nat
      BY <1>0, <1>1, ScaleIsNatural
    <2> QED
      BY <2>1, <2>2
  <1>3. PICK a \in Nat, y \in Nat, t \in Nat : a = q * (u + v) /\ y = q * r /\ t = P * (x + z)
    OBVIOUS
  <1>4. a <= t + (D + e) /\ t <= a + (D + e)
    <2>1. a = q * u + q * v /\ t = P * x + P * z
      BY <1>3
    <2>2. PICK qu \in Nat, qv \in Nat, Px \in Nat, Pz \in Nat :
            qu = q * u /\ qv = q * v /\ Px = P * x /\ Pz = P * z
      OBVIOUS
    <2>3. qu <= Px + D /\ Px <= qu + D /\ qv <= Pz + e /\ Pz <= qv + e
      BY <1>2, <2>2 DEF Near
    <2> QED
      BY <2>1, <2>2, <2>3
  <1>5. a <= P * G
    <2>1. (x + z + 1) * P <= G * P
      BY TimesMonotone
    <2>2. (x + z + 1) * P = t + P /\ G * P = P * G
      BY <1>3
    <2> QED
      BY <1>2, <1>4, <2>1, <2>2
  <1>6. P * y <= P * a + 5 * a /\ P * a <= P * y + 5 * a
    <2>1. PICK m \in Nat : m = u + v
      OBVIOUS
    <2>2. P * r <= P * m + 5 * m /\ P * m <= P * r + 5 * m
      BY <1>1, <1>2, <2>1 DEF RoundsTo
    <2>3. (P * r) * q <= (P * m + 5 * m) * q /\ (P * m) * q <= (P * r + 5 * m) * q
      BY <2>2, TimesMonotone
    <2>4. (P * r) * q = P * y /\ (P * m) * q = P * a /\ m * q = a
      BY <1>3, <2>1
    <2>5. /\ (P * m + 5 * m) * q = (P * m) * q + 5 * (m * q)
          /\ (P * r + 5 * m) * q = (P * r) * q + 5 * (m * q)
      OBVIOUS
    <2> QED
      BY <2>3, <2>4, <2>5
  <1>7. y <= a + 5 * G /\ a <= y + 5 * G
    <2>1. /\ (a + 5 * G) * P = P * a + 5 * (P * G) /\ (y + 5 * G) * P = P * y + 5 * (P * G)
          /\ y * P = P * y /\ a * P = P * a
      OBVIOUS
    <2>2. PICK Py \in Nat, Pa \in Nat, PG \in Nat : Py = P * y /\ Pa = P * a /\ PG = P * G
      OBVIOUS
    <2>3. Py <= Pa + 5 * PG /\ Pa <= Py + 5 * PG
      BY <1>5, <1>6, <2>2
    <2>4. y * P <= (a + 5 * G) * P /\ a * P <= (y + 5 * G) * P
      BY <2>1, <2>2, <2>3
    <2> QED
      BY <2>4, Cancels
  <1>8. y <= t + (D + e + 5 * G) /\ t <= y + (D + e + 5 * G)
    BY <1>4, <1>7
  <1> QED
    BY <1>1, <1>2, <1>3, <1>8 DEF Near

RatedPrecisely(rated) ==
  \E n \in Nat \ {0} :
    Len(rated) <= n /\ \A i \in DOMAIN rated : Precise(n, rated[i].units, rated[i].wage)

\* A share of what may be lost, for each of n segments.
LEMMA ShareExists ==
  ASSUME NEW n \in Nat \ {0}, NEW P \in Nat \ {0}
  PROVE  \E G \in Nat : 20 * (n * G) < P /\ \A k \in Nat : 20 * (n * k) < P => k <= G
  <1>1. PICK b \in Nat \ {0} : b = 20 * n
    OBVIOUS
  <1>2. PICK p \in Nat : p = P - 1
    OBVIOUS
  <1>3. PICK G \in Nat : b * G <= p /\ p < b * G + b
    <2>1. p \div b \in Nat /\ b * (p \div b) <= p /\ p < b * (p \div b) + b
      OBVIOUS
    <2> QED
      BY <2>1
  <1>4. ASSUME NEW k \in Nat, 20 * (n * k) < P PROVE k <= G
    <2>1. 20 * (n * k) = k * b
      BY <1>1
    <2>2. k * b <= p
      BY <1>2, <1>4, <2>1
    <2>3. ASSUME G + 1 <= k PROVE FALSE
      <3>1. (G + 1) * b <= k * b
        BY <2>3, TimesMonotone
      <3>2. (G + 1) * b = b * G + b
        OBVIOUS
      <3>3. PICK x \in Nat, y \in Nat : x = k * b /\ y = b * G
        OBVIOUS
      <3> QED
        BY <1>3, <2>2, <3>1, <3>2, <3>3
    <2> QED
      BY <2>3
  <1>5. 20 * (n * G) = b * G
    BY <1>1
  <1>6. 20 * (n * G) < P
    <2>1. PICK y \in Nat : y = b * G
      OBVIOUS
    <2> QED
      BY <1>2, <1>3, <1>5, <2>1
  <1> QED
    BY <1>4, <1>6

\* The first i of n segments use no more than their shares, nor does one more.
InShares(n, G, i, x) == n * x <= i * (G - 1)
InShare(n, G, y, pay) == n * y + pay + 1 <= G
Lost(G, i) == 20 * (i * G)

LEMMA ShareSuffices ==
  ASSUME NEW n \in Nat \ {0}, NEW G \in Nat, NEW j \in Nat, j + 1 <= n,
         NEW x \in Nat, NEW y \in Nat, NEW pay \in Nat,
         InShares(n, G, j, x), InShare(n, G, y, pay)
  PROVE  /\ Lost(G, j) + (pay + 15 * y) + 5 * G <= Lost(G, j + 1) /\ Lost(G, j) \in Nat
         /\ InShares(n, G, j + 1, x + y) /\ x + y + 1 <= G
  <1>0. n * y + pay + 1 <= G /\ n * x <= j * (G - 1)
    BY DEF InShare, InShares
  <1>1. PICK g \in Nat, i \in Nat : g = G - 1 /\ i = j + 1
    <2>1. PICK ny \in Nat : ny = n * y
      BY ProductsOfNaturals
    <2>2. G >= 1
      BY <1>0, <2>1
    <2> QED
      BY <2>2
  <1>2. i * G = j * G + G /\ i * g = j * g + g
    BY <1>1
  <1>3. PICK ny \in Nat, jG \in Nat, nx \in Nat, jg \in Nat :
          ny = n * y /\ jG = j * G /\ nx = n * x /\ jg = j * g
    BY ProductsOfNaturals
  <1>4. ny + pay + 1 <= G /\ nx <= jg
    BY <1>0, <1>1, <1>3
  <1>5. y <= ny
    <2>1. 1 * y <= n * y
      BY TimesMonotone
    <2> QED
      BY <1>3, <2>1
  <1>6. pay + 15 * y <= 15 * G
    BY <1>4, <1>5
  <1>7. n * (x + y) = nx + ny
    BY <1>3
  <1>8. n * (x + y) <= i * g
    BY <1>1, <1>2, <1>3, <1>4, <1>7
  <1>9. x + y <= g
    <2>1. i * g <= n * g
      BY <1>1, TimesMonotone
    <2>2. PICK a \in Nat, b \in Nat, c \in Nat, d \in Nat :
            a = n * (x + y) /\ b = i * g /\ c = n * g /\ d = x + y
      BY <1>7
    <2>3. a <= c
      BY <1>8, <2>1, <2>2
    <2>4. d * n <= g * n
      BY <2>2, <2>3
    <2> QED
      BY <2>2, <2>4, Cancels
  <1>10. InShares(n, G, i, x + y) /\ x + y + 1 <= G
    BY <1>1, <1>8, <1>9 DEF InShares
  <1>11. Lost(G, j) = 20 * jG /\ Lost(G, i) = 20 * (jG + G)
    BY <1>2, <1>3 DEF Lost
  <1> QED
    BY <1>1, <1>6, <1>10, <1>11

LEMMA LostAtMost ==
  ASSUME NEW n \in Nat, NEW G \in Nat, NEW i \in Nat, i <= n
  PROVE  Lost(G, i) \in Nat /\ Lost(G, i) <= Lost(G, n)
  <1>1. i * G <= n * G
    BY TimesMonotone
  <1>2. PICK iG \in Nat, nG \in Nat : iG = i * G /\ nG = n * G
    BY ProductsOfNaturals
  <1> QED
    BY <1>1, <1>2 DEF Lost

LEMMA NearStays ==
  ASSUME NEW d, NEW x \in Nat, NEW e \in Nat, Near(d, x, e), NEW f \in Nat, e <= f
  PROVE  Near(d, x, f)
  <1>1. PICK a \in Nat, b \in Nat : a = PerHour * Scaled(d) /\ b = Scale * x
    <2>1. PerHour \in Nat /\ Scale \in Nat /\ Scaled(d) \in Nat
      BY ScaleIsNatural, PayslipsAssumption DEF Near
    <2> QED
      BY <2>1, ProductsOfNaturals
  <1>2. a <= b + e /\ b <= a + e
    BY <1>1 DEF Near
  <1>3. a <= b + f /\ b <= a + f
    BY <1>2
  <1> QED
    BY <1>1, <1>3 DEF Near

\* Base pay is the exact pay rounded up, or a won more.
LEMMA PayIsClose ==
  ASSUME NEW t \in Seq(Ratings), RatedPrecisely(t)
  PROVE  BasePay(t, PerHour) \in ExactPay(t)..(ExactPay(t) + 1)
  <1>0. PICK n \in Nat \ {0} :
          Len(t) <= n /\ \A i \in DOMAIN t : Precise(n, t[i].units, t[i].wage)
    BY DEF RatedPrecisely
  <1>1. PICK l \in Nat : l = Len(t) /\ l <= n
    BY <1>0
  <1>2. PICK f \in [0..l -> Decimals] :
          /\ f[0] = Whole(0) /\ \A i \in 1..l : f[i] = Plus(f[i - 1], Subtotal(t[i], PerHour))
          /\ BasePay(t, PerHour) = CeilWon(f[l])
    BY <1>1, RunningPay
  <1>3. PICK z \in Seq(Int) :
          z = [i \in DOMAIN t |-> t[i].units * t[i].wage] /\ Len(z) = l
    <2>1. ASSUME NEW i \in 1..l PROVE t[i].units * t[i].wage \in Int
      <3>1. t[i] \in Ratings
        BY <1>1
      <3>2. t[i].units \in Nat /\ t[i].wage \in Nat
        BY <3>1 DEF Ratings, Units
      <3> QED
        BY <3>2
    <2> DEFINE s == [i \in 1..l |-> t[i].units * t[i].wage]
    <2>2. s \in [1..l -> Int]
      BY <2>1
    <2>3. DOMAIN t = 1..l
      BY <1>1
    <2>4. s = [i \in DOMAIN t |-> t[i].units * t[i].wage]
      BY <2>3
    <2> HIDE DEF s
    <2>5. s \in Seq(Int) /\ Len(s) = l
      BY <2>2
    <2> QED
      BY <2>4, <2>5
  <1>4. PICK g \in [0..l -> Int] :
          g[0] = 0 /\ (\A i \in 1..l : g[i] = g[i - 1] + z[i]) /\ Total(z) = g[l]
    BY <1>3, RunningTotal
  <1>5. ExactPay(t) = UpTo(g[l], PerHour)
    BY <1>3, <1>4 DEF ExactPay
  <1>6. PICK P \in Nat \ {0}, q \in Nat \ {0} : P = Scale /\ q = PerHour
    BY ScaleIsNatural, PayslipsAssumption
  <1>7. PICK G \in Nat : 20 * (n * G) < P /\ \A k \in Nat : 20 * (n * k) < P => k <= G
    BY ShareExists
  <1>8. ASSUME NEW i \in 1..l
        PROVE  /\ t[i] \in Ratings /\ z[i] \in Nat /\ z[i] = t[i].units * t[i].wage
               /\ t[i].wage \in Nat /\ q * t[i].wage \in Nat
               /\ InShare(n, G, z[i], q * t[i].wage)
    <2>1. t[i] \in Ratings /\ i \in DOMAIN t
      BY <1>1
    <2>2. PICK u \in Nat, w \in Nat : u = t[i].units /\ w = t[i].wage
      BY <2>1 DEF Ratings, Units
    <2>3. PICK y \in Nat, ny \in Nat, pay \in Nat : y = u * w /\ ny = n * y /\ pay = q * w
      BY ProductsOfNaturals
    <2>4. z[i] = y
      BY <1>3, <2>1, <2>2, <2>3
    <2>5. 20 * n * (n * u * w + q * w + 1) < P
      BY <1>0, <1>6, <2>1, <2>2 DEF Precise, Scale
    <2>6. n * u * w = ny
      BY <2>3
    <2>7. PICK k \in Nat : k = ny + pay + 1
      OBVIOUS
    <2>8. 20 * n * k < P
      BY <2>3, <2>5, <2>6, <2>7
    <2>9. k <= G
      <3>1. 20 * n * k = 20 * (n * k)
        OBVIOUS
      <3> QED
        BY <1>7, <2>8, <3>1
    <2> QED
      BY <2>1, <2>2, <2>3, <2>4, <2>7, <2>9 DEF InShare
  <1> DEFINE Fit(i) == g[i] \in Nat /\ InShares(n, G, i, g[i]) /\ Near(f[i], g[i], Lost(G, i))
             Fits == {i \in Nat : i <= l => Fit(i)}
  <1>9. Fit(0)
    <2>1. f[0] = [coef |-> 0, digits |-> 0] /\ Precision \in Nat
      BY <1>2, ScaleIsNatural DEF Whole, Decimal
    <2>2. InRange(f[0])
      BY <2>1 DEF InRange, Decimals
    <2>3. Scaled(f[0]) = 0
      <3>1. Pow10[Precision - 0] \in Nat
        BY <2>1, PowerOfTen
      <3> QED
        BY <2>1, <3>1 DEF Scaled
    <2>4. Near(f[0], 0, Lost(G, 0))
      BY <1>6, <2>2, <2>3 DEF Near, Lost
    <2>5. InShares(n, G, 0, 0)
      BY DEF InShares
    <2> QED
      BY <1>4, <2>4, <2>5
  <1>10. ASSUME NEW j \in Nat, Fit(j), j + 1 <= l PROVE Fit(j + 1)
    <2>1. g[j] \in Nat /\ InShares(n, G, j, g[j]) /\ Near(f[j], g[j], Lost(G, j))
      BY <1>10
    <2>2. j + 1 \in 1..l /\ (j + 1) - 1 = j /\ j + 1 <= n
      BY <1>1, <1>10
    <2> HIDE DEF Fit, Fits
    <2>3. PICK x \in Nat, y \in Nat, pay \in Nat, e \in Nat, D \in Nat :
            /\ x = g[j] /\ y = z[j + 1] /\ pay = q * t[j + 1].wage /\ e = pay + 15 * y
            /\ D = Lost(G, j)
      <3>1. Lost(G, j) \in Nat
        <4>1. j <= n
          BY <2>2
        <4> QED
          BY <4>1, LostAtMost
      <3>2. g[j] \in Nat /\ z[j + 1] \in Nat /\ q * t[j + 1].wage \in Nat
        BY <1>8, <2>1, <2>2
      <3>3. \A a, b \in Nat : a + 15 * b \in Nat
        OBVIOUS
      <3> QED
        BY <3>1, <3>2, <3>3
    <2>4. PICK d : d = Subtotal(t[j + 1], PerHour)
      OBVIOUS
    <2>5. Near(d, y, e)
      BY <1>6, <1>8, <2>2, <2>3, <2>4, SubtotalIsClose
    <2>6. f[j + 1] = Plus(f[j], d) /\ g[j + 1] = x + y
      BY <1>2, <1>4, <2>2, <2>3, <2>4
    <2>7. InShare(n, G, y, pay)
      BY <1>8, <2>2, <2>3
    <2>8. D + e + 5 * G <= Lost(G, j + 1) /\ InShares(n, G, j + 1, x + y) /\ x + y + 1 <= G
      BY <2>1, <2>2, <2>3, <2>7, ShareSuffices
    <2>9. PICK L \in Nat, M \in Nat : L = Lost(G, j + 1) /\ M = Lost(G, n) /\ L <= M /\ M < P
      <3>1. j + 1 \in Nat
        OBVIOUS
      <3> QED
        BY <1>7, <2>2, <3>1, LostAtMost DEF Lost
    <2>10. D + e <= Scale
      BY <1>6, <2>8, <2>9
    <2>11. Near(Plus(f[j], d), x + y, D + e + 5 * G)
      BY <2>1, <2>3, <2>5, <2>8, <2>10, SumIsClose
    <2>12. D + e + 5 * G \in Nat /\ x + y \in Nat
      OBVIOUS
    <2>13. Near(Plus(f[j], d), x + y, L)
      BY <2>8, <2>9, <2>11, <2>12, NearStays
    <2> QED
      BY <2>6, <2>8, <2>9, <2>12, <2>13 DEF Fit
  <1> HIDE DEF Fit
  <1>11. ASSUME NEW j \in Nat, j \in Fits PROVE j + 1 \in Fits
    <2> SUFFICES ASSUME j + 1 <= l PROVE Fit(j + 1)
      OBVIOUS
    <2>1. Fit(j)
      BY <1>11
    <2> QED
      BY <2>1, <1>10
  <1>12. 0 \in Fits
    BY <1>9
  <1> HIDE DEF Fits
  <1>13. l \in Fits
    BY <1>11, <1>12, CountedUp
  <1>14. Fit(l)
    BY <1>13 DEF Fits
  <1>15. g[l] \in Nat /\ Near(f[l], g[l], Lost(G, l))
    BY <1>14 DEF Fit
  <1>16. PICK L \in Nat, M \in Nat : L = Lost(G, l) /\ M = Lost(G, n) /\ L <= M /\ M < P
    <2>1. Lost(G, l) \in Nat /\ Lost(G, l) <= Lost(G, n) /\ Lost(G, n) \in Nat
      <3>1. l <= n /\ n <= n /\ n \in Nat
        BY <1>1
      <3>2. Lost(G, l) \in Nat /\ Lost(G, l) <= Lost(G, n)
        BY <3>1, LostAtMost
      <3>3. Lost(G, n) \in Nat
        BY <3>1, LostAtMost
      <3> QED
        BY <3>2, <3>3
    <2>2. Lost(G, n) < P
      BY <1>7 DEF Lost
    <2> QED
      BY <2>1, <2>2
  <1>17. L < Scale
    BY <1>6, <1>16
  <1> QED
    BY <1>2, <1>5, <1>15, <1>16, <1>17, CeilWonIsNear

-----------------------------------------------------------------------------
(* Payslips: the amounts *)

AmountsFit(line) ==
  /\ line.earnings \in Seq(Int) /\ line.deductions \in Seq(Int)
  /\ line.net = Total(line.earnings) - Total(line.deductions)

\* Net pay is that of the items, and, once checked, not negative.
NetsFit(payload) ==
  /\ IsSeq(payload)
  /\ \A i \in DOMAIN payload : AmountsFit(payload[i])
NetsPaid(payload) == NetsFit(payload) /\ \A i \in DOMAIN payload : payload[i].net >= 0

WagesFit ==
  /\ wages = [e \in Codes |-> wages[e]]
  /\ \A e \in Codes : wages[e] \subseteq [from : Int, to : Int, wage : Nat]
RatingsFit ==
  /\ build.pc \in {"employee", "segment"} =>
       \A line \in ToSet(build.lines) : line.rated \in Seq(Ratings)
  /\ build.pc = "segment" => build.line.rated \in Seq(Ratings)
PayloadNets ==
  /\ build.pc = "check" => NetsFit(build.payload)
  /\ build.pc = "close" => NetsPaid(build.payload)
SnapshotNets ==
  /\ \A k \in DOMAIN snapshots : snapshots[k].version = k /\ NetsPaid(snapshots[k].payload)
  /\ closed => snapshots # <<>>
\* What was downloaded is the archive of one snapshot, and that remains.
ArchiveFits ==
  archive # None =>
    \E k \in DOMAIN snapshots :
      archive = Archive(snapshots[k]) /\ Exportable(snapshots[k])

AmountsInv == WagesFit /\ RatingsFit /\ PayloadNets /\ SnapshotNets /\ ArchiveFits

LEMMA AmountsInvAtFirst == PayslipsInit => AmountsInv
  <1> SUFFICES ASSUME PayslipsInit PROVE AmountsInv
    OBVIOUS
  <1>1. WagesFit
    <2>1. \A e \in Codes : EmployeeFits(Employee(e))
      BY PayslipsAssumption DEF PayslipsInit, StoreFits, Codes, Employee
    <2>2. wages = [e \in Codes |-> Employee(e).wages]
      BY DEF PayslipsInit
    <2> QED
      BY <2>1, <2>2 DEF WagesFit, EmployeeFits
  <1>2. RatingsFit /\ PayloadNets /\ SnapshotNets /\ ArchiveFits
    BY DEF PayslipsInit, RatingsFit, PayloadNets, SnapshotNets, ArchiveFits, Done
  <1> QED
    BY <1>1, <1>2 DEF AmountsInv

LEMMA WageOnFits ==
  ASSUME NEW rows, rows \subseteq [from : Int, to : Int, wage : Nat], NEW day
  PROVE  WageOn(rows, day) = None \/ WageOn(rows, day) \in Nat
  <1>1. CASE RowOn(rows, day) = {}
    BY <1>1 DEF WageOn
  <1>2. CASE RowOn(rows, day) # {}
    <2>1. (CHOOSE r \in RowOn(rows, day) : TRUE) \in RowOn(rows, day)
      BY <1>2
    <2>2. (CHOOSE r \in RowOn(rows, day) : TRUE) \in rows
      BY <2>1 DEF RowOn
    <2> QED
      BY <1>2, <2>2 DEF WageOn
  <1> QED
    BY <1>1, <1>2

\* A row that a manager sets has a wage like the others.
LEMMA WithWageFits ==
  ASSUME NEW rows, rows \subseteq [from : Int, to : Int, wage : Nat], NEW amount \in Amounts
  PROVE  WithWage(rows, amount) \subseteq [from : Int, to : Int, wage : Nat]
  <1>1. amount \in Nat /\ NoEnd \in Int /\ 1 \in Int
    BY PayslipsAssumption
  <1>2. CASE RowOn(rows, 1) = {}
    BY <1>1, <1>2 DEF WithWage
  <1>3. CASE RowOn(rows, 1) # {}
    <2>1. PICK r : r = CHOOSE q \in RowOn(rows, 1) : TRUE
      OBVIOUS
    <2>2. r \in RowOn(rows, 1)
      BY <1>3, <2>1
    <2>3. r \in [from : Int, to : Int, wage : Nat]
      BY <2>2 DEF RowOn
    <2>4. /\ [r EXCEPT !.from = 1, !.wage = amount] \in [from : Int, to : Int, wage : Nat]
          /\ [r EXCEPT !.to = 1] \in [from : Int, to : Int, wage : Nat]
      BY <1>1, <2>3
    <2>5. WithWage(rows, amount) =
            (rows \ RowOn(rows, 1)) \cup {[r EXCEPT !.from = 1, !.wage = amount]}
              \cup (IF r.from = 1 THEN {} ELSE {[r EXCEPT !.to = 1]})
      BY <1>3, <2>1 DEF WithWage
    <2> QED
      BY <2>4, <2>5
  <1> QED
    BY <1>2, <1>3

LEMMA StaffWages ==
  ASSUME AmountsInv
  PROVE  \A e \in Codes : \A day : WageOn(wages[e], day) = None \/ WageOn(wages[e], day) \in Nat
  BY WageOnFits DEF AmountsInv, WagesFit

LEMMA WagesKept == ASSUME AmountsInv, UNCHANGED <<store, wages>> PROVE WagesFit'
  BY DEF AmountsInv, WagesFit, Codes

LEMMA StoredKept ==
  ASSUME AmountsInv, UNCHANGED <<snapshots, closed, archive>> PROVE SnapshotNets' /\ ArchiveFits'
  BY DEF AmountsInv, SnapshotNets, ArchiveFits

LEMMA BuildNetsKept ==
  ASSUME AmountsInv, UNCHANGED build PROVE RatingsFit' /\ PayloadNets'
  BY DEF AmountsInv, RatingsFit, PayloadNets

LEMMA GivenUpFits == ASSUME build' = Done PROVE RatingsFit' /\ PayloadNets'
  BY DEF RatingsFit, PayloadNets, Done

LEMMA DownloadFits == ASSUME PayInv, AmountsInv, Download PROVE AmountsInv'
  <1>1. /\ UNCHANGED <<store, wages, build, closed, snapshots>>
        /\ closed /\ Exportable(Last(snapshots)) /\ archive' = Archive(Last(snapshots))
    BY DEF Download
  <1>2. PICK k \in DOMAIN snapshots : Last(snapshots) = snapshots[k]
    <2>1. PICK S : snapshots \in Seq(S)
      BY DEF PayInv, SnapshotsFit, IsSeq
    <2>2. snapshots # <<>>
      BY <1>1 DEF AmountsInv, SnapshotNets
    <2>3. Len(snapshots) \in DOMAIN snapshots
      BY <2>1, <2>2
    <2> QED
      BY <2>3 DEF Last
  <1>3. ArchiveFits'
    BY <1>1, <1>2 DEF ArchiveFits
  <1>4. SnapshotNets'
    BY <1>1 DEF AmountsInv, SnapshotNets
  <1> QED
    BY <1>1, <1>3, <1>4, WagesKept, BuildNetsKept DEF AmountsInv

LEMMA OutsideFits ==
  ASSUME AmountsInv, \/ Tick \/ Reopen \/ PremiumStep \/ UNCHANGED payslipsVars
  PROVE  AmountsInv'
  <1>1. UNCHANGED <<store, wages, build, snapshots, archive>>
    BY DEF Tick, Reopen, PremiumStep, payslipsVars
  <1>2. closed' = closed \/ closed' = FALSE
    BY DEF Tick, Reopen, PremiumStep, payslipsVars
  <1>3. SnapshotNets' /\ ArchiveFits'
    BY <1>1, <1>2 DEF AmountsInv, SnapshotNets, ArchiveFits
  <1> QED
    BY <1>1, <1>3, WagesKept, BuildNetsKept DEF AmountsInv

LEMMA SetHourlyWageFits ==
  ASSUME PayInv, AmountsInv, NEW e \in Codes, NEW amount \in Amounts, SetHourlyWage(e, amount)
  PROVE  AmountsInv'
  <1>1. /\ UNCHANGED <<store, snapshots, closed, archive>>
        /\ wages' = [wages EXCEPT ![e] = WithWage(wages[e], amount)]
        /\ build' = IF build = Done THEN build ELSE [build EXCEPT !.seen = @ \cup {wages'}]
    BY DEF SetHourlyWage
  <1>2. WagesFit'
    <2>1. PICK rows : rows = WithWage(wages[e], amount)
      OBVIOUS
    <2>2. rows \subseteq [from : Int, to : Int, wage : Nat]
      BY <2>1, WithWageFits DEF AmountsInv, WagesFit
    <2>3. wages' = [wages EXCEPT ![e] = rows] /\ Codes' = Codes
      BY <1>1, <2>1 DEF Codes
    <2> QED
      BY <2>2, <2>3 DEF AmountsInv, WagesFit
  <1>3. RatingsFit' /\ PayloadNets'
    <2>1. CASE build' = build
      BY <2>1, BuildNetsKept
    <2>2. CASE build # Done
      <3>1. PICK seen : build' = [build EXCEPT !.seen = seen]
        BY <1>1, <2>2
      <3>2. /\ build'.pc = build.pc
            /\ build.pc \in {"employee", "segment"} => build'.lines = build.lines
            /\ build.pc = "segment" => build'.line = build.line
            /\ build.pc \in {"check", "close"} => build'.payload = build.payload
        BY <3>1, <2>2 DEF PayInv, BuildFits, Shape
      <3> QED
        BY <3>2 DEF AmountsInv, RatingsFit, PayloadNets
    <2> QED
      BY <1>1, <2>1, <2>2
  <1> QED
    BY <1>1, <1>2, <1>3, StoredKept DEF AmountsInv

LEMMA StartFits ==
  ASSUME AmountsInv, ListEmployees \/ ReadWageAtStart PROVE AmountsInv'
  <1>1. UNCHANGED <<store, wages, closed, snapshots, archive>>
    BY DEF ListEmployees, ReadWageAtStart, BuildOnly
  <1>2. RatingsFit' /\ PayloadNets'
    <2>0. <<>> \in Seq(Ratings)
      OBVIOUS
    <2>1. CASE ListEmployees
      <3>1. build'.pc = "employee" /\ build'.lines = <<>>
        BY <2>1 DEF ListEmployees
      <3> QED
        BY <3>1 DEF RatingsFit, PayloadNets, ToSet
    <2>2. CASE ReadWageAtStart
      <3>1. /\ build.pc = "employee" /\ build'.pc = "segment" /\ build'.lines = build.lines
            /\ build'.line.rated = <<>>
        BY <2>2 DEF ReadWageAtStart
      <3> QED
        BY <2>0, <3>1 DEF AmountsInv, RatingsFit, PayloadNets
    <2> QED
      BY <2>1, <2>2
  <1> QED
    BY <1>1, <1>2, WagesKept, StoredKept DEF AmountsInv

LEMMA RateSegmentFits == ASSUME PayInv, AmountsInv, RateSegment PROVE AmountsInv'
  <1> DEFINE e == build.line.employee
             n == build.next
             segment == Employee(e).work[n]
             paid == WageOn(wages[e], segment.day)
             old == build.line
  <1>1. PICK line :
          line = IF InMonth(e, n) THEN Rated(build.line, Employee(e).work[n]) ELSE build.line
    OBVIOUS
  <1>2. /\ build.pc = "segment" /\ n \in DOMAIN Employee(e).work
        /\ UNCHANGED <<store, wages, closed, snapshots, archive>>
    BY DEF RateSegment, BuildOnly
  <1>3. build'.pc = "segment" /\ build'.lines = build.lines /\ build'.line = line
    BY <1>1, RateSegmentStep
  <1>4. /\ build.line = [employee |-> old.employee, rated |-> old.rated, blockers |-> old.blockers]
        /\ e \in Codes /\ build.line.rated \in Seq(Ratings)
    BY <1>2 DEF PayInv, BuildFits, Shape, LineFits, AmountsInv, RatingsFit, Done
  <1>5. segment.units \in Units
    <2>1. PICK work \in Seq([day : Int, units : Units]) : work = Employee(e).work
      BY <1>4, WorkOf
    <2>2. work[n] \in [day : Int, units : Units]
      BY <1>2, <2>1, ElementOf
    <2> QED
      BY <2>1, <2>2
  <1>6. line.rated \in Seq(Ratings)
    <2>1. CASE line = build.line
      BY <2>1, <1>4
    <2>2. CASE line = Rated(build.line, Employee(e).work[n])
      <3>1. paid = None \/ paid \in Nat
        BY <1>2, <1>4, StaffWages
      <3>2. CASE paid = None
        BY <1>4, <2>2, <3>2 DEF Rated
      <3>3. CASE paid # None
        <4>1. PICK new : new = [units |-> segment.units, wage |-> paid]
          OBVIOUS
        <4>2. new \in Ratings
          BY <1>5, <3>1, <3>3, <4>1 DEF Ratings
        <4>3. line = [old EXCEPT !.rated = Append(old.rated, new)]
          BY <2>2, <3>3, <4>1 DEF Rated
        <4>4. line.rated = Append(old.rated, new)
          BY <1>4, <4>3
        <4> QED
          BY <1>4, <4>2, <4>4
      <3> QED
        BY <3>2, <3>3
    <2> QED
      BY <1>1, <2>1, <2>2
  <1>7. RatingsFit' /\ PayloadNets'
    BY <1>2, <1>3, <1>6 DEF AmountsInv, RatingsFit, PayloadNets
  <1> QED
    BY <1>2, <1>7, WagesKept, StoredKept DEF AmountsInv

LEMMA FinishLineFits == ASSUME PayInv, AmountsInv, FinishLine PROVE AmountsInv'
  <1>1. /\ build.pc = "segment" /\ build'.pc = "employee"
        /\ build'.lines = Append(build.lines, build.line)
        /\ UNCHANGED <<store, wages, closed, snapshots, archive>>
    BY DEF FinishLine, BuildOnly
  <1>2. IsSeq(build.lines)
    BY <1>1 DEF PayInv, BuildFits, Shape, Done
  <1>3. ToSet(build'.lines) = ToSet(build.lines) \cup {build.line}
    BY <1>1, <1>2, Appended
  <1>4. RatingsFit' /\ PayloadNets'
    BY <1>1, <1>3 DEF AmountsInv, RatingsFit, PayloadNets
  <1> QED
    BY <1>1, <1>4, WagesKept, StoredKept DEF AmountsInv

\* Another sequence, element by element.
LEMMA Mapped ==
  ASSUME NEW t, IsSeq(t), NEW f, f = [i \in DOMAIN t |-> f[i]]
  PROVE  IsSeq(f) /\ Len(f) = Len(t) /\ DOMAIN f = DOMAIN t
  <1>1. PICK S : t \in Seq(S)
    BY DEF IsSeq
  <1>2. PICK l \in Nat : l = Len(t) /\ DOMAIN t = 1..l
    BY <1>1
  <1>3. PICK T : \A i \in 1..l : f[i] \in T
    <2>1. \A i \in 1..l : f[i] \in {f[k] : k \in 1..l}
      OBVIOUS
    <2> QED
      BY <2>1
  <1>4. f \in [1..l -> T]
    BY <1>2, <1>3
  <1>5. f \in Seq(T) /\ Len(f) = l
    BY <1>4
  <1> QED
    BY <1>2, <1>4, <1>5 DEF IsSeq

LEMMA MappedTo ==
  ASSUME NEW t, IsSeq(t), NEW S, NEW f \in [DOMAIN t -> S]
  PROVE  f \in Seq(S)
  <1>1. PICK T : t \in Seq(T)
    BY DEF IsSeq
  <1>2. PICK l \in Nat : DOMAIN t = 1..l
    BY <1>1
  <1> QED
    BY <1>2

LEMMA PayLineFits ==
  ASSUME NEW line, line.rated \in Seq(Ratings) PROVE AmountsFit(PayLine(line))
  <1>1. PICK gross \in Int : gross = BasePay(line.rated, PerHour)
    BY BasePayIsAmount
  <1>2. /\ PayLine(line).net = gross /\ PayLine(line).earnings = <<gross>>
        /\ PayLine(line).deductions = <<>>
    BY <1>1 DEF PayLine
  <1>3. Total(<<gross>>) = gross /\ Total(<<>>) = 0 /\ gross - 0 = gross
    BY TotalOfOne, TotalOfNone
  <1>4. <<gross>> \in Seq(Int) /\ <<>> \in Seq(Int)
    OBVIOUS
  <1> QED
    BY <1>2, <1>3, <1>4 DEF AmountsFit

LEMMA BuildMonthPayloadFits ==
  ASSUME PayInv, AmountsInv, BuildMonthPayload PROVE AmountsInv'
  <1>1. build.pc = "employee" /\ UNCHANGED <<store, wages, closed, snapshots, archive>>
    BY DEF BuildMonthPayload, BuildOnly
  <1>2. PICK payload : payload = [i \in DOMAIN build.lines |-> PayLine(build.lines[i])]
    OBVIOUS
  <1>3. NetsFit(payload)
    <2>1. IsSeq(build.lines)
      BY <1>1 DEF PayInv, BuildFits, Shape, Done
    <2>2. IsSeq(payload) /\ DOMAIN payload = DOMAIN build.lines
      BY <1>2, <2>1, Mapped
    <2>3. ASSUME NEW i \in DOMAIN payload PROVE AmountsFit(payload[i])
      <3>1. build.lines[i].rated \in Seq(Ratings)
        BY <1>1, <2>2 DEF AmountsInv, RatingsFit, ToSet
      <3>2. payload[i] = PayLine(build.lines[i])
        BY <1>2
      <3> QED
        BY <3>1, <3>2, PayLineFits
    <2> QED
      BY <2>2, <2>3 DEF NetsFit
  <1>4. RatingsFit' /\ PayloadNets'
    <2>1. CASE build' = Done
      BY <2>1, GivenUpFits
    <2>2. CASE build' = Payload(payload, build.seen)
      <3>1. build'.pc = "check" /\ build'.payload = payload
        BY <2>2 DEF Payload
      <3> QED
        BY <1>3, <3>1 DEF RatingsFit, PayloadNets
    <2> QED
      BY <1>2, <2>1, <2>2 DEF BuildMonthPayload
  <1> QED
    BY <1>1, <1>4, WagesKept, StoredKept DEF AmountsInv

LEMMA EnteredAmounts ==
  ASSUME NEW items \in Seq([kind : STRING, amount : Int, note : STRING])
  PROVE  Entered(items) \in Seq(Int)
  <1>1. IsSeq(items)
    BY DEF IsSeq
  <1>2. ASSUME NEW i \in DOMAIN items PROVE items[i].amount \in Int
    <2>1. items[i] \in [kind : STRING, amount : Int, note : STRING]
      BY ElementOf
    <2> QED
      BY <2>1
  <1>3. Entered(items) \in [DOMAIN items -> Int]
    BY <1>2 DEF Entered
  <1> QED
    BY <1>1, <1>3, MappedTo

LEMMA ServicesLineFits ==
  ASSUME PremiumsFit, AllInsurancesFinal, NEW pay, PayFits(pay), PayValid(pay)
  PROVE  AmountsFit(ServicesLine(pay))
  <1>1. PICK base \in Int : base = BasePay(pay.rated, PerHour)
    BY BasePayIsAmount DEF PayFits, Ratings
  <1>2. PICK allowance \in Int : allowance = WeeklyAllowance(pay.facts, pay.applicable)
    BY WeeklyAllowanceIsAmount
  <1>3. PICK premium \in Int : premium = FinalAmounts
    BY FinalAmountsAreAmounts
  <1>4. PICK plus \in Seq(Int) : plus = Entered(pay.earnings)
    BY EnteredAmounts DEF PayFits
  <1>5. PICK minus \in Seq(Int) : minus = Entered(pay.deductions)
    BY EnteredAmounts DEF PayFits
  <1>6. <<base, allowance>> \o plus \in Seq(Int) /\ <<premium>> \o minus \in Seq(Int)
    OBVIOUS
  <1>7. /\ ServicesLine(pay).earnings = <<base, allowance>> \o plus
        /\ ServicesLine(pay).deductions = <<premium>> \o minus
        /\ ServicesLine(pay).net =
             Total(<<base, allowance>> \o plus) - Total(<<premium>> \o minus)
    BY <1>1, <1>2, <1>3, <1>4, <1>5 DEF ServicesLine
  <1> QED
    BY <1>6, <1>7 DEF AmountsFit

LEMMA BuildServicesPayloadFits ==
  ASSUME PayInv, PremiumsFit, AmountsInv, BuildServicesPayload PROVE AmountsInv'
  <1>1. /\ store.kind = "services" /\ AllInsurancesFinal /\ PayValid(store.pay)
        /\ build' = Payload(<<ServicesLine(store.pay)>>, {wages})
        /\ UNCHANGED <<store, wages, closed, snapshots, archive>>
    BY DEF BuildServicesPayload, BuildOnly
  <1>2. PICK line : line = ServicesLine(store.pay)
    OBVIOUS
  <1>3. AmountsFit(line)
    BY <1>1, <1>2, StoreKnown, ServicesLineFits DEF StoreFits
  <1>4. NetsFit(<<line>>)
    <2>1. <<line>> \in Seq({line})
      OBVIOUS
    <2>2. IsSeq(<<line>>)
      BY <2>1 DEF IsSeq
    <2>3. DOMAIN <<line>> = {1} /\ <<line>>[1] = line
      OBVIOUS
    <2> QED
      BY <1>3, <2>2, <2>3 DEF NetsFit
  <1>5. build'.pc = "check" /\ build'.payload = <<line>>
    BY <1>1, <1>2 DEF Payload
  <1>6. RatingsFit' /\ PayloadNets'
    BY <1>4, <1>5 DEF RatingsFit, PayloadNets
  <1> QED
    BY <1>1, <1>6, WagesKept, StoredKept DEF AmountsInv

LEMMA CheckFits == ASSUME PayInv, AmountsInv, Check PROVE AmountsInv'
  <1>1. build.pc = "check" /\ UNCHANGED <<store, wages, closed, snapshots, archive>>
    BY DEF Check, BuildOnly
  <1>2. PICK payload : payload = build.payload /\ NetsFit(payload)
    BY <1>1 DEF AmountsInv, PayloadNets
  <1>3. CASE build' = Done
    BY <1>1, <1>3, GivenUpFits, WagesKept, StoredKept DEF AmountsInv
  <1>4. CASE /\ CollectBlockers(payload) = {}
             /\ build' = [pc |-> "close", payload |-> payload, seen |-> build.seen, on |-> today]
    <2>1. ASSUME NEW i \in DOMAIN payload PROVE payload[i].net >= 0
      <3>1. ~(payload[i].net < 0)
        <4> SUFFICES ASSUME payload[i].net < 0 PROVE "NEGATIVE_NET" \in CollectBlockers(payload)
          BY <1>4
        <4>1. payload[i] \in ToSet(payload)
          BY DEF ToSet
        <4> QED
          BY <4>1 DEF CollectBlockers
      <3>2. payload[i].net \in Int
        BY <1>2, TotalIsAmount DEF NetsFit, AmountsFit
      <3> QED
        BY <3>1, <3>2
    <2>2. NetsPaid(payload)
      BY <1>2, <2>1 DEF NetsPaid
    <2>3. build'.pc = "close" /\ build'.payload = payload
      BY <1>4
    <2>4. RatingsFit' /\ PayloadNets'
      BY <2>2, <2>3 DEF RatingsFit, PayloadNets
    <2> QED
      BY <1>1, <2>4, WagesKept, StoredKept DEF AmountsInv
  <1> QED
    BY <1>2, <1>3, <1>4 DEF Check

LEMMA CloseFits == ASSUME PayInv, AmountsInv, Close PROVE AmountsInv'
  <1>1. /\ build.pc = "close" /\ build' = Done /\ UNCHANGED <<store, wages, archive>>
        /\ closed'
    BY DEF Close
  <1>2. NetsPaid(build.payload)
    BY <1>1 DEF AmountsInv, PayloadNets
  <1>3. SnapshotNets' /\ ArchiveFits'
    <2>1. CASE closed
      <3>1. snapshots' = snapshots
        BY <2>1 DEF Close
      <3> QED
        BY <1>1, <2>1, <3>1 DEF AmountsInv, SnapshotNets, ArchiveFits
    <2>2. CASE ~closed
      <3>1. PICK new : new = [version |-> Len(snapshots) + 1, payload |-> build.payload,
                              seen |-> build.seen, on |-> build.on]
        OBVIOUS
      <3>2. snapshots' = Append(snapshots, new)
        BY <2>2, <3>1 DEF Close
      <3>3. new.version = Len(snapshots) + 1 /\ NetsPaid(new.payload)
        BY <1>2, <3>1
      <3>4. PICK l \in Nat : /\ l = Len(snapshots) /\ DOMAIN snapshots = 1..l
                             /\ DOMAIN snapshots' = 1..(l + 1) /\ snapshots'[l + 1] = new
                             /\ \A k \in 1..l : snapshots'[k] = snapshots[k]
        <4>1. PICK S : snapshots \in Seq(S)
          BY DEF PayInv, SnapshotsFit, IsSeq
        <4>2. PICK T : T = S \cup {new}
          OBVIOUS
        <4>3. snapshots \in Seq(T) /\ new \in T
          BY <4>1, <4>2
        <4> HIDE <4>1, <4>2
        <4> QED
          BY <3>2, <4>3
      <3>5. \A k \in 1..(l + 1) : k = l + 1 \/ k \in 1..l
        OBVIOUS
      <3>6. SnapshotNets'
        <4>1. ASSUME NEW k \in 1..(l + 1)
              PROVE  snapshots'[k].version = k /\ NetsPaid(snapshots'[k].payload)
          <5>1. CASE k = l + 1
            BY <5>1, <3>3, <3>4
          <5>2. CASE k \in 1..l
            BY <5>2, <3>4 DEF AmountsInv, SnapshotNets
          <5> QED
            BY <3>5, <5>1, <5>2
        <4>2. snapshots' # <<>>
          <5>1. 1 \in DOMAIN snapshots' /\ DOMAIN <<>> = {}
            BY <3>4
          <5> QED
            BY <5>1
        <4> QED
          BY <4>1, <4>2, <3>4 DEF SnapshotNets
      <3>7. ArchiveFits'
        <4>1. \A k \in 1..l : k \in 1..(l + 1)
          OBVIOUS
        <4> QED
          BY <1>1, <3>4, <4>1 DEF AmountsInv, ArchiveFits
      <3> QED
        BY <3>6, <3>7
    <2> QED
      BY <2>1, <2>2
  <1> QED
    BY <1>1, <1>3, GivenUpFits, WagesKept DEF AmountsInv

LEMMA AmountsNext ==
  PayInv /\ PremiumsFit /\ AmountsInv /\ [PayslipsNext]_payslipsVars => AmountsInv'
  BY OutsideFits, DownloadFits, SetHourlyWageFits, StartFits, RateSegmentFits, FinishLineFits,
     BuildMonthPayloadFits, BuildServicesPayloadFits, CheckFits, CloseFits DEF PayslipsNext

LEMMA AmountsAlwaysFit == PayslipsSpec => []AmountsInv
  BY AmountsInvAtFirst, AmountsNext, PayslipsInvariance, PremiumsAlwaysFit, PTL DEF PayslipsSpec

-----------------------------------------------------------------------------
(* Payslips: base pay and the exact pay *)

PayableWages(e) == Amounts \cup {r.wage : r \in Employee(e).wages}

\* A line's ratings are of its employee's work, no more of them than segments
\* were read, and of wages that the employee may have.
RatedFrom(line, n) ==
  LET e == line.employee IN
  /\ line.rated \in Seq(Ratings) /\ Len(line.rated) <= n
  /\ \A i \in DOMAIN line.rated :
       /\ line.rated[i].wage \in PayableWages(e)
       /\ \E k \in DOMAIN Employee(e).work : line.rated[i].units = Employee(e).work[k].units

WithinAWon(line) == line.earnings[1] \in ExactPay(line.rated)..(ExactPay(line.rated) + 1)
AllWithin(payload) == \A line \in ToSet(payload) : WithinAWon(line)

WagesKnown == \A e \in Codes : \A r \in wages[e] : r.wage \in PayableWages(e)
LinesRated ==
  /\ build.pc \in {"employee", "segment"} =>
       \A line \in ToSet(build.lines) :
         line.employee \in Codes /\ RatedFrom(line, Len(Employee(line.employee).work))
  /\ build.pc = "segment" =>
       build.line.employee \in Codes /\ RatedFrom(build.line, build.next - 1)
PayloadWithin == build.pc \in {"check", "close"} => AllWithin(build.payload)
SnapshotsWithin == \A s \in ToSet(snapshots) : AllWithin(s.payload)

WonInv == WagesKnown /\ LinesRated /\ PayloadWithin /\ SnapshotsWithin

LEMMA WonInvAtFirst == PayslipsInit => WonInv
  BY DEF PayslipsInit, WonInv, WagesKnown, PayableWages, LinesRated, PayloadWithin,
         SnapshotsWithin, ToSet, Done

\* What is known of the work stays so, for the store does.
LEMMA RatedStays ==
  ASSUME store' = store
  PROVE  /\ \A line, n : RatedFrom(line, n)' = RatedFrom(line, n)
         /\ Codes' = Codes /\ \A e : PayableWages(e)' = PayableWages(e) /\ Employee(e)' = Employee(e)
  <1>1. Codes' = Codes /\ \A e : Employee(e)' = Employee(e)
    BY DEF Codes, Employee
  <1>2. \A e : PayableWages(e)' = PayableWages(e)
    BY DEF PayableWages, Employee
  <1>3. \A line, n : RatedFrom(line, n)' = RatedFrom(line, n)
    BY DEF RatedFrom, PayableWages, Employee
  <1> QED
    BY <1>1, <1>2, <1>3

LEMMA WagesStayKnown == ASSUME WonInv, UNCHANGED <<store, wages>> PROVE WagesKnown'
  BY RatedStays DEF WonInv, WagesKnown

LEMMA BuildStaysWithin ==
  ASSUME WonInv, UNCHANGED <<store, build>> PROVE LinesRated' /\ PayloadWithin'
  BY RatedStays DEF WonInv, LinesRated, PayloadWithin

LEMMA SnapshotsStayWithin == ASSUME WonInv, UNCHANGED snapshots PROVE SnapshotsWithin'
  BY DEF WonInv, SnapshotsWithin

LEMMA GivenUpWithin == ASSUME build' = Done PROVE LinesRated' /\ PayloadWithin'
  BY DEF LinesRated, PayloadWithin, Done

LEMMA OutsideWithin ==
  ASSUME WonInv, \/ Tick \/ Reopen \/ Download \/ PremiumStep \/ UNCHANGED payslipsVars
  PROVE  WonInv'
  <1>1. UNCHANGED <<store, wages, build, snapshots>>
    BY DEF Tick, Reopen, Download, PremiumStep, payslipsVars
  <1> QED
    BY <1>1, WagesStayKnown, BuildStaysWithin, SnapshotsStayWithin DEF WonInv

LEMMA SetHourlyWageWithin ==
  ASSUME PayInv, AmountsInv, WonInv, NEW e \in Codes, NEW amount \in Amounts,
         SetHourlyWage(e, amount)
  PROVE  WonInv'
  <1>1. /\ UNCHANGED <<store, snapshots>>
        /\ wages' = [wages EXCEPT ![e] = WithWage(wages[e], amount)]
        /\ build' = IF build = Done THEN build ELSE [build EXCEPT !.seen = @ \cup {wages'}]
    BY DEF SetHourlyWage
  <1>2. \A r \in WithWage(wages[e], amount) : r.wage = amount \/ \E q \in wages[e] : r.wage = q.wage
    <2>1. CASE RowOn(wages[e], 1) = {}
      BY <2>1 DEF WithWage
    <2>2. CASE RowOn(wages[e], 1) # {}
      <3>1. PICK q : q = CHOOSE r \in RowOn(wages[e], 1) : TRUE
        OBVIOUS
      <3>2. q \in RowOn(wages[e], 1)
        BY <2>2, <3>1
      <3>3. q \in wages[e] /\ q \in [from : Int, to : Int, wage : Nat]
        BY <3>2 DEF RowOn, AmountsInv, WagesFit
      <3>4. /\ [q EXCEPT !.from = 1, !.wage = amount].wage = amount
            /\ [q EXCEPT !.to = 1].wage = q.wage
        BY <3>3
      <3>5. WithWage(wages[e], amount) =
              (wages[e] \ RowOn(wages[e], 1)) \cup {[q EXCEPT !.from = 1, !.wage = amount]}
                \cup (IF q.from = 1 THEN {} ELSE {[q EXCEPT !.to = 1]})
        BY <2>2, <3>1 DEF WithWage
      <3> QED
        BY <3>3, <3>4, <3>5
    <2> QED
      BY <2>1, <2>2
  <1>3. WagesKnown'
    <2>1. amount \in PayableWages(e)
      BY DEF PayableWages
    <2>2. \A r \in WithWage(wages[e], amount) : r.wage \in PayableWages(e)
      BY <1>2, <2>1 DEF WonInv, WagesKnown
    <2>3. wages'[e] = WithWage(wages[e], amount) /\ \A f \in Codes : f # e => wages'[f] = wages[f]
      BY <1>1 DEF AmountsInv, WagesFit
    <2>4. \A f \in Codes : \A r \in wages'[f] : r.wage \in PayableWages(f)
      BY <2>2, <2>3 DEF WonInv, WagesKnown
    <2> QED
      BY <1>1, <2>4, RatedStays DEF WagesKnown
  <1>4. LinesRated' /\ PayloadWithin'
    <2>1. CASE build' = build
      BY <1>1, <2>1, BuildStaysWithin
    <2>2. CASE build # Done
      <3>1. PICK seen : build' = [build EXCEPT !.seen = seen]
        BY <1>1, <2>2
      <3>2. /\ build'.pc = build.pc
            /\ build.pc \in {"employee", "segment"} => build'.lines = build.lines
            /\ build.pc = "segment" => build'.line = build.line /\ build'.next = build.next
            /\ build.pc \in {"check", "close"} => build'.payload = build.payload
        BY <3>1, <2>2 DEF PayInv, BuildFits, Shape
      <3> QED
        BY <1>1, <3>2, RatedStays DEF WonInv, LinesRated, PayloadWithin
    <2> QED
      BY <1>1, <2>1, <2>2
  <1> QED
    BY <1>1, <1>3, <1>4, SnapshotsStayWithin DEF WonInv

LEMMA StartWithin == ASSUME PayInv, WonInv, ListEmployees \/ ReadWageAtStart PROVE WonInv'
  <1>1. UNCHANGED <<store, wages, snapshots>>
    BY DEF ListEmployees, ReadWageAtStart, BuildOnly
  <1>2. LinesRated' /\ PayloadWithin'
    <2>1. CASE ListEmployees
      <3>1. build'.pc = "employee" /\ build'.lines = <<>>
        BY <2>1 DEF ListEmployees
      <3> QED
        BY <3>1 DEF LinesRated, PayloadWithin, ToSet
    <2>2. CASE ReadWageAtStart
      <3>1. PICK e \in build.staff :
              /\ build.pc = "employee" /\ build'.pc = "segment" /\ build'.lines = build.lines
              /\ build'.line.employee = e /\ build'.line.rated = <<>> /\ build'.next = 1
        BY <2>2 DEF ReadWageAtStart
      <3>2. e \in Codes
        BY <3>1 DEF PayInv, BuildFits, PreviewFits
      <3>3. RatedFrom(build'.line, build'.next - 1)
        <4>1. <<>> \in Seq(Ratings) /\ Len(<<>>) <= 1 - 1 /\ DOMAIN <<>> = {}
          OBVIOUS
        <4> QED
          BY <3>1, <4>1 DEF RatedFrom
      <3> QED
        BY <1>1, <3>1, <3>2, <3>3, RatedStays DEF WonInv, LinesRated, PayloadWithin
    <2> QED
      BY <2>1, <2>2
  <1> QED
    BY <1>1, <1>2, WagesStayKnown, SnapshotsStayWithin DEF WonInv

LEMMA FinishLineWithin == ASSUME PayInv, WonInv, FinishLine PROVE WonInv'
  <1> DEFINE e == build.line.employee
  <1>1. /\ build.pc = "segment" /\ build'.pc = "employee"
        /\ build.next \notin DOMAIN Employee(e).work
        /\ build'.lines = Append(build.lines, build.line)
        /\ UNCHANGED <<store, wages, snapshots>>
    BY DEF FinishLine, BuildOnly
  <1>2. e \in Codes /\ RatedFrom(build.line, build.next - 1)
    BY <1>1 DEF WonInv, LinesRated
  <1>3. build.next - 1 = Len(Employee(e).work)
    <2>1. PICK last \in Nat : last = Len(Employee(e).work) /\ DOMAIN Employee(e).work = 1..last
      BY <1>2, WorkOf
    <2>2. build.next \in 1..(last + 1)
      BY <1>1, <2>1 DEF PayInv, BuildFits, LineFits
    <2> QED
      BY <1>1, <2>1, <2>2
  <1>4. ToSet(build'.lines) = ToSet(build.lines) \cup {build.line}
    <2>1. IsSeq(build.lines)
      BY <1>1 DEF PayInv, BuildFits, Shape, Done
    <2> QED
      BY <1>1, <2>1, Appended
  <1>5. LinesRated' /\ PayloadWithin'
    BY <1>1, <1>2, <1>3, <1>4, RatedStays DEF WonInv, LinesRated, PayloadWithin
  <1> QED
    BY <1>1, <1>5, WagesStayKnown, SnapshotsStayWithin DEF WonInv

LEMMA RateSegmentWithin == ASSUME PayInv, AmountsInv, WonInv, RateSegment PROVE WonInv'
  <1> DEFINE e == build.line.employee
             n == build.next
             segment == Employee(e).work[n]
             paid == WageOn(wages[e], segment.day)
             old == build.line
  <1>1. PICK line :
          line = IF InMonth(e, n) THEN Rated(build.line, Employee(e).work[n]) ELSE build.line
    OBVIOUS
  <1>2. /\ build.pc = "segment" /\ n \in DOMAIN Employee(e).work
        /\ UNCHANGED <<store, wages, snapshots>>
    BY DEF RateSegment, BuildOnly
  <1>3. /\ build'.pc = "segment" /\ build'.lines = build.lines /\ build'.line = line
        /\ build'.next = n + 1
    BY <1>1, RateSegmentStep
  <1>4. /\ build.line = [employee |-> old.employee, rated |-> old.rated, blockers |-> old.blockers]
        /\ e \in Codes /\ RatedFrom(build.line, n - 1) /\ n \in Nat
    BY <1>2, WorkOf DEF PayInv, BuildFits, Shape, LineFits, WonInv, LinesRated, Done
  <1>5. PICK rated \in Seq(Ratings) : rated = old.rated
    BY <1>4 DEF RatedFrom
  <1>6. PICK l \in Nat : l = Len(rated) /\ DOMAIN rated = 1..l
    BY <1>5
  <1>7. /\ l <= n - 1
        /\ \A i \in 1..l :
             /\ rated[i].wage \in PayableWages(e)
             /\ \E k \in DOMAIN Employee(e).work : rated[i].units = Employee(e).work[k].units
    <2>1. RatedFrom(build.line, n - 1) /\ build.line.rated = rated
      BY <1>4, <1>5
    <2> QED
      BY <1>6, <2>1 DEF RatedFrom
  <1>8. line.employee = e /\ RatedFrom(line, n)
    <2>1. CASE line = build.line
      BY <2>1, <1>4, <1>5, <1>6, <1>7 DEF RatedFrom
    <2>2. CASE line = Rated(build.line, Employee(e).work[n])
      <3>1. CASE paid = None
        <4>1. line.rated = rated /\ line.employee = e
          BY <1>4, <1>5, <2>2, <3>1 DEF Rated
        <4> QED
          BY <1>4, <1>5, <1>6, <1>7, <4>1 DEF RatedFrom
      <3>2. CASE paid # None
        <4>1. PICK new : new = [units |-> segment.units, wage |-> paid]
          OBVIOUS
        <4>2. line = [old EXCEPT !.rated = Append(old.rated, new)]
          BY <2>2, <3>2, <4>1 DEF Rated
        <4>3. line.rated = Append(rated, new) /\ line.employee = e
          BY <1>4, <1>5, <4>2
        <4>4. new.wage \in PayableWages(e)
          <5>1. RowOn(wages[e], segment.day) # {}
            BY <3>2 DEF WageOn
          <5>2. PICK r \in RowOn(wages[e], segment.day) : paid = r.wage
            BY <5>1 DEF WageOn
          <5>3. r \in wages[e]
            BY <5>2 DEF RowOn
          <5> QED
            BY <1>4, <4>1, <5>2, <5>3 DEF WonInv, WagesKnown
        <4>5. build'.line.rated \in Seq(Ratings)
          BY <1>3, RateSegmentFits DEF AmountsInv, RatingsFit
        <4>6. /\ Len(line.rated) = l + 1 /\ DOMAIN line.rated = 1..(l + 1)
              /\ line.rated[l + 1] = new /\ \A i \in 1..l : line.rated[i] = rated[i]
          <5>1. IsSeq(rated)
            BY DEF IsSeq
          <5>2. /\ Len(line.rated) = l + 1 /\ line.rated[l + 1] = new
                /\ \A i \in 1..l : line.rated[i] = rated[i]
            BY <1>6, <4>3, <5>1, Appended
          <5>3. DOMAIN line.rated = 1..(l + 1)
            BY <1>3, <4>5, <5>2
          <5> QED
            BY <5>2, <5>3
        <4>7. ASSUME NEW i \in 1..(l + 1)
              PROVE  /\ line.rated[i].wage \in PayableWages(e)
                     /\ \E k \in DOMAIN Employee(e).work :
                          line.rated[i].units = Employee(e).work[k].units
          <5>1. CASE i = l + 1
            BY <1>2, <4>1, <4>4, <4>6, <5>1
          <5>2. CASE i \in 1..l
            BY <1>7, <4>6, <5>2
          <5>3. i = l + 1 \/ i \in 1..l
            OBVIOUS
          <5> QED
            BY <5>1, <5>2, <5>3
        <4>8. l + 1 <= n
          BY <1>4, <1>7
        <4> QED
          BY <1>3, <4>3, <4>5, <4>6, <4>7, <4>8 DEF RatedFrom
      <3> QED
        BY <3>1, <3>2
    <2> QED
      BY <1>1, <2>1, <2>2
  <1>9. LinesRated' /\ PayloadWithin'
    <2>1. build'.next - 1 = n
      BY <1>3, <1>4
    <2> QED
      BY <1>2, <1>3, <1>4, <1>8, <2>1, RatedStays DEF WonInv, LinesRated, PayloadWithin
  <1> QED
    BY <1>2, <1>9, WagesStayKnown, SnapshotsStayWithin DEF WonInv

\* What is rated from an employee's work can be summed precisely.
LEMMA WorkIsPrecise ==
  ASSUME PayInv, NEW line, line.employee \in Codes,
         RatedFrom(line, Len(Employee(line.employee).work))
  PROVE  RatedPrecisely(line.rated)
  <1> DEFINE e == line.employee
  <1>1. PICK l \in Nat : l = Len(Employee(e).work) /\ DOMAIN Employee(e).work = 1..l
    BY WorkOf
  <1>2. PICK m \in Nat : m = Len(line.rated) /\ m <= l /\ DOMAIN line.rated = 1..m
    BY <1>1 DEF RatedFrom
  <1>3. CASE l = 0
    BY <1>2, <1>3 DEF RatedPrecisely
  <1>4. CASE l # 0
    <2>1. PayPrecise(Employee(e))
      BY PrecisionSuffices DEF PayInv, AmountsPrecise, Codes, Employee
    <2>2. ASSUME NEW i \in DOMAIN line.rated
          PROVE  Precise(l, line.rated[i].units, line.rated[i].wage)
      <3>1. PICK k \in DOMAIN Employee(e).work : line.rated[i].units = Employee(e).work[k].units
        BY DEF RatedFrom
      <3>2. line.rated[i].wage \in Amounts \cup {r.wage : r \in Employee(e).wages}
        BY DEF RatedFrom, PayableWages
      <3> QED
        BY <1>1, <2>1, <3>1, <3>2 DEF PayPrecise
    <2> QED
      BY <1>2, <1>4, <2>2 DEF RatedPrecisely
  <1> QED
    BY <1>3, <1>4

LEMMA BuildMonthPayloadWithin ==
  ASSUME PayInv, AmountsInv, WonInv, BuildMonthPayload PROVE WonInv'
  <1>1. build.pc = "employee" /\ UNCHANGED <<store, wages, snapshots>>
    BY DEF BuildMonthPayload, BuildOnly
  <1>2. PICK payload : payload = [i \in DOMAIN build.lines |-> PayLine(build.lines[i])]
    OBVIOUS
  <1>3. ASSUME NEW i \in DOMAIN build.lines PROVE WithinAWon(payload[i])
    <2>1. PICK line : line = build.lines[i]
      OBVIOUS
    <2>2. line \in ToSet(build.lines)
      BY <2>1 DEF ToSet
    <2>3. line.employee \in Codes /\ RatedFrom(line, Len(Employee(line.employee).work))
      BY <1>1, <2>2 DEF WonInv, LinesRated
    <2>4. RatedPrecisely(line.rated) /\ line.rated \in Seq(Ratings)
      BY <2>3, WorkIsPrecise DEF RatedFrom
    <2>5. payload[i].earnings[1] = BasePay(line.rated, PerHour) /\ payload[i].rated = line.rated
      BY <1>2, <2>1 DEF PayLine
    <2> QED
      BY <2>4, <2>5, PayIsClose DEF WithinAWon
  <1>4. LinesRated' /\ PayloadWithin'
    <2>1. CASE build' = Done
      BY <2>1, GivenUpWithin
    <2>2. CASE build' = Payload(payload, build.seen)
      <3>1. build'.pc = "check" /\ build'.payload = payload
        BY <2>2 DEF Payload
      <3>2. DOMAIN payload = DOMAIN build.lines
        BY <1>2
      <3>3. AllWithin(payload)
        BY <1>3, <3>2 DEF AllWithin, ToSet
      <3> QED
        BY <3>1, <3>3 DEF LinesRated, PayloadWithin
    <2> QED
      BY <1>2, <2>1, <2>2 DEF BuildMonthPayload
  <1> QED
    BY <1>1, <1>4, WagesStayKnown, SnapshotsStayWithin DEF WonInv

LEMMA BuildServicesPayloadWithin ==
  ASSUME PayInv, WonInv, BuildServicesPayload PROVE WonInv'
  <1>1. /\ store.kind = "services"
        /\ build' = Payload(<<ServicesLine(store.pay)>>, {wages})
        /\ UNCHANGED <<store, wages, snapshots>>
    BY DEF BuildServicesPayload, BuildOnly
  <1>2. PICK line : line = ServicesLine(store.pay)
    OBVIOUS
  <1>3. PICK rated \in Seq(Ratings), l \in Nat :
          rated = store.pay.rated /\ l = Len(rated) /\ DOMAIN rated = 1..l
    BY <1>1, StoreKnown DEF StoreFits, PayFits, Ratings
  <1>4. RatedPrecisely(rated)
    <2>1. \A i \in DOMAIN rated : Precise(l, rated[i].units, rated[i].wage)
      BY <1>1, <1>3, PrecisionSuffices DEF PayInv, AmountsPrecise
    <2>2. CASE l = 0
      BY <1>3, <2>2 DEF RatedPrecisely
    <2>3. CASE l # 0
      BY <1>3, <2>1, <2>3 DEF RatedPrecisely
    <2> QED
      BY <2>2, <2>3
  <1>5. line.earnings[1] = BasePay(rated, PerHour) /\ line.rated = rated
    <2>1. PayFits(store.pay)
      BY <1>1, StoreKnown DEF StoreFits
    <2>2. PICK plus \in Seq(Int) : plus = Entered(store.pay.earnings)
      BY <2>1, EnteredAmounts DEF PayFits
    <2>3. PICK base \in Int : base = BasePay(rated, PerHour)
      BY BasePayIsAmount
    <2>4. PICK allowance : allowance = WeeklyAllowance(store.pay.facts, store.pay.applicable)
      OBVIOUS
    <2>5. line.earnings = <<base, allowance>> \o plus /\ line.rated = rated
      BY <1>2, <1>3, <2>2, <2>3, <2>4 DEF ServicesLine
    <2>6. (<<base, allowance>> \o plus)[1] = base
      <3>1. PICK S : <<base, allowance>> \in Seq(S) /\ plus \in Seq(S)
        <4>1. <<base, allowance>> \in Seq(Int \cup {allowance}) /\ plus \in Seq(Int \cup {allowance})
          OBVIOUS
        <4> QED
          BY <4>1
      <3> QED
        BY <3>1
    <2> QED
      BY <2>3, <2>5, <2>6
  <1>6. AllWithin(<<line>>)
    <2>1. WithinAWon(line)
      BY <1>4, <1>5, PayIsClose DEF WithinAWon
    <2>2. ToSet(<<line>>) = {line}
      BY DEF ToSet
    <2> QED
      BY <2>1, <2>2 DEF AllWithin
  <1>7. build'.pc = "check" /\ build'.payload = <<line>>
    BY <1>1, <1>2 DEF Payload
  <1>8. LinesRated' /\ PayloadWithin'
    BY <1>6, <1>7 DEF LinesRated, PayloadWithin
  <1> QED
    BY <1>1, <1>8, WagesStayKnown, SnapshotsStayWithin DEF WonInv

LEMMA CheckWithin == ASSUME WonInv, Check PROVE WonInv'
  <1>1. build.pc = "check" /\ UNCHANGED <<store, wages, snapshots>>
    BY DEF Check, BuildOnly
  <1>2. LinesRated' /\ PayloadWithin'
    <2>1. CASE build' = Done
      BY <2>1, GivenUpWithin
    <2>2. CASE build' # Done
      <3>1. build'.pc = "close" /\ build'.payload = build.payload
        BY <2>2 DEF Check
      <3> QED
        BY <1>1, <3>1 DEF WonInv, LinesRated, PayloadWithin
    <2> QED
      BY <2>1, <2>2
  <1> QED
    BY <1>1, <1>2, WagesStayKnown, SnapshotsStayWithin DEF WonInv

LEMMA CloseWithin == ASSUME PayInv, WonInv, Close PROVE WonInv'
  <1>1. build.pc = "close" /\ build' = Done /\ UNCHANGED <<store, wages>>
    BY DEF Close
  <1>2. SnapshotsWithin'
    <2>1. CASE closed
      BY <2>1, SnapshotsStayWithin DEF Close
    <2>2. CASE ~closed
      <3>1. PICK new : new = [version |-> Len(snapshots) + 1, payload |-> build.payload,
                              seen |-> build.seen, on |-> build.on]
        OBVIOUS
      <3>2. snapshots' = Append(snapshots, new)
        BY <2>2, <3>1 DEF Close
      <3>3. ToSet(snapshots') = ToSet(snapshots) \cup {new}
        BY <3>2, Appended DEF PayInv, SnapshotsFit
      <3>4. AllWithin(new.payload)
        BY <1>1, <3>1 DEF WonInv, PayloadWithin
      <3> QED
        BY <3>3, <3>4 DEF WonInv, SnapshotsWithin
    <2> QED
      BY <2>1, <2>2
  <1> QED
    BY <1>1, <1>2, GivenUpWithin, WagesStayKnown DEF WonInv

LEMMA WonNext == PayInv /\ AmountsInv /\ WonInv /\ [PayslipsNext]_payslipsVars => WonInv'
  BY OutsideWithin, SetHourlyWageWithin, StartWithin, RateSegmentWithin, FinishLineWithin,
     BuildMonthPayloadWithin, BuildServicesPayloadWithin, CheckWithin, CloseWithin
  DEF PayslipsNext

\* Nobody is shortchanged: the base pay of every line of every snapshot is the
\* exact pay of its rated segments rounded up, or a won more, although hours,
\* subtotals and their sum are rounded to a decimal's digits.
THEOREM PayWithinOneWonHolds == PayslipsSpec => []PayWithinOneWon
  <1>1. WonInv => PayWithinOneWon
    BY DEF WonInv, SnapshotsWithin, AllWithin, WithinAWon, PayWithinOneWon, Lines, Snapshots
  <1> QED
    BY <1>1, WonInvAtFirst, WonNext, PayslipsInvariance, AmountsAlwaysFit, PTL DEF PayslipsSpec

-----------------------------------------------------------------------------
(* The archive *)

\* The rows of items of a column add up to the items, totals and blanks aside.
LEMMA ColumnAddsUp ==
  ASSUME NEW t \in Seq(Int), Len(t) <= LastItemRow - FirstRow + 1,
         NEW totals, DOMAIN totals \subseteq Int, \A r \in DOMAIN totals : r > LastItemRow
  PROVE  ColumnSum(Column(Items(t), totals)) = Total(t)
  <1>1. PICK first \in Nat, last \in Nat, rows \in Nat :
          /\ first = FirstRow /\ last = LastItemRow /\ rows = LastItemRow - FirstRow + 1
          /\ last = first + rows - 1
    BY StatementsAssumption
  <1>2. PICK l \in Nat : l = Len(t) /\ DOMAIN t = 1..l
    OBVIOUS
  <1>3. PICK column : column = Column(Items(t), totals)
    OBVIOUS
  <1>4. DOMAIN Items(t) = first..(first + l - 1)
        /\ \A r \in first..(first + l - 1) : Items(t)[r] = t[r - first + 1]
    BY <1>1, <1>2 DEF Items
  <1>5. ASSUME NEW i \in 1..rows
        PROVE  Cell(column, first + i - 1) = IF i <= l THEN t[i] ELSE 0
    <2>1. PICK r \in Int : r = first + i - 1 /\ r <= last /\ r - first + 1 = i /\ r >= first
      BY <1>1
    <2>2. r \notin DOMAIN totals
      BY <2>1, <1>1
    <2>3. r \in first..(first + l - 1) <=> i <= l
      BY <2>1
    <2>4. CASE i <= l
      <3>1. r \in DOMAIN Items(t) /\ Items(t)[r] = t[i]
        BY <1>4, <2>1, <2>3, <2>4
      <3>2. r \in DOMAIN column /\ column[r] = Items(t)[r]
        BY <1>3, <2>2, <3>1 DEF Column
      <3> QED
        BY <2>1, <2>4, <3>1, <3>2 DEF Cell
    <2>5. CASE ~(i <= l)
      <3>1. r \notin DOMAIN Items(t)
        BY <1>4, <2>3, <2>5
      <3>2. r \notin DOMAIN column
        BY <1>3, <2>2, <3>1 DEF Column
      <3> QED
        BY <2>1, <2>5, <3>2 DEF Cell
    <2> QED
      BY <2>4, <2>5
  <1>6. PICK p : p = [i \in 1..rows |-> Cell(column, first + i - 1)]
    OBVIOUS
  <1>7. ASSUME NEW i \in 1..l PROVE t[i] \in Int
    BY <1>2
  <1>8. ASSUME NEW i \in 1..rows
        PROVE  p[i] \in Int /\ p[i] = IF i <= l THEN t[i] ELSE 0
    <2>1. p[i] = IF i <= l THEN t[i] ELSE 0
      BY <1>5, <1>6
    <2>2. i <= l => i \in 1..l
      OBVIOUS
    <2> QED
      BY <1>7, <2>1, <2>2
  <1>9. p \in [1..rows -> Int]
    BY <1>6, <1>8
  <1>10. p \in Seq(Int) /\ Len(p) = rows
    BY <1>9
  <1>11. l <= rows
    BY <1>1, <1>2
  <1>12. Total(p) = Total(t)
    BY <1>2, <1>8, <1>10, <1>11, TotalPadded
  <1>13. ColumnSum(column) = Total(p)
    BY <1>1, <1>6 DEF ColumnSum
  <1> QED
    BY <1>3, <1>12, <1>13

\* What the archive says of one line.
LEMMA SheetAddsUp ==
  ASSUME NEW data, data.earnings \in Seq(Int), data.deductions \in Seq(Int), ~TooLong(data)
  PROVE  LET sheet == Sheet(data) IN
         /\ ColumnSum(sheet.B) = TotalPay(data) /\ sheet.B[LastItemRow + 2] = TotalPay(data)
         /\ ColumnSum(sheet.D) = TotalDeduction(data)
         /\ sheet.D[LastItemRow + 1] = TotalDeduction(data)
         /\ sheet.D[LastItemRow + 2] = NetPay(data)
  <1>1. PICK rows \in Nat : rows = LastItemRow - FirstRow + 1
    BY StatementsAssumption
  <1>2. Len(data.earnings) <= rows /\ Len(data.deductions) <= rows
    <2>1. ~(Len(data.earnings) > rows) /\ ~(Len(data.deductions) > rows)
      BY <1>1 DEF TooLong
    <2>2. Len(data.earnings) \in Nat /\ Len(data.deductions) \in Nat
      OBVIOUS
    <2> QED
      BY <2>1, <2>2
  <1>3. PICK pay : pay = [r \in {LastItemRow + 2} |-> TotalPay(data)]
    OBVIOUS
  <1>4. PICK deducted : deducted = [r \in {LastItemRow + 1, LastItemRow + 2} |->
          IF r = LastItemRow + 1 THEN TotalDeduction(data) ELSE NetPay(data)]
    OBVIOUS
  <1>5. /\ LastItemRow \in Int
        /\ LastItemRow + 1 > LastItemRow /\ LastItemRow + 2 > LastItemRow
        /\ LastItemRow + 1 # LastItemRow + 2
        /\ LastItemRow + 1 \in Int /\ LastItemRow + 2 \in Int
    BY StatementsAssumption
  <1>6. DOMAIN pay = {LastItemRow + 2} /\ pay[LastItemRow + 2] = TotalPay(data)
    BY <1>3
  <1>7. /\ DOMAIN deducted = {LastItemRow + 1, LastItemRow + 2}
        /\ deducted[LastItemRow + 1] = TotalDeduction(data)
        /\ deducted[LastItemRow + 2] = NetPay(data)
    BY <1>4, <1>5
  <1>8. /\ Sheet(data).B = Column(Items(data.earnings), pay)
        /\ Sheet(data).D = Column(Items(data.deductions), deducted)
    BY <1>3, <1>4 DEF Sheet
  <1>9. /\ Sheet(data).B[LastItemRow + 2] = TotalPay(data)
        /\ Sheet(data).D[LastItemRow + 1] = TotalDeduction(data)
        /\ Sheet(data).D[LastItemRow + 2] = NetPay(data)
    BY <1>6, <1>7, <1>8, Zenon DEF Column
  <1>10. ColumnSum(Sheet(data).B) = Total(data.earnings)
    BY <1>1, <1>2, <1>5, <1>6, <1>8, ColumnAddsUp
  <1>11. ColumnSum(Sheet(data).D) = Total(data.deductions)
    BY <1>1, <1>2, <1>5, <1>7, <1>8, ColumnAddsUp
  <1> QED
    BY <1>9, <1>10, <1>11 DEF TotalPay, TotalDeduction

\* The archive of a snapshot whose nets are those of its items.
LEMMA ArchiveOfSnapshot ==
  ASSUME NEW s, NetsPaid(s.payload), Exportable(s), NEW a, a = Archive(s)
  PROVE  /\ Len(a.sheets) = Len(s.payload) /\ Len(a.summary.rows) = Len(s.payload)
         /\ \A i \in DOMAIN s.payload :
              LET sheet == a.sheets[i]
                  pay == ColumnSum(sheet.B)
                  deduction == ColumnSum(sheet.D)
              IN  /\ sheet.B[LastItemRow + 2] = pay
                  /\ sheet.D[LastItemRow + 1] = deduction
                  /\ \A net \in {sheet.D[LastItemRow + 2], a.manifest[i].net,
                                 a.summary.rows[i].net, pay - deduction} :
                       net = s.payload[i].net
                  /\ a.manifest[i].employee = s.payload[i].employee
                  /\ s.payload[i].net >= 0
         /\ a.summary.net = Total([i \in DOMAIN s.payload |-> s.payload[i].net])
         /\ a.summary.net = a.summary.pay - a.summary.deduction
  <1>1. PICK payload : payload = s.payload /\ IsSeq(payload)
    BY DEF NetsPaid, NetsFit
  <1>2. PICK data : data = StatementsFromSnapshot(s)
    OBVIOUS
  <1>3. /\ data = [i \in DOMAIN payload |-> data[i]]
        /\ \A i \in DOMAIN payload :
             /\ data[i].employee = payload[i].employee
             /\ data[i].earnings = payload[i].earnings
             /\ data[i].deductions = payload[i].deductions
    BY <1>1, <1>2 DEF StatementsFromSnapshot
  <1>4. IsSeq(data) /\ Len(data) = Len(payload) /\ DOMAIN data = DOMAIN payload
    BY <1>1, <1>3, Mapped
  <1>5. PICK pay, deduction, nets :
          /\ pay = [i \in DOMAIN data |-> TotalPay(data[i])]
          /\ deduction = [i \in DOMAIN data |-> TotalDeduction(data[i])]
          /\ nets = [i \in DOMAIN data |-> NetPay(data[i])]
    OBVIOUS
  <1>6. PICK sheets, rows, manifest :
          /\ sheets = [i \in DOMAIN data |-> Sheet(data[i])]
          /\ rows = [i \in DOMAIN data |-> SummaryRow(data[i])]
          /\ manifest = [i \in DOMAIN data |->
                           [employee |-> data[i].employee, net |-> NetPay(data[i])]]
    OBVIOUS
  <1>7. /\ a.sheets = sheets /\ a.manifest = manifest /\ a.summary.rows = rows
        /\ a.summary.pay = Total(pay) /\ a.summary.deduction = Total(deduction)
        /\ a.summary.net = Total(nets)
    BY <1>2, <1>5, <1>6 DEF Archive, Summary
  <1>8. Len(sheets) = Len(payload) /\ Len(rows) = Len(payload)
    <2>1. /\ sheets = [i \in DOMAIN data |-> sheets[i]]
          /\ rows = [i \in DOMAIN data |-> rows[i]]
      BY <1>6
    <2> QED
      BY <1>4, <2>1, Mapped
  <1>9. ASSUME NEW i \in DOMAIN payload
        PROVE  /\ payload[i].earnings \in Seq(Int) /\ payload[i].deductions \in Seq(Int)
               /\ payload[i].net >= 0
               /\ TotalPay(data[i]) \in Int /\ TotalDeduction(data[i]) \in Int
               /\ NetPay(data[i]) = payload[i].net
               /\ NetPay(data[i]) = TotalPay(data[i]) - TotalDeduction(data[i])
    <2>1. AmountsFit(payload[i]) /\ payload[i].net >= 0
      BY <1>1 DEF NetsPaid, NetsFit
    <2> QED
      BY <1>3, <2>1, TotalIsAmount DEF AmountsFit, TotalPay, TotalDeduction, NetPay
  <1>10. ASSUME NEW i \in DOMAIN payload
         PROVE  /\ ColumnSum(sheets[i].B) = TotalPay(data[i])
                /\ sheets[i].B[LastItemRow + 2] = TotalPay(data[i])
                /\ ColumnSum(sheets[i].D) = TotalDeduction(data[i])
                /\ sheets[i].D[LastItemRow + 1] = TotalDeduction(data[i])
                /\ sheets[i].D[LastItemRow + 2] = NetPay(data[i])
    <2>1. data[i].earnings \in Seq(Int) /\ data[i].deductions \in Seq(Int)
      BY <1>3, <1>9
    <2>2. ~TooLong(data[i])
      BY <1>2, <1>4 DEF Exportable, ToSet
    <2>3. sheets[i] = Sheet(data[i])
      BY <1>4, <1>6
    <2> QED
      BY <2>1, <2>2, <2>3, SheetAddsUp
  <1>11. ASSUME NEW i \in DOMAIN payload
         PROVE  /\ rows[i].net = NetPay(data[i]) /\ manifest[i].net = NetPay(data[i])
                /\ manifest[i].employee = payload[i].employee
    BY <1>3, <1>4, <1>6 DEF SummaryRow
  <1>12. Total(nets) = Total(pay) - Total(deduction)
    <2>1. /\ pay \in [DOMAIN payload -> Int] /\ deduction \in [DOMAIN payload -> Int]
          /\ nets \in [DOMAIN payload -> Int]
      <3>1. \A i \in DOMAIN payload : NetPay(data[i]) \in Int
        BY <1>9
      <3> QED
        BY <1>4, <1>5, <1>9, <3>1
    <2>2. pay \in Seq(Int) /\ deduction \in Seq(Int) /\ nets \in Seq(Int)
      BY <1>1, <2>1, MappedTo
    <2>3. /\ pay = [i \in DOMAIN data |-> pay[i]]
          /\ deduction = [i \in DOMAIN data |-> deduction[i]]
          /\ nets = [i \in DOMAIN data |-> nets[i]]
      BY <1>5
    <2>4. Len(pay) = Len(data) /\ Len(deduction) = Len(data) /\ Len(nets) = Len(data)
      BY <1>4, <2>3, Mapped
    <2>5. PICK l \in Nat : l = Len(data) /\ DOMAIN data = 1..l
      <3>1. PICK S : data \in Seq(S)
        BY <1>4 DEF IsSeq
      <3> QED
        BY <3>1
    <2>6. \A i \in 1..l : nets[i] = pay[i] - deduction[i]
      BY <1>4, <1>5, <1>9, <2>5
    <2> QED
      BY <2>2, <2>4, <2>5, <2>6, TotalOfDifferences
  <1>13. nets = [i \in DOMAIN payload |-> payload[i].net]
    BY <1>4, <1>5, <1>9
  <1>14. ASSUME NEW i \in DOMAIN payload
         PROVE  LET sheet == a.sheets[i]
                    paid == ColumnSum(sheet.B)
                    deducted == ColumnSum(sheet.D)
                IN  /\ sheet.B[LastItemRow + 2] = paid
                    /\ sheet.D[LastItemRow + 1] = deducted
                    /\ \A net \in {sheet.D[LastItemRow + 2], a.manifest[i].net,
                                   a.summary.rows[i].net, paid - deducted} :
                         net = payload[i].net
                    /\ a.manifest[i].employee = payload[i].employee
                    /\ payload[i].net >= 0
    BY <1>7, <1>9, <1>10, <1>11
  <1> QED
    BY <1>1, <1>7, <1>8, <1>12, <1>13, <1>14

\* Whatever was downloaded is the archive of a snapshot, and on its sheets, in
\* its manifest and in its summary the amounts add up to the nets of that
\* snapshot, none of them negative.
THEOREM ArchiveAddsUpHolds == PayslipsSpec => []ArchiveAddsUp
  <1>1. ASSUME AmountsInv PROVE ArchiveAddsUp
    <2> SUFFICES ASSUME archive # None PROVE ArchiveAddsUp
      BY DEF ArchiveAddsUp
    <2>1. PICK k \in DOMAIN snapshots :
            archive = Archive(snapshots[k]) /\ Exportable(snapshots[k])
      BY <1>1 DEF AmountsInv, ArchiveFits
    <2>2. NetsPaid(snapshots[k].payload) /\ snapshots[k].version = k
      BY <1>1 DEF AmountsInv, SnapshotNets
    <2>3. archive.version = k
      BY <2>1, <2>2 DEF Archive
    <2> QED
      BY <2>1, <2>2, <2>3, ArchiveOfSnapshot DEF ArchiveAddsUp
  <1> QED
    BY <1>1, AmountsAlwaysFit, PTL

-----------------------------------------------------------------------------
(* Numbers *)

LEMMA Greatest ==
  ASSUME NEW T, T \subseteq Nat, T # {}, NEW n \in Nat, \A x \in T : x <= n
  PROVE  \E x \in T : \A y \in T : y <= x
  <1>1. PICK U : U = {n - x : x \in T}
    OBVIOUS
  <1>2. U \subseteq Nat /\ U # {}
    <2>1. \A x \in T : n - x \in Nat
      OBVIOUS
    <2> QED
      BY <1>1, <2>1, Zenon
  <1>3. PICK u \in U : \A w \in U : u <= w
    BY <1>2, Least
  <1>4. PICK x \in T : u = n - x
    BY <1>1, <1>3
  <1>5. ASSUME NEW y \in T PROVE y <= x
    <2>1. n - y \in U
      BY <1>1
    <2>2. n - x <= n - y
      BY <1>3, <1>4, <2>1
    <2> QED
      BY <2>2
  <1> QED
    BY <1>5

\* Products grow with a factor.
LEMMA ProductGrows ==
  ASSUME NEW a \in Nat, NEW b \in Nat, NEW d \in Nat, a <= b
  PROVE  a * d <= b * d
  <1>1. PICK c \in Nat : b = a + c
    <2>1. b - a \in Nat /\ b = a + (b - a)
      OBVIOUS
    <2> QED
      BY <2>1
  <1>2. b * d = a * d + c * d /\ c * d \in Nat /\ a * d \in Nat
    BY <1>1
  <1> QED
    BY <1>2

\* The multiples of d around x are unique.
LEMMA QuotientOf ==
  ASSUME NEW x \in Nat, NEW d \in Nat \ {0}
  PROVE  /\ x \div d \in Nat /\ (x \div d) * d <= x /\ x < (x \div d + 1) * d
         /\ \A q \in Nat : q * d <= x /\ x < (q + 1) * d => q = x \div d
  <1>1. x \div d \in Nat /\ (x \div d) * d <= x /\ x < (x \div d + 1) * d
    OBVIOUS
  <1>2. ASSUME NEW q \in Nat, NEW p \in Nat, q * d <= x, x < (p + 1) * d PROVE q <= p
    <2> SUFFICES ASSUME p < q PROVE FALSE
      OBVIOUS
    <2>1. (p + 1) * d <= q * d
      BY ProductGrows
    <2>2. (p + 1) * d \in Nat /\ q * d \in Nat
      OBVIOUS
    <2> QED
      BY <1>2, <2>1, <2>2
  <1>3. ASSUME NEW q \in Nat, q * d <= x, x < (q + 1) * d PROVE q = x \div d
    <2>1. PICK p \in Nat : p = x \div d
      BY <1>1
    <2>2. q <= p /\ p <= q
      BY <1>1, <1>2, <1>3, <2>1
    <2> QED
      BY <2>1, <2>2
  <1> QED
    BY <1>1, <1>3

LEMMA RemainderOf ==
  ASSUME NEW q \in Nat, NEW d \in Nat \ {0}, NEW r \in Nat, r < d
  PROVE  (q * d + r) % d = r
  <1>1. PICK x \in Nat : x = q * d + r
    OBVIOUS
  <1>2. q * d <= x /\ x < (q + 1) * d
    <2>1. (q + 1) * d = q * d + d /\ q * d \in Nat
      OBVIOUS
    <2> QED
      BY <1>1, <2>1
  <1>3. q = x \div d
    BY <1>2, QuotientOf
  <1>4. x = d * (x \div d) + (x % d) /\ x % d \in Int
    OBVIOUS
  <1>5. PICK p \in Nat : p = q * d
    OBVIOUS
  <1> QED
    BY <1>1, <1>3, <1>4, <1>5

\* Finite sets of numbers have a greatest member.
LEMMA GreatestOfFinite ==
  ASSUME NEW S, S \subseteq Nat, S # {}, IsFiniteSet(S)
  PROVE  \E x \in S : \A y \in S : y <= x
  <1> DEFINE Good == {n \in Nat : \A T \in SUBSET Nat :
                        IsFiniteSet(T) /\ Cardinality(T) = n /\ T # {} =>
                          \E x \in T : \A y \in T : y <= x}
  <1>1. 0 \in Good
    BY FS_EmptySet
  <1>2. ASSUME NEW n \in Nat, n \in Good PROVE n + 1 \in Good
    <2> SUFFICES ASSUME NEW T \in SUBSET Nat, IsFiniteSet(T), Cardinality(T) = n + 1, T # {}
                 PROVE  \E x \in T : \A y \in T : y <= x
      OBVIOUS
    <2>1. PICK a \in T : TRUE
      OBVIOUS
    <2>2. IsFiniteSet(T \ {a}) /\ Cardinality(T \ {a}) = n
      <3>1. IsFiniteSet(T \ {a}) /\ Cardinality(T \ {a}) = Cardinality(T) - 1
        BY FS_RemoveElement, Zenon
      <3>2. (n + 1) - 1 = n
        OBVIOUS
      <3> QED
        BY <3>1, <3>2
    <2>3. CASE T \ {a} = {}
      BY <2>1, <2>3
    <2>4. CASE T \ {a} # {}
      <3>1. PICK x \in T \ {a} : \A y \in T \ {a} : y <= x
        BY <1>2, <2>2, <2>4
      <3>2. x \in Nat /\ a \in Nat
        OBVIOUS
      <3>3. CASE a <= x
        BY <3>1, <3>3
      <3>4. CASE x <= a
        <4>1. \A y \in T \ {a} : y <= a
          BY <3>1, <3>2, <3>4
        <4> QED
          BY <2>1, <3>2, <4>1
      <3> QED
        BY <3>2, <3>3, <3>4
    <2> QED
      BY <2>3, <2>4
  <1> HIDE DEF Good
  <1>3. \A n \in Nat : n \in Good
    BY <1>1, <1>2, CountedUp
  <1>4. Cardinality(S) \in Good
    BY <1>3, FS_CardinalityType
  <1> QED
    BY <1>4 DEF Good
-----------------------------------------------------------------------------
(* sorted *)

LEMMA EventAt ==
  ASSUME NEW evs \in Seq(Event), NEW i \in DOMAIN evs
  PROVE  evs[i] \in Event /\ evs[i].at \in Times /\ evs[i].at \in Nat /\ evs[i].kind \in PunchKind
  <1>1. evs[i] \in Event
    BY ElementOf, Zenon
  <1> QED
    BY <1>1, PayableTimeAssumption DEF Event

LEMMA NoLaterOrders ==
  ASSUME NEW evs \in Seq(Event), NEW i \in DOMAIN evs, NEW j \in DOMAIN evs
  PROVE  /\ NoLater(evs, i, j) \/ NoLater(evs, j, i)
         /\ NoLater(evs, i, j) /\ NoLater(evs, j, i) => i = j
         /\ NoLater(evs, i, j) => evs[i].at <= evs[j].at
         /\ \A k \in DOMAIN evs : NoLater(evs, i, j) /\ NoLater(evs, j, k) => NoLater(evs, i, k)
  <1>1. \A k \in DOMAIN evs : evs[k].at \in Nat /\ k \in Nat
    BY EventAt
  <1> QED
    BY <1>1 DEF NoLater

\* How many events are no later than the event at j.
Earlier(evs, j) == {i \in DOMAIN evs : NoLater(evs, i, j)}

LEMMA PlaceGrows ==
  ASSUME NEW evs \in Seq(Event), NEW i \in DOMAIN evs, NEW j \in DOMAIN evs,
         NoLater(evs, i, j), i # j
  PROVE  /\ Places(evs)[i] \in Nat /\ Places(evs)[j] \in Nat
         /\ Places(evs)[i] < Places(evs)[j]
  <1>1. Places(evs)[i] = Cardinality(Earlier(evs, i)) /\ Places(evs)[j] = Cardinality(Earlier(evs, j))
    BY DEF Places, Earlier
  <1>2. IsFiniteSet(Earlier(evs, j))
    <2>1. IsFiniteSet(1..Len(evs)) /\ DOMAIN evs = 1..Len(evs)
      BY FS_Interval
    <2> QED
      BY <2>1, FS_Subset DEF Earlier
  <1>3. Earlier(evs, i) \subseteq Earlier(evs, j)
    BY NoLaterOrders DEF Earlier
  <1>4. j \in Earlier(evs, j) /\ j \notin Earlier(evs, i)
    BY NoLaterOrders DEF Earlier
  <1>5. Earlier(evs, i) # Earlier(evs, j)
    BY <1>4
  <1>6. /\ IsFiniteSet(Earlier(evs, i))
        /\ Cardinality(Earlier(evs, i)) <= Cardinality(Earlier(evs, j))
        /\ Cardinality(Earlier(evs, j)) # Cardinality(Earlier(evs, i))
    BY <1>2, <1>3, <1>5, FS_Subset
  <1>7. Cardinality(Earlier(evs, i)) \in Nat /\ Cardinality(Earlier(evs, j)) \in Nat
    BY <1>2, <1>6, FS_CardinalityType
  <1> QED
    BY <1>1, <1>6, <1>7

LEMMA PlaceIsIndex ==
  ASSUME NEW evs \in Seq(Event), NEW j \in DOMAIN evs
  PROVE  Places(evs)[j] \in DOMAIN evs
  <1>1. Places(evs)[j] = Cardinality(Earlier(evs, j))
    BY DEF Places, Earlier
  <1>2. PICK n \in Nat : n = Len(evs) /\ DOMAIN evs = 1..n
    OBVIOUS
  <1>3. IsFiniteSet(1..n) /\ Cardinality(1..n) = n
    BY FS_Interval
  <1>4. Earlier(evs, j) \in SUBSET (1..n)
    BY <1>2 DEF Earlier
  <1>5. IsFiniteSet(Earlier(evs, j)) /\ Cardinality(Earlier(evs, j)) <= n
    BY <1>3, <1>4, FS_Subset
  <1>6. j \in Earlier(evs, j)
    BY NoLaterOrders DEF Earlier
  <1>7. Cardinality(Earlier(evs, j)) # 0
    BY <1>5, <1>6, FS_EmptySet
  <1>8. Cardinality(Earlier(evs, j)) \in Nat
    BY <1>5, FS_CardinalityType
  <1> QED
    BY <1>1, <1>2, <1>5, <1>7, <1>8

\* A numbering of the events in the order of their times.
Sorts(evs, order) ==
  /\ order \in [DOMAIN evs -> DOMAIN evs]
  /\ \A j, k \in DOMAIN evs : order[j] = order[k] => j = k
  /\ \A i \in DOMAIN evs : \E k \in DOMAIN evs : order[k] = i
  /\ \A k \in DOMAIN evs : InOrder(evs)[k] = evs[order[k]]
  /\ \A j, k \in DOMAIN evs : j <= k => InOrder(evs)[j].at <= InOrder(evs)[k].at

\* InOrder permutes the events so that their times do not fall.
LEMMA OrderExists ==
  ASSUME NEW evs \in Seq(Event)
  PROVE  \E order : Sorts(evs, order)
  <1> DEFINE D == DOMAIN evs
             place == Places(evs)
             order == [k \in D |-> CHOOSE j \in D : place[j] = k]
  <1>1. place \in [D -> D]
    BY PlaceIsIndex DEF Places
  <1>2. \A i, j \in D : place[i] = place[j] => i = j
    <2> SUFFICES ASSUME NEW i \in D, NEW j \in D, place[i] = place[j], i # j PROVE FALSE
      OBVIOUS
    <2>1. NoLater(evs, i, j) \/ NoLater(evs, j, i)
      BY NoLaterOrders
    <2> QED
      BY <2>1, PlaceGrows
  <1>3. \A k \in D : \E j \in D : place[j] = k
    <2>1. place \in Injection(D, D)
      BY <1>1, <1>2 DEF Injection, IsInjective
    <2>2. IsFiniteSet(D)
      <3>1. DOMAIN evs = 1..Len(evs) /\ IsFiniteSet(1..Len(evs))
        BY FS_Interval
      <3> QED
        BY <3>1
    <2>3. place \in Surjection(D, D)
      BY <2>1, <2>2, FS_Injection
    <2> QED
      BY <2>3 DEF Surjection
  <1>4. \A k \in D : order[k] \in D /\ place[order[k]] = k
    BY <1>3
  <1>5. \A k \in D : InOrder(evs)[k] = evs[order[k]]
    BY DEF InOrder
  <1>6. ASSUME NEW j \in D, NEW k \in D, j <= k
        PROVE  evs[order[j]].at <= evs[order[k]].at
    <2>1. CASE NoLater(evs, order[j], order[k])
      BY <1>4, <2>1, NoLaterOrders
    <2>2. CASE ~NoLater(evs, order[j], order[k])
      <3>0. order[j] \in D /\ order[k] \in D
        BY <1>4
      <3>1. NoLater(evs, order[k], order[j]) /\ order[k] # order[j]
        <4> HIDE DEF order
        <4> QED
          BY <3>0, <2>2, NoLaterOrders
      <3>2. k < j
        BY <1>4, <3>1, PlaceGrows
      <3> QED
        BY <1>6, <3>2
    <2> QED
      BY <2>1, <2>2
  <1>7. \A i \in D : place[i] \in D /\ order[place[i]] = i
    BY <1>1, <1>2, <1>4
  <1>8. order \in [D -> D] /\ \A j, k \in D : order[j] = order[k] => j = k
    BY <1>4
  <1>9. \A j, k \in D : j <= k => InOrder(evs)[j].at <= InOrder(evs)[k].at
    <2> HIDE DEF order
    <2> QED
      BY <1>5, <1>6
  <1>10. \A i \in D : \E k \in D : order[k] = i
    <2> HIDE DEF order, place
    <2> QED
      BY <1>7
  <1> HIDE DEF order
  <1> QED
    BY <1>5, <1>8, <1>9, <1>10 DEF Sorts

LEMMA OrderedType ==
  ASSUME NEW evs \in Seq(Event)
  PROVE  InOrder(evs) \in Seq(Event) /\ Len(InOrder(evs)) = Len(evs) /\ DOMAIN InOrder(evs) = DOMAIN evs
  <1>1. PICK order : Sorts(evs, order)
    BY OrderExists
  <1>2. PICK n \in Nat : n = Len(evs) /\ DOMAIN evs = 1..n
    OBVIOUS
  <1>3. \A k \in 1..n : InOrder(evs)[k] \in Event
    BY <1>1, <1>2, EventAt DEF Sorts
  <1>4. DOMAIN InOrder(evs) = 1..n
    BY <1>2 DEF InOrder
  <1>5. InOrder(evs) \in [1..n -> Event]
    <2>1. InOrder(evs) = [k \in 1..n |-> InOrder(evs)[k]]
      <3>1. InOrder(evs) = [k \in 1..n |-> evs[CHOOSE j \in DOMAIN evs : Places(evs)[j] = k]]
        BY <1>2 DEF InOrder
      <3> QED
        BY <3>1
    <2> QED
      BY <1>3, <2>1
  <1> QED
    BY <1>2, <1>4, <1>5

LEMMA PunchKeeps ==
  ASSUME EventsTypeOK, NEW kind \in PunchKind, NEW at \in Times, Punch(kind, at)
  PROVE  EventsTypeOK'
  <1>1. PICK evs : evs = Append(events, [kind |-> kind, at |-> at, zone |-> "UTC"])
    OBVIOUS
  <1>2. [kind |-> kind, at |-> at, zone |-> "UTC"] \in Event
    BY DEF Event
  <1>3. evs \in Seq(Event)
    BY <1>1, <1>2 DEF EventsTypeOK
  <1>4. events' = InOrder(evs)
    BY <1>1 DEF Punch
  <1> QED
    BY <1>3, <1>4, OrderedType DEF EventsTypeOK

LEMMA CorrectTimesKeeps ==
  ASSUME EventsTypeOK, NEW start \in Times, NEW end \in Times, CorrectTimes(start, end)
  PROVE  EventsTypeOK'
  <1>1. PICK n \in Nat : n = Len(events) /\ DOMAIN events = 1..n
    BY DEF EventsTypeOK
  <1>2. ASSUME NEW i \in 1..n PROVE Corrected(events, start, end)[i] \in Event
    <2>1. events[i] \in Event
      BY <1>1, EventAt DEF EventsTypeOK
    <2> QED
      BY <1>1, <2>1 DEF Corrected, Event, PunchKind
  <1>3. Corrected(events, start, end) = [i \in 1..n |-> Corrected(events, start, end)[i]]
    BY <1>1 DEF Corrected
  <1>4. Corrected(events, start, end) \in [1..n -> Event]
    BY <1>2, <1>3
  <1> QED
    BY <1>4 DEF CorrectTimes, EventsTypeOK

\* The effective sequence of a shift is a sequence of events.
THEOREM EventsTypeCorrect == TimeSpec => []EventsTypeOK
  <1>1. TimeInit => EventsTypeOK
    BY DEF TimeInit, EventsTypeOK
  <1>2. EventsTypeOK /\ [TimeNext]_events => EventsTypeOK'
    <2> SUFFICES ASSUME EventsTypeOK, [TimeNext]_events PROVE EventsTypeOK'
      OBVIOUS
    <2>1. CASE TimeNext
      BY <2>1, PunchKeeps, CorrectTimesKeeps DEF TimeNext
    <2>2. CASE UNCHANGED events
      BY <2>2 DEF EventsTypeOK
    <2> QED
      BY <2>1, <2>2
  <1> QED
    BY <1>1, <1>2, PTL DEF TimeSpec

-----------------------------------------------------------------------------
(* The loop over the events *)

WalkStates == [state : {"WORKING", "ON_BREAK", "DONE", "ILLEGAL", "ILLEGAL_ON_BREAK"},
               since : Event,
               done  : SUBSET [start : Times, end : Times, zone : {"UTC", "KST"}]]

LEMMA AdvanceType ==
  ASSUME NEW acc \in WalkStates, NEW ev \in Event
  PROVE  Advance(acc, ev) \in WalkStates
  <1>1. Interval(acc.since, ev) \in [start : Times, end : Times, zone : {"UTC", "KST"}]
    BY DEF Interval, WalkStates, Event
  <1>2. Stopped(acc, ev) \in WalkStates
    BY <1>1 DEF Stopped, Walked, WalkStates
  <1>3. \A s \in {"WORKING", "DONE", "ILLEGAL", "ILLEGAL_ON_BREAK"}, since \in Event :
          Walked(s, since, acc.done) \in WalkStates
    BY DEF Walked, WalkStates
  <1>4. acc.since \in Event
    BY DEF WalkStates
  <1> QED
    BY <1>2, <1>3, <1>4 DEF Advance, WalkStates

\* f is the run of the loop over the events of p.
Walks(f, p) ==
  /\ f[1] = Walked("WORKING", p[1], {})
  /\ \A k \in 2..Len(p) : f[k] = Advance(f[k - 1], p[k])
  /\ Walk(p) = f[Len(p)]

LEMMA WalkExists ==
  ASSUME NEW p \in Seq(Event), NEW n \in Nat \ {0}, n = Len(p)
  PROVE  \E f \in [1..n -> WalkStates] : Walks(f, p)
  <1>0. \A k \in 1..n : p[k] \in Event
    BY ElementOf
  <1>1. PICK step \in [Nat -> [WalkStates -> WalkStates]] :
          \A k \in 1..(n - 1), x \in WalkStates : step[k][x] = Advance(x, p[k + 1])
    <2> DEFINE s == [k \in Nat |-> [x \in WalkStates |-> IF k \in 1..(n - 1) THEN Advance(x, p[k + 1]) ELSE x]]
    <2>1. \A k \in Nat : k \in 1..(n - 1) => k + 1 \in 1..n
      OBVIOUS
    <2>2. \A k \in Nat, x \in WalkStates : k \in 1..(n - 1) => Advance(x, p[k + 1]) \in WalkStates
      BY <1>0, <2>1, AdvanceType
    <2>3. s \in [Nat -> [WalkStates -> WalkStates]]
      BY <2>2
    <2>4. \A k \in 1..(n - 1), x \in WalkStates : s[k][x] = Advance(x, p[k + 1])
      OBVIOUS
    <2> HIDE DEF s
    <2> QED
      BY <2>3, <2>4
  <1>2. PICK first \in WalkStates : first = Walked("WORKING", p[1], {})
    <2>1. p[1] \in Event
      BY <1>0
    <2> QED
      BY <2>1 DEF Walked, WalkStates
  <1>3. StepsIn(WalkStates, first, step)
    BY <1>1, <1>2, Zenon DEF StepsIn
  <1>4. n - 1 \in Nat
    OBVIOUS
  <1>5. PICK h \in [0..(n - 1) -> WalkStates] : StepsUpTo(h, n - 1, first, step)
    BY <1>3, <1>4, RecursionUpTo, Zenon
  <1> DEFINE g == [k \in 1..n |-> h[k - 1]]
  <1>6. g \in [1..n -> WalkStates]
    <2>1. \A k \in 1..n : k - 1 \in 0..(n - 1)
      OBVIOUS
    <2> QED
      BY <1>5, <2>1
  <1>7. g[1] = first
    BY <1>5 DEF StepsUpTo
  <1>8. ASSUME NEW k \in 2..n PROVE g[k] = Advance(g[k - 1], p[k])
    <2>1. k - 1 \in 1..(n - 1) /\ k - 1 \in 1..n /\ k \in 1..n /\ (k - 1) + 1 = k
      OBVIOUS
    <2>2. h[k - 1] = step[k - 1][h[(k - 1) - 1]]
      BY <1>5, <2>1 DEF StepsUpTo
    <2>3. g[k] = h[k - 1] /\ g[k - 1] = h[(k - 1) - 1]
      BY <2>1
    <2>4. g[k - 1] \in WalkStates
      BY <1>6, <2>1
    <2>5. step[k - 1][g[k - 1]] = Advance(g[k - 1], p[(k - 1) + 1])
      BY <1>1, <2>1, <2>4, Zenon
    <2> QED
      BY <2>1, <2>2, <2>3, <2>5
  <1> HIDE DEF g
  <1>9. g = [k \in 1..n |-> IF k = 1 THEN Walked("WORKING", p[1], {}) ELSE Advance(g[k - 1], p[k])]
    <2>1. \A k \in 1..n : k # 1 => k \in 2..n
      OBVIOUS
    <2> QED
      BY <1>2, <1>6, <1>7, <1>8, <2>1
  <1> DEFINE f == CHOOSE f : f = [k \in 1..Len(p) |-> IF k = 1 THEN Walked("WORKING", p[1], {}) ELSE Advance(f[k - 1], p[k])]
  <1>10. f = [k \in 1..n |-> IF k = 1 THEN Walked("WORKING", p[1], {}) ELSE Advance(f[k - 1], p[k])]
    BY <1>9
  <1>11. Walk(p) = f[n]
    BY DEF Walk
  <1> HIDE DEF f
  <1>12. f[1] = first /\ \A k \in 2..n : f[k] = Advance(f[k - 1], p[k])
    <2>1. \A k \in 2..n : k \in 1..n /\ k # 1
      OBVIOUS
    <2>2. 1 \in 1..n
      OBVIOUS
    <2> QED
      BY <1>2, <1>10, <2>1, <2>2
  <1> DEFINE Same == {k \in Nat : k + 1 <= n => f[k + 1] = g[k + 1]}
  <1>13. 0 \in Same
    BY <1>7, <1>12
  <1>14. ASSUME NEW k \in Nat, k \in Same PROVE k + 1 \in Same
    <2> SUFFICES ASSUME (k + 1) + 1 <= n PROVE f[(k + 1) + 1] = g[(k + 1) + 1]
      OBVIOUS
    <2>1. (k + 1) + 1 \in 2..n /\ ((k + 1) + 1) - 1 = k + 1 /\ f[k + 1] = g[k + 1]
      BY <1>14
    <2> QED
      BY <2>1, <1>8, <1>12
  <1> HIDE DEF Same
  <1>15. n - 1 \in Same
    BY <1>4, <1>13, <1>14, CountedUp
  <1>16. Walk(p) = g[n]
    BY <1>11, <1>15 DEF Same
  <1>17. Walks(g, p)
    BY <1>2, <1>7, <1>8, <1>16 DEF Walks
  <1> QED
    BY <1>6, <1>17

\* The kinds of the first k events are those of a shift that is still open.
Regular(p, k) ==
  \A j \in 1..k : p[j].kind = IF j = 1 THEN "CLOCK_IN" ELSE IF j % 2 = 0 THEN "BREAK_START" ELSE "BREAK_END"
ClosedAt(p, k) == k % 2 = 0 /\ Regular(p, k - 1) /\ p[k].kind = "CLOCK_OUT"

\* From each odd event to the next, up to event k.
Odd(k) == {j \in 1..(k - 1) : j % 2 = 1}
Worked(p, k) == {Interval(p[j], p[j + 1]) : j \in Odd(k)}

\* What the loop knows after k events.
WalkIs(f, p, k) ==
  /\ Regular(p, k) /\ k % 2 = 1 => f[k] = Walked("WORKING", p[k], Worked(p, k))
  /\ Regular(p, k) /\ k % 2 = 0 => f[k] = Walked("ON_BREAK", p[k - 1], Worked(p, k))
  /\ ClosedAt(p, k) => f[k] = Walked("DONE", p[k - 1], Worked(p, k))
  /\ ~Regular(p, k) /\ ~ClosedAt(p, k) => f[k].state \in {"ILLEGAL", "ILLEGAL_ON_BREAK"}

LEMMA WalkedFields ==
  ASSUME NEW s, NEW e, NEW d
  PROVE  Walked(s, e, d).state = s /\ Walked(s, e, d).since = e /\ Walked(s, e, d).done = d
  BY DEF Walked

\* What one round makes of acc and ev.
Outcome(acc, ev, next) ==
  /\ acc.state = "WORKING" /\ ev.kind = "BREAK_START" =>
       next = Walked("ON_BREAK", acc.since, acc.done \cup {Interval(acc.since, ev)})
  /\ acc.state = "WORKING" /\ ev.kind = "CLOCK_OUT" =>
       next = Walked("DONE", acc.since, acc.done \cup {Interval(acc.since, ev)})
  /\ acc.state = "WORKING" /\ ev.kind \notin {"BREAK_START", "CLOCK_OUT"} =>
       next.state = "ILLEGAL"
  /\ acc.state = "ON_BREAK" /\ ev.kind = "BREAK_END" => next = Walked("WORKING", ev, acc.done)
  /\ acc.state = "ON_BREAK" /\ ev.kind # "BREAK_END" => next.state = "ILLEGAL_ON_BREAK"
  /\ acc.state \in {"DONE", "ILLEGAL"} => next.state = "ILLEGAL"
  /\ acc.state = "ILLEGAL_ON_BREAK" => next = acc

LEMMA AdvanceIs == ASSUME NEW acc, NEW ev PROVE Outcome(acc, ev, Advance(acc, ev))
  <1> USE DEF Outcome
  <1>1. CASE acc.state = "WORKING" /\ ev.kind = "BREAK_START"
    BY <1>1 DEF Advance, Stopped
  <1>2. CASE acc.state = "WORKING" /\ ev.kind = "CLOCK_OUT"
    BY <1>2 DEF Advance, Stopped
  <1>3. CASE acc.state = "WORKING" /\ ev.kind \notin {"BREAK_START", "CLOCK_OUT"}
    BY <1>3, WalkedFields DEF Advance
  <1>4. CASE acc.state = "ON_BREAK" /\ ev.kind = "BREAK_END"
    BY <1>4 DEF Advance
  <1>5. CASE acc.state = "ON_BREAK" /\ ev.kind # "BREAK_END"
    BY <1>5, WalkedFields DEF Advance
  <1>6. CASE acc.state \in {"DONE", "ILLEGAL"}
    BY <1>6, WalkedFields DEF Advance
  <1>7. CASE acc.state = "ILLEGAL_ON_BREAK"
    BY <1>7 DEF Advance
  <1> QED
    BY <1>1, <1>2, <1>3, <1>4, <1>5, <1>6, <1>7

LEMMA WorkedNext ==
  ASSUME NEW p, NEW k \in Nat \ {0}
  PROVE  /\ k % 2 = 1 => Worked(p, k + 1) = Worked(p, k) \cup {Interval(p[k], p[k + 1])}
         /\ k % 2 = 0 => Worked(p, k + 1) = Worked(p, k)
  <1>1. k % 2 = 1 => Odd(k + 1) = Odd(k) \cup {k}
    BY DEF Odd
  <1>2. k % 2 = 0 => Odd(k + 1) = Odd(k)
    BY DEF Odd
  <1> QED
    BY <1>1, <1>2, Zenon DEF Worked

LEMMA RegularNext ==
  ASSUME NEW p, NEW k \in Nat \ {0}
  PROVE  /\ Regular(p, k + 1) <=>
              Regular(p, k) /\ p[k + 1].kind = IF k % 2 = 1 THEN "BREAK_START" ELSE "BREAK_END"
         /\ ClosedAt(p, k + 1) <=> k % 2 = 1 /\ Regular(p, k) /\ p[k + 1].kind = "CLOCK_OUT"
         /\ k % 2 \in {0, 1}
  <1>1. (k + 1) % 2 = 0 <=> k % 2 = 1
    OBVIOUS
  <1>2. (k + 1) - 1 = k /\ k + 1 # 1
    OBVIOUS
  <1>3. \A j : j \in 1..(k + 1) <=> j \in 1..k \/ j = k + 1
    OBVIOUS
  <1>4. ClosedAt(p, k + 1) <=> k % 2 = 1 /\ Regular(p, k) /\ p[k + 1].kind = "CLOCK_OUT"
    BY <1>1, <1>2 DEF ClosedAt
  <1>5. k % 2 \in {0, 1}
    OBVIOUS
  <1>6. Regular(p, k + 1) <=>
          Regular(p, k) /\ p[k + 1].kind = IF k % 2 = 1 THEN "BREAK_START" ELSE "BREAK_END"
    BY <1>1, <1>2, <1>3, <1>5, Zenon DEF Regular
  <1> QED
    BY <1>4, <1>5, <1>6

LEMMA WalkNext ==
  ASSUME NEW f, NEW p, NEW k \in Nat \ {0}, WalkIs(f, p, k), f[k + 1] = Advance(f[k], p[k + 1])
  PROVE  WalkIs(f, p, k + 1)
  <1>1. (k + 1) - 1 = k /\ ((k + 1) % 2 = 1 <=> k % 2 = 0) /\ ((k + 1) % 2 = 0 <=> k % 2 = 1)
    OBVIOUS
  <1>2. k % 2 \in {0, 1}
    OBVIOUS
  <1>3. Outcome(f[k], p[k + 1], Advance(f[k], p[k + 1]))
    BY AdvanceIs, Zenon
  <1>4. Outcome(f[k], p[k + 1], f[k + 1])
    BY <1>3
  <1>5. CASE Regular(p, k) /\ k % 2 = 1
    <2>1. f[k].state = "WORKING" /\ f[k].since = p[k] /\ f[k].done = Worked(p, k)
      BY <1>5, WalkedFields DEF WalkIs
    <2>2. CASE p[k + 1].kind = "BREAK_START"
      <3>1. f[k + 1] = Walked("ON_BREAK", p[k], Worked(p, k + 1))
        BY <1>5, <2>1, <2>2, <1>4, WorkedNext DEF Outcome
      <3>2. Regular(p, k + 1) /\ ~ClosedAt(p, k + 1)
        BY <1>5, <2>2, RegularNext
      <3> QED
        BY <1>1, <1>5, <3>1, <3>2 DEF WalkIs
    <2>3. CASE p[k + 1].kind = "CLOCK_OUT"
      <3>1. f[k + 1] = Walked("DONE", p[k], Worked(p, k + 1))
        BY <1>5, <2>1, <2>3, <1>4, WorkedNext DEF Outcome
      <3>2. ~Regular(p, k + 1) /\ ClosedAt(p, k + 1)
        BY <1>5, <2>3, RegularNext
      <3> QED
        BY <1>1, <1>5, <3>1, <3>2 DEF WalkIs
    <2>4. CASE p[k + 1].kind \notin {"BREAK_START", "CLOCK_OUT"}
      <3>1. f[k + 1].state = "ILLEGAL"
        BY <2>1, <2>4, <1>4 DEF Outcome
      <3>2. ~Regular(p, k + 1) /\ ~ClosedAt(p, k + 1)
        BY <1>5, <2>4, RegularNext
      <3> QED
        BY <3>1, <3>2 DEF WalkIs
    <2> QED
      BY <2>2, <2>3, <2>4
  <1>6. CASE Regular(p, k) /\ k % 2 = 0
    <2>1. f[k].state = "ON_BREAK" /\ f[k].done = Worked(p, k)
      BY <1>6, WalkedFields DEF WalkIs
    <2>2. CASE p[k + 1].kind = "BREAK_END"
      <3>1. f[k + 1] = Walked("WORKING", p[k + 1], Worked(p, k + 1))
        BY <1>6, <2>1, <2>2, <1>4, WorkedNext DEF Outcome
      <3>2. Regular(p, k + 1) /\ ~ClosedAt(p, k + 1)
        BY <1>6, <2>2, RegularNext
      <3> QED
        BY <1>1, <1>6, <3>1, <3>2 DEF WalkIs
    <2>3. CASE p[k + 1].kind # "BREAK_END"
      <3>1. f[k + 1].state = "ILLEGAL_ON_BREAK"
        BY <2>1, <2>3, <1>4 DEF Outcome
      <3>2. ~Regular(p, k + 1) /\ ~ClosedAt(p, k + 1)
        BY <1>6, <2>3, RegularNext
      <3> QED
        BY <3>1, <3>2 DEF WalkIs
    <2> QED
      BY <2>2, <2>3
  <1>7. CASE ~Regular(p, k)
    <2>1. f[k].state \in {"DONE", "ILLEGAL", "ILLEGAL_ON_BREAK"}
      BY <1>7, WalkedFields DEF WalkIs
    <2>2. f[k + 1].state \in {"ILLEGAL", "ILLEGAL_ON_BREAK"}
      BY <2>1, <1>4 DEF Outcome
    <2>3. ~Regular(p, k + 1) /\ ~ClosedAt(p, k + 1)
      BY <1>7, RegularNext
    <2> QED
      BY <2>2, <2>3 DEF WalkIs
  <1> QED
    BY <1>2, <1>5, <1>6, <1>7

LEMMA WalkFound ==
  ASSUME NEW p \in Seq(Event), NEW n \in Nat \ {0}, n = Len(p), p[1].kind = "CLOCK_IN"
  PROVE  \E f : Walk(p) = f[n] /\ WalkIs(f, p, n)
  <1>1. PICK f \in [1..n -> WalkStates] : Walks(f, p)
    BY WalkExists, Zenon
  <1> DEFINE Known == {k \in Nat : k + 1 <= n => WalkIs(f, p, k + 1)}
  <1>2. 0 \in Known
    <2>1. Regular(p, 1) /\ ~ClosedAt(p, 1)
      BY DEF Regular, ClosedAt
    <2>2. Worked(p, 1) = {}
      <3>1. Odd(1) = {}
        BY DEF Odd
      <3> QED
        BY <3>1 DEF Worked
    <2>3. WalkIs(f, p, 1)
      <3>1. f[1] = Walked("WORKING", p[1], Worked(p, 1)) /\ 1 % 2 = 1
        <4>1. f[1] = Walked("WORKING", p[1], {})
          BY <1>1 DEF Walks
        <4>2. f[1] = Walked("WORKING", p[1], Worked(p, 1))
          BY <2>2, <4>1, Zenon
        <4>3. 1 % 2 = 1
          OBVIOUS
        <4> QED
          BY <4>2, <4>3, Zenon
      <3> QED
        BY <2>1, <3>1 DEF WalkIs
    <2> QED
      BY <2>3
  <1>3. ASSUME NEW k \in Nat, k \in Known PROVE k + 1 \in Known
    <2> SUFFICES ASSUME (k + 1) + 1 <= n PROVE WalkIs(f, p, (k + 1) + 1)
      OBVIOUS
    <2>1. WalkIs(f, p, k + 1) /\ k + 1 \in Nat \ {0}
      BY <1>3
    <2>2. (k + 1) + 1 \in 2..n /\ ((k + 1) + 1) - 1 = k + 1
      OBVIOUS
    <2>3. f[(k + 1) + 1] = Advance(f[k + 1], p[(k + 1) + 1])
      BY <1>1, <2>2 DEF Walks
    <2> QED
      BY <2>1, <2>3, WalkNext
  <1> HIDE DEF Known
  <1>4. n - 1 \in Known
    BY <1>2, <1>3, CountedUp
  <1>5. WalkIs(f, p, n)
    BY <1>4 DEF Known
  <1> QED
    BY <1>1, <1>5 DEF Walks

LEMMA WellFormedIs ==
  ASSUME NEW p \in Seq(Event), NEW n \in Nat, n = Len(p)
  PROVE  WellFormed(p) <=> n # 0 /\ p[1].kind = "CLOCK_IN" /\ ClosedAt(p, n)
  <1>1. ASSUME WellFormed(p) PROVE n # 0 /\ p[1].kind = "CLOCK_IN" /\ ClosedAt(p, n)
    <2>1. n >= 2 /\ n % 2 = 0 /\ DOMAIN p = 1..n
      BY <1>1 DEF WellFormed
    <2>2. \A i \in 1..n : p[i].kind = IF i = 1 THEN "CLOCK_IN" ELSE IF i = n THEN "CLOCK_OUT"
                                      ELSE IF i % 2 = 0 THEN "BREAK_START" ELSE "BREAK_END"
      BY <1>1, <2>1 DEF WellFormed
    <2>3. \A j \in 1..(n - 1) : j \in 1..n /\ j # n
      OBVIOUS
    <2>4. Regular(p, n - 1)
      BY <2>2, <2>3, Zenon DEF Regular
    <2>5. 1 \in 1..n /\ n \in 1..n /\ n # 1
      BY <2>1
    <2> QED
      BY <2>1, <2>2, <2>4, <2>5 DEF ClosedAt
  <1>2. ASSUME n # 0, p[1].kind = "CLOCK_IN", ClosedAt(p, n) PROVE WellFormed(p)
    <2>1. n >= 2 /\ n % 2 = 0 /\ DOMAIN p = 1..n
      BY <1>2 DEF ClosedAt
    <2>2. \A i \in 1..n : i = n \/ i \in 1..(n - 1)
      OBVIOUS
    <2>3. ASSUME NEW i \in 1..n
          PROVE  p[i].kind = IF i = 1 THEN "CLOCK_IN" ELSE IF i = n THEN "CLOCK_OUT"
                             ELSE IF i % 2 = 0 THEN "BREAK_START" ELSE "BREAK_END"
      BY <1>2, <2>1, <2>2 DEF ClosedAt, Regular
    <2> QED
      BY <2>1, <2>3 DEF WellFormed
  <1> QED
    BY <1>1, <1>2

LEMMA WalkResult ==
  ASSUME NEW p \in Seq(Event), NEW n \in Nat \ {0}, n = Len(p),
         p[1].kind = "CLOCK_IN", p[n].kind = "CLOCK_OUT"
  PROVE  /\ WellFormed(p) => Walk(p).state = "DONE" /\ Walk(p).done = Worked(p, n)
         /\ ~WellFormed(p) => Walk(p).state \in {"ILLEGAL", "ILLEGAL_ON_BREAK"}
  <1>1. PICK f : Walk(p) = f[n] /\ WalkIs(f, p, n)
    BY WalkFound
  <1>2. WellFormed(p) <=> ClosedAt(p, n)
    BY WellFormedIs
  <1>3. ~Regular(p, n)
    <2>1. n \in 1..n
      OBVIOUS
    <2> QED
      BY <2>1 DEF Regular
  <1>4. ClosedAt(p, n) => f[n] = Walked("DONE", p[n - 1], Worked(p, n))
    BY <1>1 DEF WalkIs
  <1>5. ~ClosedAt(p, n) => f[n].state \in {"ILLEGAL", "ILLEGAL_ON_BREAK"}
    BY <1>1, <1>3 DEF WalkIs
  <1> QED
    BY <1>1, <1>2, <1>4, <1>5, WalkedFields

\* The intervals of a well-formed sequence that have a length.
Spans(p) == {w \in Worked(p, Len(p)) : w.start < w.end}

LEMMA WorkIs ==
  ASSUME NEW evs \in Seq(Event), NEW p, p = InOrder(evs)
  PROVE  /\ WellFormed(p) => WorkIntervals(evs) = [intervals |-> Spans(p), blockers |-> {}]
         /\ ~WellFormed(p) =>
              /\ WorkIntervals(evs).intervals = {}
              /\ WorkIntervals(evs).blockers # {}
              /\ \/ "ILLEGAL_SEQUENCE" \in WorkIntervals(evs).blockers
                 \/ p # <<>> /\ p[1].kind = "CLOCK_IN" /\ "OPEN_SHIFT" \in WorkIntervals(evs).blockers
  <1>1. p \in Seq(Event)
    BY OrderedType
  <1>2. PICK n \in Nat : n = Len(p)
    BY <1>1
  <1>3. p = <<>> <=> n = 0
    BY <1>1, <1>2
  <1>4. CASE n = 0 \/ p[1].kind # "CLOCK_IN"
    <2>1. ~WellFormed(p)
      BY <1>1, <1>2, <1>4, WellFormedIs
    <2>2. WorkIntervals(evs) = Blocked({"ILLEGAL_SEQUENCE"})
      BY <1>3, <1>4, Zenon DEF WorkIntervals
    <2> QED
      BY <2>1, <2>2 DEF Blocked
  <1>5. CASE n # 0 /\ p[1].kind = "CLOCK_IN" /\ p[n].kind # "CLOCK_OUT"
    <2>1. ~WellFormed(p)
      BY <1>1, <1>2, <1>5, WellFormedIs DEF ClosedAt
    <2>2. WorkIntervals(evs) = Blocked({"OPEN_SHIFT"})
      BY <1>2, <1>3, <1>5, Zenon DEF WorkIntervals
    <2> QED
      BY <1>3, <1>5, <2>1, <2>2 DEF Blocked
  <1>6. CASE n # 0 /\ p[1].kind = "CLOCK_IN" /\ p[n].kind = "CLOCK_OUT"
    <2>1. /\ WellFormed(p) => Walk(p).state = "DONE" /\ Walk(p).done = Worked(p, n)
          /\ ~WellFormed(p) => Walk(p).state \in {"ILLEGAL", "ILLEGAL_ON_BREAK"}
      BY <1>1, <1>2, <1>6, WalkResult
    <2>2. WorkIntervals(evs) =
            IF Walk(p).state = "ILLEGAL" THEN Blocked({"ILLEGAL_SEQUENCE"})
            ELSE IF Walk(p).state = "ILLEGAL_ON_BREAK" THEN Blocked({"ILLEGAL_SEQUENCE", "UNPAIRED_BREAK"})
            ELSE [intervals |-> {i \in Walk(p).done : i.start < i.end}, blockers |-> {}]
      BY <1>2, <1>3, <1>6, Zenon DEF WorkIntervals
    <2>3. CASE WellFormed(p)
      <3>1. WorkIntervals(evs) = [intervals |-> {i \in Walk(p).done : i.start < i.end}, blockers |-> {}]
        BY <2>1, <2>2, <2>3
      <3>2. Walk(p).done = Worked(p, Len(p))
        BY <1>2, <2>1, <2>3
      <3>3. WorkIntervals(evs) = [intervals |-> Spans(p), blockers |-> {}]
        BY <3>1, <3>2, Zenon DEF Spans
      <3> QED
        BY <2>3, <3>3, Zenon
    <2>4. CASE ~WellFormed(p)
      <3>1. WorkIntervals(evs) \in {Blocked({"ILLEGAL_SEQUENCE"}), Blocked({"ILLEGAL_SEQUENCE", "UNPAIRED_BREAK"})}
        BY <2>1, <2>2, <2>4
      <3>2. WorkIntervals(evs).intervals = {} /\ "ILLEGAL_SEQUENCE" \in WorkIntervals(evs).blockers
        <4>1. CASE WorkIntervals(evs) = Blocked({"ILLEGAL_SEQUENCE"})
          BY <4>1 DEF Blocked
        <4>2. CASE WorkIntervals(evs) = Blocked({"ILLEGAL_SEQUENCE", "UNPAIRED_BREAK"})
          BY <4>2 DEF Blocked
        <4> QED
          BY <3>1, <4>1, <4>2
      <3> QED
        BY <2>4, <3>2
    <2> QED
      BY <2>3, <2>4
  <1> QED
    BY <1>4, <1>5, <1>6

LEMMA CalculateIs ==
  ASSUME NEW evs \in Seq(Event)
  PROVE  /\ Calculate(evs).blockers = WorkIntervals(evs).blockers
         /\ Calculate(evs).segments = UNION {Split(i) : i \in WorkIntervals(evs).intervals}
  BY DEF Calculate

\* What is not CLOCK_IN, paired breaks and CLOCK_OUT is blocked and pays
\* nothing (the error paths of calculate).
THEOREM BlockedUnlessWellFormedHolds == TimeSpec => []BlockedUnlessWellFormed
  <1>1. EventsTypeOK => BlockedUnlessWellFormed
    <2> SUFFICES ASSUME EventsTypeOK PROVE BlockedUnlessWellFormed
      OBVIOUS
    <2>1. PICK p : p = InOrder(events)
      OBVIOUS
    <2>2. events \in Seq(Event)
      BY DEF EventsTypeOK
    <2>3. Result.blockers = {} <=> WellFormed(p)
      BY <2>1, <2>2, WorkIs, CalculateIs DEF Result
    <2>4. ASSUME ~WellFormed(p) PROVE Result.segments = {}
      <3>1. WorkIntervals(events).intervals = {}
        BY <2>1, <2>2, <2>4, WorkIs
      <3>2. Result.segments = UNION {Split(i) : i \in WorkIntervals(events).intervals}
        BY <2>2, CalculateIs DEF Result
      <3> QED
        BY <3>1, <3>2
    <2> QED
      BY <2>1, <2>3, <2>4 DEF BlockedUnlessWellFormed
  <1> QED
    BY <1>1, EventsTypeCorrect, PTL

-----------------------------------------------------------------------------
(* Segments *)

LEMMA CutsAre ==
  ASSUME NEW i, i.start \in Nat, i.end \in Nat, i.start < i.end
  PROVE  /\ Cuts(i) \subseteq Nat
         /\ i.start \in Cuts(i) /\ i.end \in Cuts(i)
         /\ \A c \in Cuts(i) : i.start <= c /\ c <= i.end
         /\ \A c \in Cuts(i) \ {i.end} : c < i.end
  <1>1. \A c \in Midnights(i) : c \in Nat /\ i.start < c /\ c < i.end
    BY DEF Midnights
  <1> QED
    BY <1>1 DEF Cuts

LEMMA NextCutIs ==
  ASSUME NEW i, i.start \in Nat, i.end \in Nat, i.start < i.end, NEW a \in Cuts(i) \ {i.end}
  PROVE  /\ NextCut(i, a) \in Cuts(i) /\ NextCut(i, a) \in Nat /\ a \in Nat /\ a < NextCut(i, a)
         /\ \A c \in Cuts(i) : a < c => NextCut(i, a) <= c
  <1>1. PICK later : later = {c \in Cuts(i) : a < c}
    OBVIOUS
  <1>2. Cuts(i) \subseteq Nat /\ i.end \in Cuts(i) /\ a < i.end
    BY CutsAre
  <1>3. later \subseteq Nat /\ later # {}
    BY <1>1, <1>2
  <1>4. PICK b \in later : \A c \in later : b <= c
    BY <1>3, Least
  <1>5. b \in Cuts(i) /\ a < b /\ \A c \in Cuts(i) : a < c => b <= c
    BY <1>1, <1>4
  <1>6. /\ NextCut(i, a) \in Cuts(i) /\ a < NextCut(i, a)
        /\ \A c \in Cuts(i) : a < c => NextCut(i, a) <= c
    BY <1>5, Zenon DEF NextCut
  <1> QED
    BY <1>2, <1>6

\* The segments of an interval partition it; none has a cut inside.
LEMMA SegmentIs ==
  ASSUME NEW i, i.start \in Nat, i.end \in Nat, i.start < i.end, NEW s \in Split(i)
  PROVE  /\ s = [start |-> s.start, end |-> s.end]
         /\ s.start \in Cuts(i) \ {i.end} /\ s.end = NextCut(i, s.start)
         /\ s.start \in Nat /\ s.end \in Nat
         /\ i.start <= s.start /\ s.start < s.end /\ s.end <= i.end
         /\ s.end \in Cuts(i) /\ \A c \in Cuts(i) : s.start < c => s.end <= c
  <1>1. PICK a \in Cuts(i) \ {i.end} : s = [start |-> a, end |-> NextCut(i, a)]
    BY DEF Split
  <1>2. s.start = a /\ s.end = NextCut(i, a)
    BY <1>1
  <1>3. /\ s.end \in Cuts(i) /\ s.end \in Nat /\ s.start \in Nat /\ s.start < s.end
        /\ \A c \in Cuts(i) : s.start < c => s.end <= c
    BY <1>2, NextCutIs
  <1>4. i.start <= s.start /\ s.end <= i.end
    BY <1>2, <1>3, CutsAre
  <1> QED
    BY <1>1, <1>2, <1>3, <1>4

LEMMA SegmentExists ==
  ASSUME NEW i, i.start \in Nat, i.end \in Nat, NEW t \in Nat, Includes(i, t)
  PROVE  \E s \in Split(i) : Includes(s, t)
  <1>1. i.start <= t /\ t < i.end
    BY DEF Includes
  <1>2. i.start < i.end
    BY <1>1
  <1>3. PICK T : T = {c \in Cuts(i) : c <= t}
    OBVIOUS
  <1>4. T \subseteq Nat /\ T # {} /\ \A c \in T : c <= t
    BY <1>1, <1>2, <1>3, CutsAre
  <1>5. PICK a \in T : \A c \in T : c <= a
    BY <1>4, Greatest
  <1>6. a \in Cuts(i) \ {i.end} /\ a <= t /\ a \in Nat
    BY <1>1, <1>3, <1>4, <1>5
  <1>7. NextCut(i, a) \in Cuts(i) /\ NextCut(i, a) \in Nat /\ a < NextCut(i, a)
    BY <1>2, <1>6, NextCutIs
  <1>8. t < NextCut(i, a)
    <2> SUFFICES ASSUME NextCut(i, a) <= t PROVE FALSE
      BY <1>7
    <2>1. NextCut(i, a) \in T
      BY <1>3, <1>7
    <2> QED
      BY <1>5, <1>6, <1>7, <2>1
  <1>9. PICK s : s = [start |-> a, end |-> NextCut(i, a)]
    OBVIOUS
  <1>10. s \in Split(i)
    BY <1>6, <1>9 DEF Split
  <1> QED
    BY <1>6, <1>8, <1>9, <1>10 DEF Includes

LEMMA SegmentUnique ==
  ASSUME NEW i, i.start \in Nat, i.end \in Nat, i.start < i.end, NEW t \in Nat,
         NEW s \in Split(i), NEW r \in Split(i), Includes(s, t), Includes(r, t)
  PROVE  s = r
  <1>1. s.start \in Nat /\ r.start \in Nat /\ s.end \in Nat /\ r.end \in Nat
    BY SegmentIs
  <1>2. s.start \in Cuts(i) /\ r.start \in Cuts(i)
    BY SegmentIs
  <1>3. s.start <= t /\ t < s.end /\ r.start <= t /\ t < r.end
    BY DEF Includes
  <1>4. ~(s.start < r.start)
    <2>1. s.start < r.start => s.end <= r.start
      BY <1>2, SegmentIs
    <2> QED
      BY <1>1, <1>3, <2>1
  <1>5. ~(r.start < s.start)
    <2>1. r.start < s.start => r.end <= s.start
      BY <1>2, SegmentIs
    <2> QED
      BY <1>1, <1>3, <2>1
  <1>6. s.start = r.start
    BY <1>1, <1>4, <1>5
  <1>7. s.end = r.end
    BY <1>6, SegmentIs
  <1>8. s = [start |-> s.start, end |-> s.end] /\ r = [start |-> r.start, end |-> r.end]
    BY SegmentIs
  <1> QED
    BY <1>6, <1>7, <1>8

\* Of the well-formed sequence p of evs.
Sorted(evs, p, n) == evs \in Seq(Event) /\ p = InOrder(evs) /\ n = Len(p) /\ n \in Nat

LEMMA SortedAt ==
  ASSUME NEW evs, NEW p, NEW n, Sorted(evs, p, n)
  PROVE  /\ \A j \in 1..n : p[j] \in Event /\ p[j].at \in Times /\ p[j].at \in Nat
         /\ \A j, k \in 1..n : j <= k => p[j].at <= p[k].at
         /\ p \in Seq(Event) /\ DOMAIN p = 1..n /\ DOMAIN evs = 1..n
  <1>1. p \in Seq(Event) /\ DOMAIN p = 1..n /\ DOMAIN evs = 1..n
    BY OrderedType DEF Sorted
  <1>2. \A j \in 1..n : p[j] \in Event /\ p[j].at \in Times /\ p[j].at \in Nat
    BY <1>1, EventAt
  <1>3. PICK order : Sorts(evs, order)
    BY OrderExists DEF Sorted
  <1>4. \A j, k \in 1..n : j <= k => p[j].at <= p[k].at
    BY <1>1, <1>3 DEF Sorts, Sorted
  <1> QED
    BY <1>1, <1>2, <1>4

\* An interval is the time from an odd event to the next.
LEMMA IntervalIs ==
  ASSUME NEW evs, NEW p, NEW n, Sorted(evs, p, n), WellFormed(p),
         NEW i, i \in WorkIntervals(evs).intervals
  PROVE  /\ \E j \in Odd(n) : i = Interval(p[j], p[j + 1])
         /\ i.start \in Nat /\ i.end \in Nat /\ i.start < i.end
  <1>1. WorkIntervals(evs).intervals = Spans(p)
    BY WorkIs DEF Sorted
  <1>2. i \in Worked(p, n) /\ i.start < i.end
    BY <1>1 DEF Spans, Sorted
  <1>3. PICK j \in Odd(n) : i = Interval(p[j], p[j + 1])
    BY <1>2 DEF Worked
  <1>4. j \in 1..n /\ j + 1 \in 1..n
    BY DEF Odd, Sorted
  <1>5. i.start = p[j].at /\ i.end = p[j + 1].at
    BY <1>3 DEF Interval
  <1> QED
    BY <1>2, <1>3, <1>4, <1>5, SortedAt

LEMMA SegmentsAre ==
  ASSUME NEW evs, NEW p, NEW n, Sorted(evs, p, n), WellFormed(p),
         NEW s \in Calculate(evs).segments
  PROVE  \E i \in WorkIntervals(evs).intervals : s \in Split(i)
  <1>1. s \in UNION {Split(i) : i \in WorkIntervals(evs).intervals}
    BY CalculateIs DEF Sorted
  <1> QED
    BY <1>1

LEMMA SegmentsCover ==
  ASSUME NEW evs, NEW p, NEW n, Sorted(evs, p, n), WellFormed(p), NEW t \in Nat
  PROVE  (\E s \in Calculate(evs).segments : Includes(s, t)) <=>
           \E j \in Odd(n) : p[j].at <= t /\ t < p[j + 1].at
  <1>1. ASSUME NEW s \in Calculate(evs).segments, Includes(s, t)
        PROVE  \E j \in Odd(n) : p[j].at <= t /\ t < p[j + 1].at
    <2>1. PICK i \in WorkIntervals(evs).intervals : s \in Split(i)
      BY SegmentsAre
    <2>2. i.start \in Nat /\ i.end \in Nat /\ i.start < i.end
      BY IntervalIs
    <2>3. PICK j \in Odd(n) : i = Interval(p[j], p[j + 1])
      BY IntervalIs
    <2>4. s.start \in Nat /\ s.end \in Nat /\ i.start <= s.start /\ s.end <= i.end
      BY <2>1, <2>2, SegmentIs
    <2>5. i.start <= t /\ t < i.end
      BY <1>1, <2>2, <2>4 DEF Includes
    <2>6. i.start = p[j].at /\ i.end = p[j + 1].at
      BY <2>3 DEF Interval
    <2> QED
      BY <2>5, <2>6
  <1>2. ASSUME NEW j \in Odd(n), p[j].at <= t, t < p[j + 1].at
        PROVE  \E s \in Calculate(evs).segments : Includes(s, t)
    <2>1. PICK i : i = Interval(p[j], p[j + 1])
      OBVIOUS
    <2>2. i.start = p[j].at /\ i.end = p[j + 1].at
      BY <2>1 DEF Interval
    <2>3. j \in 1..n /\ j + 1 \in 1..n
      BY DEF Odd, Sorted
    <2>4. i.start \in Nat /\ i.end \in Nat /\ i.start < i.end
      BY <1>2, <2>2, <2>3, SortedAt
    <2>5. i \in Spans(p)
      <3>1. i \in Worked(p, n)
        BY <2>1 DEF Worked
      <3> QED
        BY <2>4, <3>1 DEF Spans, Sorted
    <2>6. i \in WorkIntervals(evs).intervals
      BY <2>5, WorkIs DEF Sorted
    <2>7. Includes(i, t)
      BY <1>2, <2>2 DEF Includes
    <2>8. PICK s \in Split(i) : Includes(s, t)
      BY <2>4, <2>7, SegmentExists
    <2>9. s \in Calculate(evs).segments
      <3>1. s \in UNION {Split(w) : w \in WorkIntervals(evs).intervals}
        BY <2>6
      <3> QED
        BY <3>1, CalculateIs DEF Sorted
    <2> QED
      BY <2>8, <2>9
  <1> QED
    BY <1>1, <1>2

LEMMA SegmentsApart ==
  ASSUME NEW evs, NEW p, NEW n, Sorted(evs, p, n), WellFormed(p), NEW t \in Nat,
         NEW s \in Calculate(evs).segments, NEW r \in Calculate(evs).segments,
         Includes(s, t), Includes(r, t)
  PROVE  s = r
  <1>1. PICK i \in WorkIntervals(evs).intervals : s \in Split(i)
    BY SegmentsAre
  <1>2. PICK w \in WorkIntervals(evs).intervals : r \in Split(w)
    BY SegmentsAre
  <1>3. PICK j \in Odd(n) : i = Interval(p[j], p[j + 1])
    BY IntervalIs
  <1>4. PICK k \in Odd(n) : w = Interval(p[k], p[k + 1])
    BY IntervalIs
  <1>5. i.start \in Nat /\ i.end \in Nat /\ i.start < i.end
    BY IntervalIs
  <1>6. w.start \in Nat /\ w.end \in Nat /\ w.start < w.end
    BY IntervalIs
  <1>7. i.start = p[j].at /\ i.end = p[j + 1].at /\ w.start = p[k].at /\ w.end = p[k + 1].at
    BY <1>3, <1>4 DEF Interval
  <1>8. i.start <= t /\ t < i.end
    <2>1. s.start \in Nat /\ s.end \in Nat /\ i.start <= s.start /\ s.end <= i.end
      BY <1>1, <1>5, SegmentIs
    <2> QED
      BY <1>5, <2>1 DEF Includes
  <1>9. w.start <= t /\ t < w.end
    <2>1. r.start \in Nat /\ r.end \in Nat /\ w.start <= r.start /\ r.end <= w.end
      BY <1>2, <1>6, SegmentIs
    <2> QED
      BY <1>6, <2>1 DEF Includes
  <1>10. j \in 1..n /\ j + 1 \in 1..n /\ k \in 1..n /\ k + 1 \in 1..n
    BY DEF Odd, Sorted
  <1>11. ~(j < k)
    <2>1. j < k => p[j + 1].at <= p[k].at
      <3>1. j < k => j + 1 <= k
        BY <1>10
      <3> QED
        BY <1>10, <3>1, SortedAt
    <2> QED
      BY <1>5, <1>6, <1>7, <1>8, <1>9, <2>1
  <1>12. ~(k < j)
    <2>1. k < j => p[k + 1].at <= p[j].at
      <3>1. k < j => k + 1 <= j
        BY <1>10
      <3> QED
        BY <1>10, <3>1, SortedAt
    <2> QED
      BY <1>5, <1>6, <1>7, <1>8, <1>9, <2>1
  <1>13. i = w
    <2>1. j = k
      BY <1>10, <1>11, <1>12
    <2> QED
      BY <1>3, <1>4, <2>1
  <1> QED
    BY <1>1, <1>2, <1>5, <1>13, SegmentUnique

-----------------------------------------------------------------------------
(* Time at work *)

OrderedCount(p, kinds, t) == {k \in DOMAIN p : p[k].kind \in kinds /\ p[k].at <= t}

LEMMA CountByOrder ==
  ASSUME EventsTypeOK, NEW p, p = InOrder(events), NEW kinds, NEW t \in Nat
  PROVE  CountBy(kinds, t) = Cardinality(OrderedCount(p, kinds, t))
  <1>1. PICK order : Sorts(events, order)
    BY OrderExists DEF EventsTypeOK
  <1>2. PICK n \in Nat : n = Len(events) /\ DOMAIN events = 1..n /\ DOMAIN p = 1..n
    BY OrderedType DEF EventsTypeOK
  <1>3. PICK S, T : /\ S = OrderedCount(p, kinds, t)
                    /\ T = {i \in DOMAIN events : events[i].kind \in kinds /\ events[i].at <= t}
    OBVIOUS
  <1>4. \A k \in 1..n : order[k] \in 1..n /\ p[k] = events[order[k]]
    BY <1>1, <1>2 DEF Sorts
  <1>5. PICK f : f = [k \in S |-> order[k]]
    OBVIOUS
  <1>6. f \in [S -> T]
    BY <1>2, <1>3, <1>4, <1>5 DEF OrderedCount
  <1>7. \A j, k \in S : f[j] = f[k] => j = k
    BY <1>1, <1>2, <1>3, <1>5 DEF Sorts, OrderedCount
  <1>8. ASSUME NEW i \in T PROVE \E k \in S : f[k] = i
    <2>1. PICK k \in 1..n : order[k] = i
      BY <1>1, <1>2, <1>3 DEF Sorts
    <2>2. k \in S
      BY <1>2, <1>3, <1>4, <2>1 DEF OrderedCount
    <2> QED
      BY <1>5, <2>1, <2>2
  <1>9. f \in Bijection(S, T)
    <2>1. f \in Injection(S, T)
      BY <1>6, <1>7 DEF Injection, IsInjective
    <2>2. f \in Surjection(S, T)
      BY <1>6, <1>8 DEF Surjection
    <2> QED
      BY <2>1, <2>2 DEF Bijection
  <1>10. IsFiniteSet(S)
    <2>1. IsFiniteSet(1..n)
      BY FS_Interval
    <2>2. S \in SUBSET (1..n)
      BY <1>2, <1>3 DEF OrderedCount
    <2> QED
      BY <2>1, <2>2, FS_Subset
  <1>11. Cardinality(T) = Cardinality(S)
    BY <1>9, <1>10, FS_Bijection DEF ExistsBijection
  <1> QED
    BY <1>3, <1>11 DEF CountBy

\* The events up to t are a prefix of the sorted sequence.
LEMMA PrefixUpTo ==
  ASSUME NEW evs, NEW p, NEW n, Sorted(evs, p, n), NEW t \in Nat
  PROVE  \E m \in 0..n : \A k \in 1..n : p[k].at <= t <=> k <= m
  <1>0. n \in Nat
    BY DEF Sorted
  <1>1. PICK T : T = {k \in 0..n : k = 0 \/ p[k].at <= t}
    OBVIOUS
  <1>2. T \subseteq Nat /\ T # {} /\ \A k \in T : k <= n
    BY <1>0, <1>1
  <1>3. PICK m \in T : \A k \in T : k <= m
    BY <1>0, <1>2, Greatest
  <1>4. m \in 0..n /\ (m = 0 \/ p[m].at <= t)
    BY <1>1, <1>3
  <1>5. ASSUME NEW k \in 1..n PROVE p[k].at <= t <=> k <= m
    <2>1. p[k].at <= t => k <= m
      BY <1>1, <1>3
    <2>2. ASSUME k <= m PROVE p[k].at <= t
      <3>1. m \in 1..n /\ p[m].at <= t
        BY <1>0, <1>4, <2>2
      <3>2. p[k].at <= p[m].at /\ p[k].at \in Nat /\ p[m].at \in Nat
        BY <2>2, <3>1, SortedAt
      <3> QED
        BY <3>1, <3>2
    <2> QED
      BY <2>1, <2>2
  <1> QED
    BY <1>4, <1>5

Odds(m) == {k \in 1..m : k % 2 = 1}
Evens(m) == {k \in 1..m : k % 2 = 0}

LEMMA OddsAndEvens ==
  ASSUME NEW m \in Nat
  PROVE  /\ Cardinality(Odds(m)) \in Nat /\ Cardinality(Evens(m)) \in Nat
         /\ Cardinality(Odds(m)) = Cardinality(Evens(m)) + (m % 2)
  <1> DEFINE Good == {k \in Nat : /\ IsFiniteSet(Odds(k)) /\ IsFiniteSet(Evens(k))
                                  /\ Cardinality(Odds(k)) = Cardinality(Evens(k)) + (k % 2)}
  <1>1. 0 \in Good
    <2>1. Odds(0) = {} /\ Evens(0) = {} /\ 0 % 2 = 0
      BY DEF Odds, Evens
    <2>2. IsFiniteSet({}) /\ Cardinality({}) = 0
      BY FS_EmptySet
    <2> QED
      BY <2>1, <2>2
  <1>2. ASSUME NEW k \in Nat, k \in Good PROVE k + 1 \in Good
    <2>1. IsFiniteSet(Odds(k)) /\ IsFiniteSet(Evens(k)) /\ k + 1 \in Nat
      BY <1>2
    <2>2. Cardinality(Odds(k)) = Cardinality(Evens(k)) + (k % 2)
      BY <1>2
    <2>3. Cardinality(Odds(k)) \in Nat /\ Cardinality(Evens(k)) \in Nat
      BY <2>1, FS_CardinalityType
    <2>4. k + 1 \notin Odds(k) /\ k + 1 \notin Evens(k)
      BY DEF Odds, Evens
    <2> HIDE DEF Good
    <2>5. CASE k % 2 = 0
      <3>1. Odds(k + 1) = Odds(k) \cup {k + 1} /\ Evens(k + 1) = Evens(k) /\ (k + 1) % 2 = 1
        BY <2>5 DEF Odds, Evens
      <3>2. IsFiniteSet(Odds(k + 1)) /\ Cardinality(Odds(k + 1)) = Cardinality(Odds(k)) + 1
        BY <2>1, <2>4, <3>1, FS_AddElement
      <3> QED
        BY <2>1, <2>2, <2>3, <2>5, <3>1, <3>2 DEF Good
    <2>6. CASE k % 2 = 1
      <3>1. Evens(k + 1) = Evens(k) \cup {k + 1} /\ Odds(k + 1) = Odds(k) /\ (k + 1) % 2 = 0
        BY <2>6 DEF Odds, Evens
      <3>2. IsFiniteSet(Evens(k + 1)) /\ Cardinality(Evens(k + 1)) = Cardinality(Evens(k)) + 1
        BY <2>1, <2>4, <3>1, FS_AddElement
      <3> QED
        BY <2>1, <2>2, <2>3, <2>6, <3>1, <3>2 DEF Good
    <2> QED
      BY <2>5, <2>6
  <1> HIDE DEF Good
  <1>3. m \in Good
    BY <1>1, <1>2, CountedUp
  <1> QED
    BY <1>3, FS_CardinalityType DEF Good

\* In a well-formed shift one more event has started work than has stopped it
\* exactly when the last event so far is an odd one.
LEMMA AtWorkIs ==
  ASSUME EventsTypeOK, NEW p, NEW n, Sorted(events, p, n), WellFormed(p), NEW t \in Nat
  PROVE  AtWork(t) <=> \E j \in Odd(n) : p[j].at <= t /\ t < p[j + 1].at
  <1>0. n \in Nat /\ n % 2 = 0 /\ DOMAIN p = 1..n
    BY SortedAt DEF Sorted, WellFormed
  <1>1. PICK m \in 0..n : \A k \in 1..n : p[k].at <= t <=> k <= m
    BY PrefixUpTo
  <1>2. \A k \in 1..n : /\ p[k].kind \in {"CLOCK_IN", "BREAK_END"} <=> k % 2 = 1
                        /\ p[k].kind \in {"BREAK_START", "CLOCK_OUT"} <=> k % 2 = 0
    <2>1. \A k \in 1..n : p[k].kind = IF k = 1 THEN "CLOCK_IN" ELSE IF k = n THEN "CLOCK_OUT"
                                      ELSE IF k % 2 = 0 THEN "BREAK_START" ELSE "BREAK_END"
      BY <1>0 DEF WellFormed, Sorted
    <2>2. \A k \in 1..n : k % 2 \in {0, 1} /\ (k = 1 => k % 2 = 1) /\ (k = n => k % 2 = 0)
      BY <1>0
    <2>3. ASSUME NEW k \in 1..n
          PROVE  /\ p[k].kind \in {"CLOCK_IN", "BREAK_END"} <=> k % 2 = 1
                 /\ p[k].kind \in {"BREAK_START", "CLOCK_OUT"} <=> k % 2 = 0
      BY <2>1, <2>2
    <2> QED
      BY <2>3
  <1>3. OrderedCount(p, {"CLOCK_IN", "BREAK_END"}, t) = Odds(m)
    BY <1>0, <1>1, <1>2 DEF OrderedCount, Odds
  <1>4. OrderedCount(p, {"BREAK_START", "CLOCK_OUT"}, t) = Evens(m)
    BY <1>0, <1>1, <1>2 DEF OrderedCount, Evens
  <1>5. AtWork(t) <=> Cardinality(Odds(m)) = Cardinality(Evens(m)) + 1
    <2>1. CountBy({"CLOCK_IN", "BREAK_END"}, t) = Cardinality(Odds(m))
      BY <1>3, CountByOrder DEF Sorted
    <2>2. CountBy({"BREAK_START", "CLOCK_OUT"}, t) = Cardinality(Evens(m))
      BY <1>4, CountByOrder DEF Sorted
    <2> QED
      BY <2>1, <2>2 DEF AtWork
  <1>6. AtWork(t) <=> m % 2 = 1
    <2>1. m \in Nat
      BY <1>0
    <2>2. /\ Cardinality(Odds(m)) \in Nat /\ Cardinality(Evens(m)) \in Nat
          /\ Cardinality(Odds(m)) = Cardinality(Evens(m)) + (m % 2)
      BY <2>1, OddsAndEvens
    <2> QED
      BY <1>5, <2>1, <2>2
  <1>7. ASSUME m % 2 = 1 PROVE \E j \in Odd(n) : p[j].at <= t /\ t < p[j + 1].at
    <2>1. m \in Odd(n) /\ m \in 1..n /\ m + 1 \in 1..n
      BY <1>0, <1>7 DEF Odd
    <2>2. p[m].at <= t /\ ~(p[m + 1].at <= t)
      BY <1>0, <1>1, <2>1
    <2>3. p[m + 1].at \in Nat
      BY <2>1, SortedAt
    <2> QED
      BY <2>1, <2>2, <2>3
  <1>8. ASSUME NEW j \in Odd(n), p[j].at <= t, t < p[j + 1].at PROVE m % 2 = 1
    <2>1. j \in 1..n /\ j + 1 \in 1..n /\ j % 2 = 1
      BY <1>0 DEF Odd
    <2>2. p[j + 1].at \in Nat
      BY <2>1, SortedAt
    <2>3. j <= m /\ ~(j + 1 <= m)
      BY <1>1, <1>8, <2>1, <2>2
    <2>4. j = m
      BY <1>0, <2>1, <2>3
    <2> QED
      BY <2>1, <2>4
  <1> QED
    BY <1>6, <1>7, <1>8

LEMMA InstantsAreNatural == Instants \subseteq Nat
  BY PayableTimeAssumption DEF Instants

\* calculate pays exactly the time at work, once (WorkIntervals and Split).
THEOREM PaidTimeIsWorkHolds == TimeSpec => []PaidTimeIsWork
  <1>1. EventsTypeOK => PaidTimeIsWork
    <2> SUFFICES ASSUME EventsTypeOK, Result.blockers = {}, NEW t \in Instants
                 PROVE  Cardinality({s \in Result.segments : Includes(s, t)}) = IF AtWork(t) THEN 1 ELSE 0
      BY DEF PaidTimeIsWork
    <2>1. PICK p : p = InOrder(events)
      OBVIOUS
    <2>2. PICK n \in Nat : n = Len(p)
      BY <2>1, OrderedType DEF EventsTypeOK
    <2>3. Sorted(events, p, n)
      BY <2>1, <2>2 DEF Sorted, EventsTypeOK
    <2>4. WellFormed(p)
      BY <2>1, WorkIs, CalculateIs DEF Result, EventsTypeOK
    <2>5. t \in Nat
      BY InstantsAreNatural
    <2>6. AtWork(t) <=> \E s \in Result.segments : Includes(s, t)
      BY <2>3, <2>4, <2>5, AtWorkIs, SegmentsCover DEF Result
    <2>7. PICK paid : paid = {s \in Result.segments : Includes(s, t)}
      OBVIOUS
    <2>8. CASE AtWork(t)
      <3>1. PICK s \in Result.segments : Includes(s, t)
        BY <2>6, <2>8
      <3>2. \A r \in Result.segments : Includes(r, t) => r = s
        BY <2>3, <2>4, <2>5, <3>1, SegmentsApart DEF Result
      <3>3. paid = {s}
        BY <2>7, <3>1, <3>2
      <3>4. Cardinality(paid) = 1
        BY <3>3, FS_Singleton
      <3> QED
        BY <2>7, <2>8, <3>4
    <2>9. CASE ~AtWork(t)
      <3>1. paid = {}
        BY <2>6, <2>7, <2>9
      <3>2. Cardinality(paid) = 0
        BY <3>1, FS_EmptySet
      <3> QED
        BY <2>7, <2>9, <3>2
    <2> QED
      BY <2>8, <2>9
  <1> QED
    BY <1>1, EventsTypeCorrect, PTL

-----------------------------------------------------------------------------
(* Months *)

LEMMA LastTime ==
  ASSUME NEW t \in Nat, NEW u \in Times, t < u
  PROVE  t \in Instants
  <1>1. \E x \in Times : \A y \in Times : y <= x
    BY GreatestOfFinite, PayableTimeAssumption
  <1>2. PICK x : x = CHOOSE z \in Times : \A y \in Times : y <= z
    OBVIOUS
  <1>3. x \in Times /\ u <= x
    BY <1>1, <1>2
  <1>4. x \in Nat /\ u \in Nat
    BY <1>3, PayableTimeAssumption
  <1>5. Instants = 0..(x - 1)
    BY <1>2 DEF Instants
  <1> QED
    BY <1>3, <1>4, <1>5

LEMMA MonthsAreNatural == Months \subseteq Nat
  <1>1. \A t \in Instants : t \div MonthLength \in Nat
    BY InstantsAreNatural, QuotientOf, PayableTimeAssumption
  <1> QED
    BY <1>1 DEF Months

LEMMA WithinOneMonth ==
  ASSUME NEW t \in Nat, NEW m \in Nat
  PROVE  Within(t, m) <=> m = t \div MonthLength
  BY QuotientOf, PayableTimeAssumption DEF Within

\* Where a segment lies.
LEMMA SegmentLies ==
  ASSUME NEW evs, NEW p, NEW n, Sorted(evs, p, n), WellFormed(p),
         NEW s \in Calculate(evs).segments
  PROVE  /\ s.start \in Nat /\ s.end \in Nat /\ s.start < s.end
         /\ s.start \in Instants /\ s.start \div MonthLength \in Months
  <1>1. PICK i \in WorkIntervals(evs).intervals : s \in Split(i)
    BY SegmentsAre
  <1>2. i.start \in Nat /\ i.end \in Nat /\ i.start < i.end
    BY IntervalIs
  <1>3. s.start \in Nat /\ s.end \in Nat /\ s.start < s.end /\ s.end <= i.end
    BY <1>1, <1>2, SegmentIs
  <1>4. PICK j \in Odd(n) : i = Interval(p[j], p[j + 1])
    BY IntervalIs
  <1>5. j + 1 \in 1..n
    BY DEF Odd, Sorted
  <1>6. i.end \in Times
    BY <1>4, <1>5, SortedAt DEF Interval
  <1>7. s.start < i.end
    BY <1>2, <1>3
  <1>8. s.start \in Instants
    BY <1>3, <1>6, <1>7, LastTime
  <1> QED
    BY <1>3, <1>8 DEF Months

\* Nothing is paid of what is blocked.
LEMMA PaidIsWellFormed ==
  ASSUME EventsTypeOK, NEW s \in Result.segments
  PROVE  \E p, n : Sorted(events, p, n) /\ WellFormed(p)
  <1>1. PICK p : p = InOrder(events)
    OBVIOUS
  <1>2. PICK n \in Nat : n = Len(p)
    BY <1>1, OrderedType DEF EventsTypeOK
  <1>3. Sorted(events, p, n)
    BY <1>1, <1>2 DEF Sorted, EventsTypeOK
  <1>4. WellFormed(p)
    <2> SUFFICES ASSUME ~WellFormed(p) PROVE FALSE
      OBVIOUS
    <2>1. WorkIntervals(events).intervals = {}
      BY <1>1, WorkIs DEF EventsTypeOK
    <2>2. s \in UNION {Split(i) : i \in WorkIntervals(events).intervals}
      BY CalculateIs DEF Result, EventsTypeOK
    <2> QED
      BY <2>1, <2>2
  <1> QED
    BY <1>3, <1>4

LEMMA PaidInMonth ==
  ASSUME NEW evs, NEW m
  PROVE  PaidSegments(evs, m) = {s \in Calculate(evs).segments : Within(s.start, m)}
  BY DEF PaidSegments, Touches

\* No segment is lost or paid twice between months (monthly_payroll_lines).
THEOREM PaidOnceHolds == TimeSpec => []PaidOnce
  <1>1. EventsTypeOK => PaidOnce
    <2> SUFFICES ASSUME EventsTypeOK, NEW s \in Result.segments
                 PROVE  Cardinality({m \in Months : s \in PaidSegments(events, m)}) = 1
      BY DEF PaidOnce
    <2>1. PICK p, n : Sorted(events, p, n) /\ WellFormed(p)
      BY PaidIsWellFormed
    <2>2. s.start \in Nat /\ s.start \div MonthLength \in Months
      BY <2>1, SegmentLies DEF Result
    <2>3. \A m \in Months : s \in PaidSegments(events, m) <=> m = s.start \div MonthLength
      BY <2>2, PaidInMonth, WithinOneMonth, MonthsAreNatural DEF Result
    <2>4. {m \in Months : s \in PaidSegments(events, m)} = {s.start \div MonthLength}
      BY <2>2, <2>3
    <2> QED
      BY <2>4, FS_Singleton
  <1> QED
    BY <1>1, EventsTypeCorrect, PTL

\* A month begins at a midnight and lasts a day at least.
LEMMA MonthBegins ==
  ASSUME NEW m \in Nat
  PROVE  /\ m * MonthLength \in Nat /\ (m + 1) * MonthLength = m * MonthLength + MonthLength
         /\ Day <= MonthLength
         /\ (m * MonthLength) % Day = 0
         /\ (m * MonthLength + Offset) % Day = Offset
  <1>0. Day \in Nat \ {0} /\ MonthLength \in Nat \ {0} /\ MonthLength % Day = 0
        /\ Offset \in Nat /\ Offset < Day
    BY PayableTimeAssumption
  <1>1. PICK q \in Nat : q = MonthLength \div Day
    BY <1>0, QuotientOf
  <1>2. MonthLength = q * Day
    <2>1. MonthLength = Day * (MonthLength \div Day) + (MonthLength % Day)
      BY <1>0
    <2> QED
      BY <1>0, <1>1, <2>1
  <1>3. Day <= MonthLength
    <2>1. q # 0
      BY <1>0, <1>2
    <2>2. 1 * Day <= q * Day
      BY <1>0, <2>1, ProductGrows
    <2> QED
      BY <1>0, <1>2, <2>2
  <1>4. PICK r \in Nat : r = m * q
    OBVIOUS
  <1>5. m * MonthLength = r * Day
    BY <1>0, <1>2, <1>4
  <1>6. (r * Day + 0) % Day = 0 /\ (r * Day + Offset) % Day = Offset
    BY <1>0, RemainderOf
  <1>7. r * Day + 0 = r * Day
    BY <1>0
  <1>8. m * MonthLength \in Nat /\ (m + 1) * MonthLength = m * MonthLength + MonthLength
    BY <1>0
  <1> QED
    BY <1>3, <1>5, <1>6, <1>7, <1>8

\* No midnight of its interval lies strictly inside a segment.
LEMMA NoMidnightInside ==
  ASSUME NEW i, i.start \in Nat, i.end \in Nat, i.start < i.end, NEW s \in Split(i),
         NEW t \in Nat, t % Day = IF i.zone = "UTC" THEN Offset ELSE 0, s.start < t
  PROVE  s.end <= t
  <1>1. s.start \in Nat /\ s.end \in Nat /\ i.start <= s.start /\ s.end <= i.end
    BY SegmentIs
  <1>2. CASE t < i.end
    <2>1. t \in (i.start + 1)..(i.end - 1)
      BY <1>1, <1>2
    <2>2. t \in Cuts(i)
      BY <2>1 DEF Cuts, Midnights
    <2> QED
      BY <2>2, SegmentIs
  <1>3. CASE i.end <= t
    BY <1>1, <1>3
  <1> QED
    BY <1>2, <1>3

LEMMA FromEvent ==
  ASSUME NEW evs, NEW p, NEW n, Sorted(evs, p, n), NEW k \in 1..n
  PROVE  \E i \in DOMAIN evs : evs[i] = p[k]
  <1>1. PICK order : Sorts(evs, order)
    BY OrderExists DEF Sorted
  <1>2. k \in DOMAIN evs
    BY SortedAt
  <1>3. order[k] \in DOMAIN evs /\ p[k] = evs[order[k]]
    BY <1>1, <1>2 DEF Sorts, Sorted
  <1> QED
    BY <1>3

LEMMA FirstEvent ==
  ASSUME NEW evs, NEW p, NEW n, Sorted(evs, p, n), NEW i \in DOMAIN evs
  PROVE  n # 0 /\ p[1].at <= evs[i].at
  <1>1. PICK order : Sorts(evs, order)
    BY OrderExists DEF Sorted
  <1>2. PICK k \in DOMAIN evs : order[k] = i
    BY <1>1 DEF Sorts
  <1>3. k \in 1..n /\ n \in Nat
    BY <1>2, SortedAt DEF Sorted
  <1>4. p[k] = evs[i]
    BY <1>1, <1>2 DEF Sorts, Sorted
  <1>5. 1 \in 1..n /\ 1 <= k /\ n # 0
    BY <1>3
  <1>6. p[1].at <= p[k].at
    BY <1>3, <1>5, SortedAt
  <1> QED
    BY <1>4, <1>5, <1>6

\* A shift at work in a month is touched by it.
LEMMA WorkTouches ==
  ASSUME EventsTypeOK, NEW p, NEW n, Sorted(events, p, n), WellFormed(p),
         NEW t \in Nat, NEW m \in Nat, AtWork(t), Within(t, m)
  PROVE  Touches(events, m)
  <1>1. PICK s \in Calculate(events).segments : Includes(s, t)
    BY AtWorkIs, SegmentsCover
  <1>2. PICK i \in WorkIntervals(events).intervals : s \in Split(i)
    BY SegmentsAre
  <1>3. i.start \in Nat /\ i.end \in Nat /\ i.start < i.end
    BY IntervalIs
  <1>4. /\ s.start \in Nat /\ s.end \in Nat /\ s.start < s.end /\ s.end <= i.end
        /\ s.end \in Cuts(i)
    BY <1>2, <1>3, SegmentIs
  <1>5. s.start <= t /\ t < s.end
    BY <1>1 DEF Includes
  <1>6. PICK from \in Nat : from = m * MonthLength
    BY MonthBegins
  <1>7. MonthLength \in Nat /\ Day \in Nat /\ Offset \in Nat /\ Offset < Day /\ Day <= MonthLength
    BY MonthBegins, PayableTimeAssumption
  <1>8. \A u \in Nat : Within(u, m) <=> from <= u /\ u < from + MonthLength
    BY <1>6, MonthBegins DEF Within
  <1>9. CASE Within(s.start, m)
    BY <1>9 DEF Touches
  <1>10. CASE ~Within(s.start, m)
    <2>1. s.start < from /\ from <= t
      BY <1>4, <1>5, <1>7, <1>8, <1>10
    <2>2. s.end <= from + Offset
      <3>1. CASE i.zone = "UTC"
        <4>1. from + Offset \in Nat /\ (from + Offset) % Day = Offset /\ s.start < from + Offset
          BY <1>4, <1>6, <1>7, <2>1, MonthBegins
        <4> QED
          BY <1>2, <1>3, <3>1, <4>1, NoMidnightInside
      <3>2. CASE i.zone # "UTC"
        <4>1. from % Day = 0
          BY <1>6, MonthBegins
        <4>2. s.end <= from
          BY <1>2, <1>3, <2>1, <3>2, <4>1, NoMidnightInside
        <4> QED
          BY <1>4, <1>7, <4>2
      <3> QED
        BY <3>1, <3>2
    <2>3. Within(s.end, m)
      BY <1>4, <1>5, <1>7, <1>8, <2>1, <2>2
    <2>4. CASE s.end = i.end
      <3>1. PICK j \in Odd(n) : i = Interval(p[j], p[j + 1])
        BY IntervalIs
      <3>2. j + 1 \in 1..n
        BY DEF Odd, Sorted
      <3>3. PICK e \in DOMAIN events : events[e] = p[j + 1]
        BY <3>2, FromEvent
      <3>4. events[e].at = s.end
        BY <2>4, <3>1, <3>3 DEF Interval
      <3> QED
        BY <2>3, <3>4 DEF Touches
    <2>5. CASE s.end # i.end
      <3>1. PICK r : r = [start |-> s.end, end |-> NextCut(i, s.end)]
        OBVIOUS
      <3>2. r \in Split(i)
        BY <1>4, <2>5, <3>1 DEF Split
      <3>3. r \in Calculate(events).segments
        <4>1. r \in UNION {Split(w) : w \in WorkIntervals(events).intervals}
          BY <3>2
        <4> QED
          BY <4>1, CalculateIs DEF EventsTypeOK
      <3>4. Within(r.start, m)
        BY <2>3, <3>1
      <3> QED
        BY <3>3, <3>4 DEF Touches
    <2> QED
      BY <2>4, <2>5
  <1> QED
    BY <1>9, <1>10

\* Somebody at work has an event behind him.
LEMMA AtWorkHasBegun ==
  ASSUME EventsTypeOK, NEW t \in Nat, AtWork(t)
  PROVE  \E i \in DOMAIN events : events[i].at <= t
  <1> SUFFICES ASSUME \A i \in DOMAIN events : ~(events[i].at <= t) PROVE FALSE
    OBVIOUS
  <1>1. CountBy({"CLOCK_IN", "BREAK_END"}, t) = Cardinality({}) /\ CountBy({"BREAK_START", "CLOCK_OUT"}, t) = Cardinality({})
    <2>1. \A kinds : {i \in DOMAIN events : events[i].kind \in kinds /\ events[i].at <= t} = {}
      OBVIOUS
    <2> QED
      BY <2>1, Zenon DEF CountBy
  <1>2. Cardinality({}) = 0
    BY FS_EmptySet
  <1> QED
    BY <1>1, <1>2 DEF AtWork

\* A month in which somebody is at work, or has left a shift open, finds the
\* shift (effective_shift_window, touches).
THEOREM WorkedMonthIsCheckedHolds == TimeSpec => []WorkedMonthIsChecked
  <1>1. EventsTypeOK => WorkedMonthIsChecked
    <2> SUFFICES ASSUME EventsTypeOK, "ILLEGAL_SEQUENCE" \notin Result.blockers,
                        NEW t \in Instants, NEW m \in Months, AtWork(t), Within(t, m)
                 PROVE  Touches(events, m)
      BY DEF WorkedMonthIsChecked
    <2>1. PICK p : p = InOrder(events)
      OBVIOUS
    <2>2. PICK n \in Nat : n = Len(p)
      BY <2>1, OrderedType DEF EventsTypeOK
    <2>3. Sorted(events, p, n)
      BY <2>1, <2>2 DEF Sorted, EventsTypeOK
    <2>4. t \in Nat /\ m \in Nat
      BY InstantsAreNatural, MonthsAreNatural
    <2>5. CASE WellFormed(p)
      BY <2>3, <2>4, <2>5, WorkTouches
    <2>6. CASE ~WellFormed(p)
      <3>1. p # <<>> /\ p[1].kind = "CLOCK_IN" /\ "OPEN_SHIFT" \in Calculate(events).blockers
        BY <2>1, <2>6, WorkIs, CalculateIs DEF Result, EventsTypeOK
      <3>2. PICK i \in DOMAIN events : events[i].at <= t
        BY <2>4, AtWorkHasBegun
      <3>3. n # 0 /\ p[1].at <= events[i].at
        BY <2>3, <3>2, FirstEvent
      <3>4. 1 \in 1..n
        BY <2>2, <3>3
      <3>5. PICK e \in DOMAIN events : events[e] = p[1]
        BY <2>3, <3>4, FromEvent
      <3>6. p[1].at \in Nat /\ events[i].at \in Nat
        BY <2>3, <3>2, <3>4, SortedAt, EventAt DEF EventsTypeOK
      <3>7. t < (m + 1) * MonthLength /\ (m + 1) * MonthLength \in Nat
        BY <2>4, PayableTimeAssumption DEF Within
      <3>8. events[e].at < (m + 1) * MonthLength
        <4>1. PICK end \in Nat : end = (m + 1) * MonthLength
          BY <3>7
        <4> QED
          BY <2>4, <3>2, <3>3, <3>5, <3>6, <3>7, <4>1
      <3> QED
        BY <3>1, <3>5, <3>8 DEF Touches
    <2> QED
      BY <2>5, <2>6
  <1> QED
    BY <1>1, EventsTypeCorrect, PTL

\* Time at work of a shift whose times are all local is paid in the month it
\* was worked in.
THEOREM LocalTimesPaidHolds == TimeSpec => []LocalTimesPaidInTheirMonth
  <1>1. EventsTypeOK => LocalTimesPaidInTheirMonth
    <2> SUFFICES ASSUME EventsTypeOK, \A i \in DOMAIN events : events[i].zone = "KST",
                        NEW m \in Months, NEW s \in PaidSegments(events, m),
                        NEW t \in s.start..(s.end - 1)
                 PROVE  Within(t, m)
      BY DEF LocalTimesPaidInTheirMonth, PaidInItsMonth
    <2>1. s \in Result.segments /\ Within(s.start, m)
      BY PaidInMonth DEF Result
    <2>2. PICK p, n : Sorted(events, p, n) /\ WellFormed(p)
      BY <2>1, PaidIsWellFormed
    <2>3. PICK i \in WorkIntervals(events).intervals : s \in Split(i)
      BY <2>1, <2>2, SegmentsAre DEF Result
    <2>4. i.start \in Nat /\ i.end \in Nat /\ i.start < i.end
      BY <2>2, IntervalIs
    <2>5. s.start \in Nat /\ s.end \in Nat
      BY <2>3, <2>4, SegmentIs
    <2>6. i.zone = "KST"
      <3>1. PICK j \in Odd(n) : i = Interval(p[j], p[j + 1])
        BY <2>2, IntervalIs
      <3>2. j \in 1..n
        BY <2>2 DEF Odd, Sorted
      <3>3. PICK e \in DOMAIN events : events[e] = p[j]
        BY <2>2, <3>2, FromEvent
      <3> QED
        BY <3>1, <3>3 DEF Interval
    <2>7. m \in Nat /\ m + 1 \in Nat
      BY MonthsAreNatural
    <2>8. PICK from \in Nat, to \in Nat : from = m * MonthLength /\ to = (m + 1) * MonthLength
      BY <2>7, MonthBegins
    <2>9. to % Day = 0
      BY <2>7, <2>8, MonthBegins
    <2>10. from <= s.start /\ s.start < to
      BY <2>1, <2>8 DEF Within
    <2>11. s.end <= to
      BY <2>3, <2>4, <2>6, <2>8, <2>9, <2>10, NoMidnightInside
    <2>12. from <= t /\ t < to
      BY <2>5, <2>8, <2>10, <2>11
    <2> QED
      BY <2>8, <2>12 DEF Within
  <1> QED
    BY <1>1, EventsTypeCorrect, PTL

-----------------------------------------------------------------------------
(* Tables of ranges *)

RangeTable == [Dates -> 0..Forever]
Covers(u, l, d) == l <= d /\ d < u[l]
Apart(u) == /\ \A l \in Dates : u[l] # 0 => l < u[l]
            /\ \A l, m \in Dates : u[l] # 0 /\ u[m] # 0 /\ l < m => u[l] <= m
RateIn(u, w, d) ==
  LET found == {l \in {x \in Dates : u[x] # 0} : l <= d /\ d < u[l]} IN
  IF found = {} THEN NoWage ELSE w[CHOOSE l \in found : TRUE]

USE WagesAssumption DEF Dates, Forever

\* A date has the wage of the row that contains it ...
LEMMA RateOfRow ==
  ASSUME NEW u \in RangeTable, Apart(u), NEW w, NEW d \in Dates, NEW l \in Dates, Covers(u, l, d)
  PROVE  RateIn(u, w, d) = w[l]
  <1>1. PICK found : found = {x \in {y \in Dates : u[y] # 0} : x <= d /\ d < u[x]}
    OBVIOUS
  <1>2. l \in found
    BY <1>1 DEF RangeTable, Covers
  <1>3. ASSUME NEW x \in found PROVE x = l
    <2>1. x \in Dates /\ u[x] # 0 /\ x <= d /\ d < u[x] /\ u[l] # 0 /\ l <= d /\ d < u[l]
      BY <1>1, <1>2
    <2>2. u[x] \in Nat /\ u[l] \in Nat
      BY <2>1 DEF RangeTable
    <2> QED
      BY <2>1, <2>2 DEF Apart
  <1>4. RateIn(u, w, d) = IF found = {} THEN NoWage ELSE w[CHOOSE x \in found : TRUE]
    BY <1>1 DEF RateIn
  <1>5. (CHOOSE x \in found : TRUE) = l
    BY <1>2, <1>3
  <1> QED
    BY <1>2, <1>4, <1>5

\* ... and none if there is no such row.
LEMMA RateOfNone ==
  ASSUME NEW u \in RangeTable, NEW w, NEW d \in Dates, \A l \in Dates : ~Covers(u, l, d)
  PROVE  RateIn(u, w, d) = NoWage
  BY DEF RateIn, Covers

\* A change of a table that gives some dates a new row, and leaves the others
\* theirs.
Gives(u, w, v, x, m, end) ==
  /\ \A d \in Dates : m <= d /\ d < end => Covers(v, m, d)
  /\ \A d, l \in Dates : ~(m <= d /\ d < end) =>
       (Covers(u, l, d) <=> Covers(v, l, d)) /\ (Covers(u, l, d) => x[l] = w[l])

LEMMA RateAfter ==
  ASSUME NEW u \in RangeTable, Apart(u), NEW v \in RangeTable, Apart(v), NEW w, NEW x,
         NEW m \in Dates, NEW end \in Nat, Gives(u, w, v, x, m, end)
  PROVE  \A d \in Dates : RateIn(v, x, d) = IF m <= d /\ d < end THEN x[m] ELSE RateIn(u, w, d)
  <1> USE DEF Gives
  <1> TAKE d \in Dates
  <1>1. CASE m <= d /\ d < end
    BY <1>1, RateOfRow
  <1>2. CASE ~(m <= d /\ d < end) /\ \E l \in Dates : Covers(u, l, d)
    <2>1. PICK l \in Dates : Covers(u, l, d)
      BY <1>2
    <2>2. Covers(v, l, d) /\ x[l] = w[l]
      BY <1>2, <2>1
    <2>3. RateIn(u, w, d) = w[l] /\ RateIn(v, x, d) = x[l]
      BY <2>1, <2>2, RateOfRow
    <2> QED
      BY <1>2, <2>2, <2>3
  <1>3. CASE ~(m <= d /\ d < end) /\ \A l \in Dates : ~Covers(u, l, d)
    <2>1. \A l \in Dates : ~Covers(v, l, d)
      BY <1>3
    <2>2. RateIn(u, w, d) = NoWage /\ RateIn(v, x, d) = NoWage
      BY <1>3, <2>1, RateOfNone
    <2> QED
      BY <1>3, <2>2
  <1> QED
    BY <1>1, <1>2, <1>3

-----------------------------------------------------------------------------
(* The inductive invariant *)

Holding == {"held", "shortening", "splitting"}

\* A row that is locked contains the month of whoever holds it, alone.
HoldsFit ==
  /\ \A j \in Jobs : pc[j] \in Holding => Covers(upper, row[j], month[j])
  /\ \A j \in Jobs : pc[j] \in {"shortening", "splitting"} => row[j] # month[j]
  /\ \A j, k \in Jobs : pc[j] \in Holding /\ pc[k] \in Holding /\ row[j] = row[k] => j = k

\* A request that has not succeeded has set no wage.
Unset == \A l \in Dates, j \in Jobs : wage[l] = j => pc[j] = "set"

IInv == TypeOK /\ Apart(upper) /\ HoldsFit /\ Unset

-----------------------------------------------------------------------------
LEMMA InitInv == Init => IInv
  BY DEF Init, IInv, TypeOK, Apart, HoldsFit, Unset, Holding

\* Steps that change no row.
LEMMA IdleInv ==
  ASSUME IInv, NEW j \in Jobs, UNCHANGED <<table, month>>,
         NEW label \in Ended \cup {"lock", "open", "opening"}, label # "set",
         pc[j] \notin Ended \/ label \in Ended, pc[j] # "set",
         pc' = [pc EXCEPT ![j] = label],
         UNCHANGED row \/ (pc[j] = "start" /\ \E l \in Dates : row' = [row EXCEPT ![j] = l])
  PROVE  IInv'
  <1>1. TypeOK'
    BY DEF IInv, TypeOK, table, Ended
  <1>2. HoldsFit'
    BY DEF IInv, TypeOK, HoldsFit, Holding, Covers, table, Ended
  <1>3. Unset'
    BY DEF IInv, TypeOK, Unset, table
  <1> QED
    BY <1>1, <1>2, <1>3 DEF IInv, table

LEMMA LockRowInv ==
  ASSUME IInv, NEW j \in Jobs, LockRow(j)
  PROVE  IInv'
  <1>1. PICK label \in {"held", "open"} :
          /\ pc[j] = "lock" /\ pc' = [pc EXCEPT ![j] = label]
          /\ label = "held" => month[j] \in Span(row[j])
          /\ UNCHANGED <<upper, wage, month, row>>
    BY DEF LockRow, Goto, table
  <1>2. \A k \in Jobs : k # j => ~HoldsRow(k, row[j])
    BY <1>1 DEF LockRow, Waits, WaitsFor
  <1>3. label = "held" => Covers(upper, row[j], month[j])
    BY <1>1 DEF Span, From, Covers
  <1>4. TypeOK'
    BY <1>1 DEF IInv, TypeOK
  <1>5. HoldsFit'
    BY <1>1, <1>2, <1>3 DEF IInv, TypeOK, HoldsFit, Holding, HoldsRow, Covers
  <1>6. Unset'
    BY <1>1 DEF IInv, TypeOK, Unset
  <1> QED
    BY <1>1, <1>4, <1>5, <1>6 DEF IInv

LEMMA HeldInv ==
  ASSUME IInv, NEW j \in Jobs, Reprice(j) \/ Shorten(j) \/ InsertRest(j)
  PROVE  IInv'
  <1>1. PICK label \in {"set", "shortening", "splitting"} :
          /\ pc[j] \in {"held", "shortening"} /\ pc' = [pc EXCEPT ![j] = label]
          /\ label # "set" => row[j] # month[j] /\ UNCHANGED wage
          /\ label = "set" => wage' = [wage EXCEPT ![row[j]] = j]
          /\ UNCHANGED <<upper, month, row>>
    <2>1. CASE Reprice(j)
      BY <2>1 DEF Reprice, Goto
    <2>2. CASE Shorten(j)
      BY <2>2 DEF Shorten, Goto, table, StartsWithMonth
    <2>3. CASE InsertRest(j)
      BY <2>3 DEF InsertRest, Goto, table, IInv, HoldsFit
    <2> QED
      BY <2>1, <2>2, <2>3
  <1>2. TypeOK'
    <2>1. wage' \in [Dates -> Jobs \cup {Hired, NoWage}]
      <3>1. CASE label = "set"
        BY <1>1, <3>1 DEF IInv, TypeOK
      <3>2. CASE label # "set"
        BY <1>1, <3>2 DEF IInv, TypeOK
      <3> QED
        BY <3>1, <3>2
    <2>2. pc' \in [Jobs -> Ended \cup {"start", "lock", "held", "shortening", "splitting",
                                      "open", "opening"}]
      BY <1>1 DEF IInv, TypeOK, Ended
    <2> QED
      BY <1>1, <2>1, <2>2 DEF IInv, TypeOK
  <1>3. HoldsFit'
    <2>1. \A k \in Jobs : pc'[k] = IF k = j THEN label ELSE pc[k]
      BY <1>1 DEF IInv, TypeOK
    <2>2. \A k \in Jobs : pc'[k] \in Holding => pc[k] \in Holding
      BY <1>1, <2>1 DEF Holding
    <2>3. \A k \in Jobs : pc'[k] \in Holding => Covers(upper', row'[k], month'[k])
      BY <1>1, <2>2 DEF IInv, HoldsFit, Covers
    <2>4. \A k \in Jobs : pc'[k] \in {"shortening", "splitting"} => row'[k] # month'[k]
      BY <1>1, <2>1 DEF IInv, HoldsFit
    <2>5. \A k, l \in Jobs :
            pc'[k] \in Holding /\ pc'[l] \in Holding /\ row'[k] = row'[l] => k = l
      BY <1>1, <2>2 DEF IInv, HoldsFit
    <2> QED
      BY <2>3, <2>4, <2>5 DEF HoldsFit
  <1>4. Unset'
    BY <1>1 DEF IInv, TypeOK, Unset
  <1> QED
    BY <1>1, <1>2, <1>3, <1>4 DEF IInv

\* The range that is committed overlaps no row but the one it is split off.
LEMMA NoOther ==
  ASSUME IInv, NEW j \in Jobs, pc[j] = "opening", ~Waits(j), ~Overlaps(j), NEW l \in Rows
  PROVE  upper[l] <= month[j]
  <1>1. Written(j) = From(month[j], Forever)
    BY DEF Written
  <1>2. Span(l) \cap From(month[j], Forever) = {}
    <2> SUFFICES ASSUME Span(l) \cap Written(j) # {} PROVE FALSE
      BY <1>1
    <2>1. PICK k \in Jobs : Replaces(k, l)
      BY DEF Overlaps
    <2>2. k # j /\ InFlight(k) = Span(l)
      BY <2>1 DEF Replaces, InFlight
    <2> QED
      BY <2>2 DEF Waits, WaitsFor
  <1>3. /\ l \in Dates /\ month[j] \in Dates
        /\ upper[l] \in Nat /\ l < upper[l] /\ upper[l] <= LastDate + 1
    <2>1. l \in Dates /\ month[j] \in Dates /\ upper[l] \in 0..Forever /\ upper[l] # 0
      BY DEF IInv, TypeOK, Rows
    <2>2. l < upper[l]
      BY <2>1 DEF IInv, Apart
    <2> QED
      BY <2>1, <2>2
  <1>4. ASSUME upper[l] > month[j] PROVE FALSE
    <2>1. upper[l] - 1 \in Span(l) /\ upper[l] - 1 \in From(month[j], Forever)
      BY <1>3, <1>4 DEF Span, From
    <2> QED
      BY <1>2, <2>1
  <1> QED
    BY <1>3, <1>4

\* What a commit does to the table.
CommitOf(j, m, r, end, split) ==
  /\ m \in Dates /\ r \in Dates /\ end \in Nat /\ m < end /\ end <= Forever
  /\ split => r < m /\ upper[r] = end /\ upper[m] = 0
  /\ ~split => \A l \in Dates : upper[l] # 0 => upper[l] <= m
  /\ \A k \in Jobs : pc[k] \in Holding /\ k # j => row[k] # m /\ (split => row[k] # r)
  /\ upper' = [d \in Dates |-> IF d = m THEN end ELSE IF split /\ d = r THEN m ELSE upper[d]]
  /\ wage' = [wage EXCEPT ![m] = j]

LEMMA ForHolder ==
  ASSUME IInv, NEW k \in Jobs, pc[k] \in Holding
  PROVE  row[k] \in Dates /\ upper[row[k]] \in Nat /\ upper[row[k]] # 0
  <1>1. row[k] \in Dates /\ month[k] \in Dates /\ upper[row[k]] \in 0..Forever
    BY DEF IInv, TypeOK
  <1>2. month[k] < upper[row[k]]
    BY DEF IInv, HoldsFit, Covers
  <1> QED
    BY <1>1, <1>2

LEMMA CommitChanges ==
  ASSUME IInv, NEW j \in Jobs, Commit(j)
  PROVE  \E end \in Nat, split \in BOOLEAN : CommitOf(j, month[j], row[j], end, split)
  <1>0. month[j] \in Dates /\ row[j] \in Dates /\ upper \in [Dates -> 0..Forever]
    BY DEF IInv, TypeOK
  <1>1. CASE pc[j] = "opening"
    <2>1. \A l \in Dates : upper[l] # 0 => upper[l] <= month[j]
      BY <1>1, NoOther DEF Commit, Rows
    <2>2. PICK end \in Nat : end = Forever
      OBVIOUS
    <2>3. upper' = [d \in Dates |-> IF d = month[j] THEN end
                                    ELSE IF FALSE /\ d = row[j] THEN month[j] ELSE upper[d]]
      BY <1>1, <2>2 DEF Commit, Ends, Replaces
    <2>4. ASSUME NEW k \in Jobs, pc[k] \in Holding PROVE row[k] # month[j]
      <3>1. row[k] \in Dates /\ upper[row[k]] \in Nat /\ upper[row[k]] # 0
        BY <1>0, <2>4, ForHolder
      <3>2. row[k] < upper[row[k]] /\ upper[row[k]] <= month[j]
        BY <2>1, <3>1 DEF IInv, Apart
      <3> QED
        BY <1>0, <3>1, <3>2
    <2>5. wage' = [wage EXCEPT ![month[j]] = j]
      BY DEF Commit
    <2>6. CommitOf(j, month[j], row[j], end, FALSE)
      <3>1. end \in Nat /\ month[j] < end
        BY <1>0, <2>2
      <3>2. \A l \in Dates : upper[l] # 0 => upper[l] <= month[j]
        BY <2>1
      <3> QED
        BY <1>0, <3>1, <3>2, <2>2, <2>3, <2>4, <2>5 DEF CommitOf
    <2> QED
      BY <2>6
  <1>2. CASE pc[j] = "splitting"
    <2>1. PICK end \in Nat : end = upper[row[j]]
      BY <1>0
    <2>2. row[j] < month[j] /\ month[j] < end /\ end <= Forever
      BY <1>0, <1>2, <2>1 DEF IInv, HoldsFit, Holding, Covers
    <2>3. upper[month[j]] = 0
      BY <1>0, <2>1, <2>2 DEF IInv, Apart
    <2>4. upper' = [d \in Dates |-> IF d = month[j] THEN end
                                    ELSE IF TRUE /\ d = row[j] THEN month[j] ELSE upper[d]]
      BY <1>0, <1>2, <2>1 DEF Commit, Ends, Replaces
    <2>5. \A k \in Jobs : pc[k] \in Holding /\ k # j => row[k] # month[j] /\ row[k] # row[j]
      <3> SUFFICES ASSUME NEW k \in Jobs, pc[k] \in Holding, k # j
                   PROVE  row[k] # month[j] /\ row[k] # row[j]
        OBVIOUS
      <3>1. upper[row[k]] # 0
        BY ForHolder
      <3>2. row[k] # row[j]
        BY <1>2 DEF IInv, HoldsFit, Holding
      <3> QED
        BY <2>3, <3>1, <3>2
    <2>6. CommitOf(j, month[j], row[j], end, TRUE)
      BY <1>0, <2>1, <2>2, <2>3, <2>4, <2>5 DEF Commit, CommitOf
    <2> QED
      BY <2>6
  <1> QED
    BY <1>1, <1>2 DEF Commit

LEMMA CommitInv ==
  ASSUME IInv, NEW j \in Jobs, Commit(j)
  PROVE  IInv'
  <1>1. PICK end \in Nat, split \in BOOLEAN : CommitOf(j, month[j], row[j], end, split)
    BY CommitChanges
  <1>2. pc[j] \in {"splitting", "opening"} /\ pc' = [pc EXCEPT ![j] = "set"] /\ UNCHANGED <<month, row>>
    BY DEF Commit, Goto
  <1>3. TypeOK'
    BY <1>1, <1>2 DEF IInv, TypeOK, CommitOf, Ended
  <1>4. Apart(upper)'
    <2> DEFINE m == month[j]  r == row[j]
    <2>1. /\ m \in Dates /\ r \in Dates /\ m < end
          /\ split => r < m /\ upper[r] = end
          /\ ~split => \A l \in Dates : upper[l] # 0 => upper[l] <= m
      BY <1>1 DEF CommitOf
    <2>2. \A d \in Dates : upper[d] \in Nat /\ d \in Nat
      BY DEF IInv, TypeOK
    <2>3. /\ upper'[m] = end
          /\ split => upper'[r] = m
          /\ \A d \in Dates : d # m /\ ~(split /\ d = r) => upper'[d] = upper[d]
      BY <1>1, <2>1 DEF CommitOf
    <2>4. \A l \in Dates : upper'[l] # 0 => l < upper'[l]
      BY <2>1, <2>2, <2>3 DEF IInv, Apart
    <2>5. ASSUME NEW l \in Dates, NEW d \in Dates,
                 upper'[l] # 0, upper'[d] # 0, l < d
          PROVE  upper'[l] <= d
      <3>1. CASE l = m
        BY <1>1, <2>1, <2>2, <2>3, <2>5, <3>1 DEF IInv, Apart
      <3>2. CASE d = m
        BY <1>1, <2>1, <2>2, <2>3, <2>5, <3>2 DEF IInv, Apart
      <3>3. CASE l # m /\ d # m
        BY <1>1, <2>1, <2>2, <2>3, <2>5, <3>3 DEF IInv, Apart
      <3> QED
        BY <3>1, <3>2, <3>3
    <2> QED
      BY <2>4, <2>5 DEF Apart
  <1>5. HoldsFit'
    BY <1>1, <1>2 DEF IInv, TypeOK, HoldsFit, Holding, Covers, CommitOf
  <1>6. Unset'
    BY <1>1, <1>2 DEF IInv, TypeOK, Unset, CommitOf
  <1> QED
    BY <1>3, <1>4, <1>5, <1>6 DEF IInv

LEMMA NextInv == IInv /\ [Next]_vars => IInv'
  <1> SUFFICES ASSUME IInv, [Next]_vars PROVE IInv'
    OBVIOUS
  <1>1. CASE UNCHANGED vars
    BY <1>1 DEF vars, table, IInv, TypeOK, Apart, HoldsFit, Holding, Covers, Unset
  <1>2. ASSUME NEW j \in Jobs, Select(j) PROVE IInv'
    BY <1>2, IdleInv DEF Select, Goto, Rows, Ended
  <1>3. ASSUME NEW j \in Jobs, InsertOpen(j) PROVE IInv'
    BY <1>3, IdleInv DEF InsertOpen, Goto, Ended
  <1>4. ASSUME NEW j \in Jobs, Refuse(j) \/ BreakDeadlock(j) PROVE IInv'
    <2>1. pc[j] # "set"
      BY <1>4 DEF Refuse, BreakDeadlock, Overlaps, Written, Deadlocked, WaitsFor
    <2> QED
      BY <1>4, <2>1, IdleInv DEF Refuse, BreakDeadlock, Goto, Ended
  <1>5. ASSUME NEW j \in Jobs, WorkerDies(j) PROVE IInv'
    BY <1>5, IdleInv DEF WorkerDies, Goto, Ended
  <1> QED
    BY <1>1, <1>2, <1>3, <1>4, <1>5, LockRowInv, HeldInv, CommitInv DEF Next, Step

\* However requests interleave, the periods of the wages stay apart and no two
\* requests hold the same row.
THEOREM Invariance == Spec => []IInv
  BY InitInv, NextInv, PTL DEF Spec

-----------------------------------------------------------------------------
(* Results *)

\* Ranges, wages and requests keep their types.
THEOREM TypeCorrect == Spec => []TypeOK
  BY Invariance, PTL DEF IInv

\* No date has two wages, for any number of requests at once.
THEOREM OneWagePerDate == Spec => []RowsApart
  <1>1. IInv => RowsApart
    BY DEF IInv, TypeOK, Apart, RowsApart, Rows, Span, From
  <1> QED
    BY <1>1, Invariance, PTL

\* What a transaction writes lies within the row it holds; two holders' rows are
\* apart.
LEMMA WrittenWithin ==
  ASSUME IInv, NEW j \in Jobs, pc[j] \in {"shortening", "splitting"}
  PROVE  /\ row[j] \in Rows /\ Written(j) \subseteq Span(row[j])
         /\ \A l \in Rows \ {row[j]} : Span(l) \cap Span(row[j]) = {}
         /\ \A k \in Jobs \ {j} : pc[k] \in {"shortening", "splitting"} =>
              row[k] \in Rows \ {row[j]}
  <1>1. Covers(upper, row[j], month[j]) /\ row[j] \in Dates /\ month[j] \in Dates
    BY WagesAssumption DEF IInv, HoldsFit, Holding, TypeOK, Dates
  <1>2. upper \in [Dates -> 0..Forever] /\ upper[row[j]] \in Nat /\ row[j] \in Nat /\ month[j] \in Nat
    BY <1>1, WagesAssumption DEF IInv, TypeOK, Dates, Forever
  <1>3. row[j] \in Rows
    BY <1>1, <1>2 DEF Covers, Rows
  <1>4. Written(j) \subseteq Span(row[j])
    BY <1>1, <1>2, WagesAssumption DEF Written, Span, From, Covers, Dates
  <1>5. \A l \in Rows \ {row[j]} : Span(l) \cap Span(row[j]) = {}
    <2> SUFFICES ASSUME NEW l \in Rows \ {row[j]}, NEW d \in Span(l), d \in Span(row[j])
                 PROVE  FALSE
      OBVIOUS
    <2>1. l \in Dates /\ upper[l] # 0 /\ row[j] \in Dates /\ upper[row[j]] # 0 /\ l # row[j]
      BY <1>1, <1>3 DEF Rows
    <2>2. l \in Nat /\ d \in Nat /\ upper[l] \in Nat
      BY <1>2, <2>1, WagesAssumption DEF Span, From, Dates, Forever
    <2>3. l <= d /\ d < upper[l] /\ row[j] <= d /\ d < upper[row[j]]
      BY DEF Span, From
    <2>4. CASE l < row[j]
      <3>1. upper[l] <= row[j]
        BY <2>1, <2>4 DEF IInv, Apart
      <3> QED
        BY <1>2, <2>2, <2>3, <3>1
    <2>5. CASE row[j] < l
      <3>1. upper[row[j]] <= l
        BY <2>1, <2>5 DEF IInv, Apart
      <3> QED
        BY <1>2, <2>2, <2>3, <3>1
    <2> QED
      BY <1>2, <2>1, <2>2, <2>4, <2>5
  <1>6. ASSUME NEW k \in Jobs \ {j}, pc[k] \in {"shortening", "splitting"}
        PROVE  row[k] \in Rows \ {row[j]}
    <2>1. Covers(upper, row[k], month[k]) /\ row[k] \in Dates /\ month[k] \in Dates /\ row[k] # row[j]
      BY <1>6, WagesAssumption DEF IInv, HoldsFit, Holding, TypeOK, Dates
    <2>2. upper[row[k]] \in Nat /\ row[k] \in Nat /\ month[k] \in Nat
      BY <1>2, <2>1, WagesAssumption DEF Dates, Forever
    <2> QED
      BY <2>1, <2>2 DEF Covers, Rows
  <1> QED
    BY <1>3, <1>4, <1>5, <1>6

\* The constraint refuses nobody who holds a row.
LEMMA HolderNotRefused ==
  ASSUME IInv, NEW j \in Jobs, Overlaps(j)
  PROVE  pc[j] = "opening"
  <1> SUFFICES ASSUME pc[j] # "opening" PROVE FALSE
    OBVIOUS
  <1>1. PICK l \in Rows : Span(l) \cap Written(j) # {} /\ \A k \in Jobs : ~Replaces(k, l)
    BY DEF Overlaps
  <1>2. pc[j] \in {"shortening", "splitting"}
    BY <1>1 DEF Written
  <1>3. l # row[j]
    BY <1>1, <1>2 DEF Replaces
  <1> QED
    BY <1>1, <1>2, <1>3, WrittenWithin

\* Who waits while somebody waits for it has written something, and waits for
\* one that found no row.
LEMMA HolderWaitsForOpening ==
  ASSUME IInv, NEW j \in Jobs, Deadlocked(j), pc[j] # "opening"
  PROVE  \E k \in Jobs : WaitsFor(j, k) /\ pc[k] = "opening"
  <1>1. PICK k \in Jobs, l \in Jobs : WaitsFor(j, k) /\ WaitsFor(l, j)
    BY DEF Deadlocked
  <1>2. pc[j] \in {"held", "shortening", "splitting"}
    BY <1>1 DEF WaitsFor, HoldsRow, InFlight
  <1>3. Written(j) \cap InFlight(k) # {} /\ k # j
    BY <1>1, <1>2 DEF WaitsFor
  <1>4. pc[j] \in {"shortening", "splitting"}
    BY <1>2, <1>3 DEF Written
  <1>5. ~(pc[k] \in {"shortening", "splitting"})
    BY <1>3, <1>4, WrittenWithin DEF InFlight
  <1>6. pc[k] = "opening"
    BY <1>3, <1>5 DEF InFlight
  <1> QED
    BY <1>1, <1>6

\* Only a request that has got no row fails, or makes others fail.
THEOREM FoundWageIsSetHolds == Spec => FoundWageIsSet
  <1> DEFINE Excused ==
        \A j \in Jobs :
          (pc'[j] = "server_error" /\ pc[j] # "server_error") =>
            \/ pc[j] = "opening"
            \/ \E k \in Jobs : WaitsFor(j, k) /\ pc[k] = "opening"
  <1>1. IInv /\ [Next]_vars => [Excused]_vars
    <2> SUFFICES ASSUME IInv, Next, NEW j \in Jobs, pc'[j] = "server_error", pc[j] # "server_error"
                 PROVE  \/ pc[j] = "opening"
                        \/ \E k \in Jobs : WaitsFor(j, k) /\ pc[k] = "opening"
      OBVIOUS
    <2>1. ASSUME NEW k \in Jobs, NEW label, Goto(k, label)
          PROVE  k = j /\ label = "server_error"
      BY <2>1 DEF Goto, IInv, TypeOK
    <2>2. PICK k \in Jobs : Step(k) \/ WorkerDies(k)
      BY DEF Next
    <2>3. k = j /\ (Refuse(k) \/ BreakDeadlock(k))
      BY <2>1, <2>2 DEF Step, WorkerDies, Select, LockRow, Reprice, Shorten, InsertRest, InsertOpen,
                        Commit, Refuse, BreakDeadlock
    <2> QED
      BY <2>3, HolderNotRefused, HolderWaitsForOpening DEF Refuse, BreakDeadlock
  <1> QED
    BY <1>1, Invariance, PTL DEF Spec, FoundWageIsSet

-----------------------------------------------------------------------------
(* Wages implements WageHistory *)

Rate == [d \in Dates |-> RateIn(upper, wage, d)]

LEMMA RateIsHistory ==
  /\ [d \in Dates |-> RateOn(d)] = Rate
  /\ [d \in Dates |-> RateOn(d)]' = Rate'
  /\ \A d \in Dates : RateOn(d) = Rate[d]
  BY DEF Rate, RateOn, RateIn, Rows

LEMMA HistoryInit == Init => History!Init
  <1> SUFFICES ASSUME Init PROVE History!Init
    OBVIOUS
  <1>1. upper \in RangeTable /\ Apart(upper)
    BY DEF Init, RangeTable, Apart
  <1>2. CASE upper = [d \in Dates |-> 0]
    <2>1. \A d \in Dates : RateIn(upper, wage, d) = NoWage
      BY <1>1, <1>2, RateOfNone DEF Covers
    <2> QED
      BY <2>1, RateIsHistory DEF Rate, History!Init, History!Dates
  <1>3. ASSUME NEW hire \in Dates,
               upper = [d \in Dates |-> IF d = hire THEN Forever ELSE 0],
               wage = [d \in Dates |-> IF d = hire THEN Hired ELSE NoWage]
        PROVE  History!Init
    <2>1. ASSUME NEW d \in Dates, hire <= d PROVE RateIn(upper, wage, d) = Hired
      <3>1. Covers(upper, hire, d)
        BY <1>3, <2>1 DEF Covers
      <3> QED
        BY <1>1, <1>3, <3>1, RateOfRow
    <2>2. ASSUME NEW d \in Dates, ~(hire <= d) PROVE RateIn(upper, wage, d) = NoWage
      <3>1. \A l \in Dates : ~Covers(upper, l, d)
        BY <1>3, <2>2 DEF Covers
      <3> QED
        BY <1>1, <3>1, RateOfNone
    <2>3. Rate = [d \in Dates |-> IF hire <= d THEN Hired ELSE NoWage]
      BY <2>1, <2>2 DEF Rate
    <2> QED
      BY <2>3, RateIsHistory DEF History!Init, History!Dates
  <1> QED
    BY <1>2, <1>3 DEF Init

LEMMA HistoryStutter ==
  ASSUME UNCHANGED table
  PROVE  [History!Next]_[d \in Dates |-> RateOn(d)]
  <1>1. Rate' = Rate
    BY DEF Rate, table
  <1> QED
    BY <1>1, RateIsHistory

\* A request that has not succeeded has set the wage of no date.
LEMMA NotSet ==
  ASSUME IInv, NEW j \in Jobs, pc[j] # "set", NEW d \in Dates
  PROVE  RateIn(upper, wage, d) # j
  <1>1. upper \in RangeTable /\ Apart(upper)
    BY DEF IInv, TypeOK, RangeTable
  <1>2. CASE \A l \in Dates : ~Covers(upper, l, d)
    BY <1>1, <1>2, RateOfNone
  <1>3. ASSUME NEW l \in Dates, Covers(upper, l, d) PROVE RateIn(upper, wage, d) # j
    BY <1>1, <1>3, RateOfRow DEF IInv, Unset
  <1> QED
    BY <1>2, <1>3

\* A successful request that gives the dates from its month to end a new wage
\* is SetFrom.
LEMMA HistorySet ==
  ASSUME IInv, NEW j \in Jobs, pc[j] # "set", NEW end \in Nat,
         month[j] < end, end <= Forever, NEW old,
         \A d \in Dates : month[j] <= d /\ d < end => RateIn(upper, wage, d) = old,
         Rate' = [d \in Dates |-> IF month[j] <= d /\ d < end THEN j ELSE RateIn(upper, wage, d)]
  PROVE  History!Next
  <1>1. PICK m \in MonthStarts : m = month[j]
    BY DEF IInv, TypeOK
  <1>2. m \in Dates
    BY <1>1
  <1>3. PICK last \in m..LastDate : last = end - 1
    BY <1>1, <1>2
  <1>4. \A d \in Dates : (m <= d /\ d < end) <=> d \in m..last
    BY <1>2, <1>3
  <1>5. Rate' = [d \in Dates |-> IF d \in m..last THEN j ELSE Rate[d]]
    BY <1>1, <1>4 DEF Rate
  <1>6. Rate'[m] = j
    BY <1>2, <1>3, <1>5
  <1>7. \A d \in m..last : Rate[d] = Rate[m]
    BY <1>1, <1>2, <1>3, <1>4 DEF Rate
  <1>8. \A d \in Dates : Rate[d] # j
    BY NotSet DEF Rate
  <1>9. History!SetFrom(m, j)
    <2>1. \A d \in Dates : RateOn(d) # j
      BY <1>8, RateIsHistory
    <2>2. m..last \subseteq Dates /\ m \in Dates
      BY <1>2, <1>3
    <2>3. \A d \in m..last : RateOn(d) = RateOn(m)
      BY <1>7, <2>2, RateIsHistory
    <2>4. [d \in Dates |-> RateOn(d)]' = [d \in Dates |-> IF d \in m..last THEN j ELSE RateOn(d)]
      BY <1>5, RateIsHistory
    <2> QED
      BY <1>3, <2>1, <2>2, <2>3, <2>4 DEF History!SetFrom, History!Dates
  <1> QED
    BY <1>6, <1>9, RateIsHistory DEF History!Next

LEMMA HistoryReprice ==
  ASSUME IInv, NEW j \in Jobs, Reprice(j)
  PROVE  History!Next
  <1>1. PICK m \in Dates : m = month[j]
    BY DEF IInv, TypeOK
  <1>2. row[j] = m /\ Covers(upper, m, m) /\ pc[j] # "set"
    BY <1>1 DEF Reprice, StartsWithMonth, IInv, HoldsFit, Holding
  <1>3. wage \in [Dates -> Jobs \cup {Hired, NoWage}] /\ upper \in RangeTable /\ Apart(upper)
    BY DEF IInv, TypeOK, RangeTable
  <1>4. PICK end \in 0..Forever : end = upper[m]
    BY <1>3 DEF RangeTable
  <1>5. PICK x : x = [wage EXCEPT ![m] = j]
    OBVIOUS
  <1>6. x[m] = j /\ \A l \in Dates : l # m => x[l] = wage[l]
    BY <1>3, <1>5
  <1>7. \A d \in Dates : m <= d /\ d < end => Covers(upper, m, d)
    BY <1>4 DEF Covers
  <1>8. \A d, l \in Dates : ~(m <= d /\ d < end) =>
          (Covers(upper, l, d) <=> Covers(upper, l, d)) /\ (Covers(upper, l, d) => x[l] = wage[l])
    BY <1>4, <1>6 DEF Covers
  <1>9. \A d \in Dates : RateIn(upper, x, d) = IF m <= d /\ d < end THEN x[m] ELSE RateIn(upper, wage, d)
    <2>1. Gives(upper, wage, upper, x, m, end)
      BY <1>7, <1>8 DEF Gives
    <2> QED
      BY <1>3, <2>1, RateAfter
  <1>10. upper' = upper /\ wage' = x
    BY <1>2, <1>5 DEF Reprice
  <1>11. Rate' = [d \in Dates |-> IF month[j] <= d /\ d < end THEN j ELSE RateIn(upper, wage, d)]
    BY <1>1, <1>6, <1>9, <1>10 DEF Rate
  <1>12. \A d \in Dates : month[j] <= d /\ d < end => RateIn(upper, wage, d) = wage[m]
    BY <1>1, <1>3, <1>7, RateOfRow
  <1>13. month[j] < end /\ end <= Forever /\ end \in Nat
    BY <1>1, <1>2, <1>4 DEF Covers
  <1> QED
    BY <1>2, <1>11, <1>12, <1>13, HistorySet

LEMMA HistoryCommit ==
  ASSUME IInv, NEW j \in Jobs, Commit(j)
  PROVE  History!Next
  <1>1. PICK end \in Nat, split \in BOOLEAN : CommitOf(j, month[j], row[j], end, split)
    BY CommitChanges
  <1>2. PICK m \in Dates, r \in Dates : m = month[j] /\ r = row[j]
    BY DEF IInv, TypeOK
  <1>3. wage \in [Dates -> Jobs \cup {Hired, NoWage}] /\ upper \in RangeTable /\ Apart(upper)
    BY DEF IInv, TypeOK, RangeTable
  <1>4. CommitOf(j, m, r, end, split)
    BY <1>1, <1>2
  <1>5. upper' \in RangeTable /\ Apart(upper')
    BY CommitInv DEF IInv, TypeOK, RangeTable
  <1>6. wage'[m] = j /\ \A l \in Dates : l # m => wage'[l] = wage[l]
    BY <1>3, <1>4 DEF CommitOf
  <1>7. \A d \in Dates : m <= d /\ d < end => Covers(upper', m, d)
    BY <1>4 DEF CommitOf, Covers
  <1>8. ASSUME NEW d \in Dates, NEW l \in Dates, ~(m <= d /\ d < end)
        PROVE  (Covers(upper, l, d) <=> Covers(upper', l, d)) /\ (Covers(upper, l, d) => wage'[l] = wage[l])
    <2>1. upper[l] \in Nat /\ upper'[l] \in Nat /\ (upper[l] # 0 => l < upper[l])
      BY <1>3, <1>5 DEF RangeTable, Apart
    <2>2. CASE l = m
      BY <1>4, <1>8, <2>1, <2>2 DEF CommitOf, Covers
    <2>3. CASE l # m
      BY <1>4, <1>6, <1>8, <2>1, <2>3 DEF CommitOf, Covers
    <2> QED
      BY <2>2, <2>3
  <1>10. PICK v, x : v = upper' /\ x = wage'
    OBVIOUS
  <1>11. \A d \in Dates : RateIn(v, x, d) = IF m <= d /\ d < end THEN x[m] ELSE RateIn(upper, wage, d)
    <2>1. v \in RangeTable /\ Apart(v)
      BY <1>5, <1>10
    <2>2. Gives(upper, wage, v, x, m, end)
      BY <1>7, <1>8, <1>10 DEF Gives
    <2> QED
      BY <1>3, <2>1, <2>2, RateAfter
  <1>12. Rate' = [d \in Dates |-> IF month[j] <= d /\ d < end THEN j ELSE RateIn(upper, wage, d)]
    BY <1>2, <1>6, <1>10, <1>11 DEF Rate
  <1>13. PICK old : \A d \in Dates : month[j] <= d /\ d < end => RateIn(upper, wage, d) = old
    <2>1. CASE split
      <3>1. \A d \in Dates : m <= d /\ d < end => Covers(upper, r, d)
        BY <1>4, <2>1 DEF CommitOf, Covers
      <3>2. \A d \in Dates : m <= d /\ d < end => RateIn(upper, wage, d) = wage[r]
        BY <1>3, <3>1, RateOfRow
      <3> QED
        BY <1>2, <3>2
    <2>2. CASE ~split
      <3>1. ASSUME NEW d \in Dates, NEW l \in Dates, m <= d PROVE ~Covers(upper, l, d)
        <4>1. upper[l] \in Nat
          BY <1>3 DEF RangeTable
        <4>2. upper[l] # 0 => upper[l] <= m
          BY <1>4, <2>2 DEF CommitOf
        <4> QED
          BY <3>1, <4>1, <4>2 DEF Covers
      <3>2. \A d \in Dates : m <= d /\ d < end => RateIn(upper, wage, d) = NoWage
        BY <1>3, <3>1, RateOfNone
      <3> QED
        BY <1>2, <3>2
    <2> QED
      BY <2>1, <2>2
  <1>14. pc[j] # "set" /\ month[j] < end /\ end <= Forever
    BY <1>1 DEF Commit, CommitOf
  <1> QED
    BY <1>12, <1>13, <1>14, HistorySet

LEMMA HistoryNext == IInv /\ [Next]_vars => [History!Next]_[d \in Dates |-> RateOn(d)]
  <1> SUFFICES ASSUME IInv, [Next]_vars PROVE [History!Next]_[d \in Dates |-> RateOn(d)]
    OBVIOUS
  <1>1. CASE UNCHANGED table
    BY <1>1, HistoryStutter
  <1>2. ASSUME NEW j \in Jobs, Reprice(j) \/ Commit(j) PROVE History!Next
    BY <1>2, HistoryReprice, HistoryCommit
  <1> QED
    BY <1>1, <1>2 DEF Next, Step, vars, table, Select, LockRow, Shorten, InsertRest, InsertOpen,
                      Refuse, BreakDeadlock, WorkerDies

\* Requests that set the wages of one employee together change them, for the
\* payroll, in the steps of WageHistory.
THEOREM Refinement == Spec => ImplementsHistory
  BY Invariance, HistoryInit, HistoryNext, PTL DEF Spec, ImplementsHistory, History!Spec
=============================================================================
