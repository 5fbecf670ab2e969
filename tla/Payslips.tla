------------------------------- MODULE Payslips -------------------------------
(***************************************************************************)
(* From the work of a month to the archive of its pay statements, the data *)
(* that PayrollClose leaves out: the preview (payroll/services/preview.py),*)
(* the payload, the checks of the payload and the snapshot (close.py), and *)
(* the export (apps/exports).  A payload is either that of month_close.py, *)
(* which the program closes months with, or one that a caller composes     *)
(* from the results of the payroll services (base pay, weekly allowance,   *)
(* premiums, items by hand).  Nothing in the program composes one yet:     *)
(* scripts/e2e_smoke.py shows the form, with two earnings, no items by     *)
(* hand and a constant deduction.                                          *)
(*                                                                         *)
(* The store, chosen at the start, holds what does not change here: the    *)
(* employees with their payable segments in the order of the shifts (see   *)
(* PayableTime) and their terms, or the facts of a payload that the        *)
(* services build.  Wages and premiums change while the preview reads      *)
(* them, for it reads in one statement after the other outside any         *)
(* transaction.  Shifts are approved.                                      *)
(*                                                                         *)
(* A day is a number: the month's days are 1..Length, 1 is the weekday     *)
(* store.first (0 for Monday).                                             *)
(*                                                                         *)
(* PayProofs speaks of this module, of Wages and of PayableTime, so that   *)
(* no two of them share a name.                                            *)
(***************************************************************************)
EXTENDS Reconciliation, Statements

CONSTANTS
  Stores,       \* what may be in the database at the start
  Length,       \* days of the month
  PerHour,      \* units of time in an hour
  Clock,        \* dates on which something is done
  Amounts,      \* wages a manager may set
  NoEnd,        \* the end of a range that has none
  MaxChanges,   \* bound: wages set
  MaxRequests,  \* bound: requests about premiums
  MaxVersions   \* bound: snapshots

\* Segments are shorter than a number of hours that needs more digits than
\* the decimal context has.
Units == {n \in Nat : n < PerHour * Pow10[Precision]}

\* A database, as its columns and its constraints have it: the terms of an
\* employee do not overlap (employment_terms_no_overlap_per_employee).
EmployeeFits(p) ==
  /\ p.hire \in Int /\ (p.leave = None \/ p.leave \in Int)
  /\ p.work \in Seq([day : Int, units : Units])
  /\ p.wages \subseteq [from : Int, to : Int, wage : Nat]
  /\ \A r \in p.terms : r.from \in Int /\ r.to \in Int /\ r.weekday \in 0..6
  /\ \A r, q \in p.terms : r = q \/ r.to <= q.from \/ q.to <= r.from
PayFits(pay) ==
  /\ pay.rated \in Seq([units : Units, wage : Nat])
  /\ pay.facts \in [shortTime : BOOLEAN, dailyHours : Nat, fourWeekHours : Nat,
                    referenceDays : Int, wage : Nat]
  /\ pay.facts.fourWeekHours < Pow10[Precision]
  /\ \A items \in {pay.earnings, pay.deductions} :
       items \in Seq([kind : STRING, amount : Int, note : STRING])
StoreFits(s) ==
  /\ s.first \in 0..6
  /\ \A e \in DOMAIN s.employees : EmployeeFits(s.employees[e])
  /\ s.kind = "services" => s.pay.employee \in DOMAIN s.employees /\ PayFits(s.pay)

\* The context has digits enough for the work of a month: each of n segments
\* may lose a few parts in 10^Precision of the pay of all of them, and those of
\* all n stay below a won.
Precise(n, units, amount) ==
  20 * n * (n * units * amount + PerHour * amount + 1) < Pow10[Precision]
PayPrecise(p) ==
  \A i \in DOMAIN p.work, amount \in Amounts \cup {r.wage : r \in p.wages} :
    Precise(Len(p.work), p.work[i].units, amount)
AmountsPrecise(s) ==
  /\ \A e \in DOMAIN s.employees : PayPrecise(s.employees[e])
  /\ s.kind = "services" =>
       \A i \in DOMAIN s.pay.rated :
         Precise(Len(s.pay.rated), s.pay.rated[i].units, s.pay.rated[i].wage)

ASSUME PayslipsAssumption ==
  /\ Length \in Nat \ {0} /\ PerHour \in Nat \ {0}
  /\ Clock \subseteq Nat /\ Clock # {}
  /\ NoEnd \in Nat /\ \A day \in Clock : day < NoEnd
  /\ NoEnd > Length
  /\ Amounts \subseteq Nat
  /\ None \notin Int
  /\ \A s \in Stores : StoreFits(s)

\* With 28 digits, wages below 2^31 and segments of at most a day in
\* microseconds, it holds of some 1600 segments in a month.
ASSUME PrecisionSuffices == \A s \in Stores : AmountsPrecise(s)

VARIABLES
  store,       \* the input
  today,       \* the local date
  wages,       \* HourlyWage: a set of rows per employee
  changes,     \* wages set so far
  build,       \* the request that closes the month
  closed,      \* the period's status is CLOSED
  snapshots,   \* PayrollSnapshot
  archive      \* what the last download returned

payslipsVars == <<store, today, wages, changes, build, closed, snapshots, archive,
                  reconciliationVars>>

Days == 1..Length
Codes == DOMAIN store.employees
Employee(e) == store.employees[e]

Done == [pc |-> "idle"]

PayslipsInit ==
  /\ store \in Stores
  /\ today \in Clock
  /\ wages = [e \in Codes |-> Employee(e).wages]
  /\ changes = 0
  /\ build = Done
  /\ closed = FALSE
  /\ snapshots = <<>>
  /\ archive = None
  /\ ReconciliationInit

Tick ==
  /\ today' \in Clock /\ today' > today
  /\ UNCHANGED <<store, wages, changes, build, closed, snapshots, archive, reconciliationVars>>

-----------------------------------------------------------------------------
(* Wages *)

RowOn(rows, day) == {r \in rows : r.from <= day /\ day < r.to}
WageOn(rows, day) == IF RowOn(rows, day) = {} THEN None
                     ELSE (CHOOSE r \in RowOn(rows, day) : TRUE).wage

\* set_hourly_wage from the month on; Wages has the transaction in detail.
\* The exclusion constraint refuses an open-ended row before an existing one.
WithWage(rows, amount) ==
  LET active == RowOn(rows, 1) IN
  IF active = {} THEN rows \cup {[from |-> 1, to |-> NoEnd, wage |-> amount]}
  ELSE LET r == CHOOSE r \in active : TRUE
       IN  (rows \ active) \cup {[r EXCEPT !.from = 1, !.wage = amount]}
             \cup (IF r.from = 1 THEN {} ELSE {[r EXCEPT !.to = 1]})

SetHourlyWage(e, amount) ==
  /\ store.kind = "console"
  /\ changes < MaxChanges
  /\ RowOn(wages[e], 1) # {} \/ \A r \in wages[e] : r.to <= 1
  /\ wages' = [wages EXCEPT ![e] = WithWage(@, amount)]
  /\ changes' = changes + 1
  /\ build' = IF build = Done THEN build ELSE [build EXCEPT !.seen = @ \cup {wages'}]
  /\ UNCHANGED <<store, today, closed, snapshots, archive, reconciliationVars>>

-----------------------------------------------------------------------------
(* monthly_payroll_lines, one query after the other *)

\* Hired before the month's end, and not gone before it began.
\* Faulty variant: somebody who leaves on the first day is left out.
GoneOnTheFirst(e) ==
  /\ Employee(e).hire <= Length
  /\ Employee(e).leave = None \/ Employee(e).leave > 1
Listed(e) ==
  /\ Employee(e).hire <= Length
  /\ Employee(e).leave = None \/ Employee(e).leave >= 1

\* Of the shifts' segments, those that begin in the month.
InMonth(e, i) == Employee(e).work[i].day \in Days

BuildOnly == UNCHANGED <<store, today, wages, changes, closed, snapshots, archive,
                         reconciliationVars>>

\* close_month and the scheduled command.  (seen: the wages since the start.)
ListEmployees ==
  /\ store.kind = "console"
  /\ build = Done
  /\ Len(snapshots) < MaxVersions
  /\ build' = [pc |-> "employee", lines |-> <<>>, seen |-> {wages},
               staff |-> {e \in Codes : Listed(e)}]
  /\ BuildOnly

\* One employee after the other, in the order of their codes.
ReadWageAtStart ==
  /\ build.pc = "employee"
  /\ \E e \in build.staff :
       /\ \A f \in build.staff : e <= f
       /\ build' =
            [pc |-> "segment", lines |-> build.lines, seen |-> build.seen,
             staff |-> build.staff \ {e}, next |-> 1,
             line |-> [employee |-> e, rated |-> <<>>,
                       blockers |-> Employee(e).blockers \cup
                         {b \in {"MISSING_HOURLY_WAGE"} : WageOn(wages[e], 1) = None}]]
  /\ BuildOnly

\* The wage of a segment is that of its day.
Rated(line, segment) ==
  LET wage == WageOn(wages[line.employee], segment.day)
  IN  IF wage = None THEN [line EXCEPT !.blockers = @ \cup {"MISSING_HOURLY_WAGE"}]
      ELSE [line EXCEPT !.rated = Append(@, [units |-> segment.units, wage |-> wage])]
RateSegment ==
  /\ build.pc = "segment"
  /\ LET e == build.line.employee
         i == build.next
     IN  /\ i \in DOMAIN Employee(e).work
         /\ build' = [build EXCEPT
              !.next = i + 1,
              !.line = IF InMonth(e, i) THEN Rated(@, Employee(e).work[i]) ELSE @]
  /\ BuildOnly

FinishLine ==
  /\ build.pc = "segment"
  /\ build.next \notin DOMAIN Employee(build.line.employee).work
  /\ build' = [pc |-> "employee", seen |-> build.seen, staff |-> build.staff,
               lines |-> Append(build.lines, build.line)]
  /\ BuildOnly

-----------------------------------------------------------------------------
(* The payload *)

Payload(lines, seen) == [pc |-> "check", payload |-> lines, seen |-> seen]

\* build_month_payload: one blocker of one line stops the whole month.
PayLine(line) ==
  LET gross == BasePay(line.rated, PerHour)
  IN  [employee |-> line.employee, rated |-> line.rated, net |-> gross,
       earnings |-> <<gross>>, deductions |-> <<>>, refused |-> {},
       restWeekday |-> None, weekIncomplete |-> FALSE]
BuildMonthPayload ==
  /\ build.pc = "employee"
  /\ build.staff = {}
  /\ build' = IF build.lines = <<>> \/ \E line \in ToSet(build.lines) : line.blockers # {}
              THEN Done
              ELSE Payload([i \in DOMAIN build.lines |-> PayLine(build.lines[i])], build.seen)
  /\ BuildOnly

\* The line of an assumed caller, which adds up what the services return:
\* base pay, the weekly allowance its manager confirmed, items by hand that
\* their validators accept (PayValid), and the premiums once all are final;
\* refused, restWeekday and weekIncomplete stand for the optional keys that
\* close_period looks at.  That net is the difference of the two totals is the
\* caller's doing.
Entered(items) == [i \in DOMAIN items |-> items[i].amount]
ServicesLine(pay) ==
  LET earnings == <<BasePay(pay.rated, PerHour), WeeklyAllowance(pay.facts, pay.applicable)>>
                    \o Entered(pay.earnings)
      deductions == <<FinalAmounts>> \o Entered(pay.deductions)
  IN  [employee |-> pay.employee, rated |-> pay.rated,
       net |-> Total(earnings) - Total(deductions),
       earnings |-> earnings, deductions |-> deductions, refused |-> pay.refused,
       restWeekday |-> pay.restWeekday, weekIncomplete |-> pay.weekIncomplete]
PayValid(pay) ==
  /\ ~(pay.applicable /\ AllowanceRefused(pay.facts))
  /\ \A item \in ToSet(pay.earnings) : ManualEarningOk(item)
  /\ \A item \in ToSet(pay.deductions) : ManualDeductionOk(item)
BuildServicesPayload ==
  /\ store.kind = "services"
  /\ build = Done
  /\ Len(snapshots) < MaxVersions
  /\ AllInsurancesFinal
  /\ PayValid(store.pay)
  /\ build' = Payload(<<ServicesLine(store.pay)>>, {wages})
  /\ BuildOnly

-----------------------------------------------------------------------------
(* close_period, the checks of the payload *)

\* _effective_weekly_rest_weekday, in force on the day of the close.
RestWeekday(line) ==
  LET terms == RowOn(Employee(line.employee).terms, today)
  IN  IF terms = {} THEN line.restWeekday ELSE (CHOOSE r \in terms : TRUE).weekday

WeekIncomplete(line) ==
  LET rest == RestWeekday(line)
  IN  IF rest = None THEN line.weekIncomplete
      ELSE ~BoundaryWeekComplete(Length, store.first, rest, today)

\* collect_blockers, without those of the shifts.
CollectBlockers(payload) ==
  {b \in {"PERIOD_NOT_ENDED"} : today <= Length} \cup
  {b \in {"NEGATIVE_NET"} : \E line \in ToSet(payload) : line.net < 0} \cup
  {b \in {"MONTH_BOUNDARY_WEEK_INCOMPLETE"} : \E line \in ToSet(payload) : WeekIncomplete(line)} \cup
  UNION {line.refused : line \in ToSet(payload)}

Check ==
  /\ build.pc = "check"
  /\ build' = IF CollectBlockers(build.payload) # {} THEN Done
              ELSE [pc |-> "close", payload |-> build.payload, seen |-> build.seen,
                    on |-> today]
  /\ BuildOnly

\* The locked transaction; while the period is closed it changes nothing.
Close ==
  /\ build.pc = "close"
  /\ build' = Done
  /\ closed' = TRUE
  /\ snapshots' = IF closed THEN snapshots
                  ELSE Append(snapshots, [version |-> Len(snapshots) + 1,
                                          payload |-> build.payload,
                                          seen |-> build.seen, on |-> build.on])
  /\ UNCHANGED <<store, today, wages, changes, archive, reconciliationVars>>

Reopen ==
  /\ closed
  /\ closed' = FALSE
  /\ UNCHANGED <<store, today, wages, changes, build, snapshots, archive, reconciliationVars>>

\* download_statements and create_export; a statement that is too long is an
\* error, and no archive.
Download ==
  /\ closed
  /\ Exportable(Last(snapshots))
  /\ archive' = Archive(Last(snapshots))
  /\ UNCHANGED <<store, today, wages, changes, build, closed, snapshots, reconciliationVars>>

PremiumStep ==
  /\ store.kind = "services"
  /\ ReconciliationNext
  /\ handled' <= MaxRequests
  /\ UNCHANGED <<store, today, wages, changes, build, closed, snapshots, archive>>

PayslipsNext ==
  \/ Tick
  \/ \E e \in Codes, amount \in Amounts : SetHourlyWage(e, amount)
  \/ ListEmployees \/ ReadWageAtStart \/ RateSegment \/ FinishLine
  \/ BuildMonthPayload \/ BuildServicesPayload
  \/ Check \/ Close \/ Reopen \/ Download
  \/ PremiumStep

PayslipsSpec == PayslipsInit /\ [][PayslipsNext]_payslipsVars

-----------------------------------------------------------------------------
(* Properties *)

Snapshots == ToSet(snapshots)
Lines == UNION {ToSet(s.payload) : s \in Snapshots}

\* Nobody is shortchanged by a fraction of a won ("positive earnings round up
\* so employees are never shortchanged by fractions", core/money.py), although
\* hours are decimals of limited precision: base pay is the exact pay rounded
\* up, or, when thirds of an hour leave a remainder, one won more.
UpTo(n, d) == (n + d - 1) \div d
ExactPay(rated) ==
  UpTo(Total([i \in DOMAIN rated |-> rated[i].units * rated[i].wage]), PerHour)
PayWithinOneWon ==
  \A line \in Lines :
    line.earnings[1] \in ExactPay(line.rated)..(ExactPay(line.rated) + 1)

\* Whoever worked in the month, between being hired and leaving, is paid for
\* all of it in every snapshot of it, each segment at a wage that was that
\* day's at some moment of the preview; or the month is not closed.
Employed(e, day) ==
  /\ Employee(e).hire <= day
  /\ Employee(e).leave = None \/ day <= Employee(e).leave
InMonthUpTo(e, n) == Cardinality({i \in 1..n : InMonth(e, i)})
WagesSeen(e, day, seen) == {WageOn(w[e], day) : w \in seen}
PaidInFull(line, e, seen) ==
  LET work == Employee(e).work IN
  /\ line.employee = e
  /\ Len(line.rated) = InMonthUpTo(e, Len(work))
  /\ \A i \in DOMAIN work :
       InMonth(e, i) =>
         LET rated == line.rated[InMonthUpTo(e, i)]
         IN  rated.units = work[i].units /\ rated.wage \in WagesSeen(e, work[i].day, seen)
WorkIsPaid ==
  store.kind = "console" =>
    \A s \in Snapshots, e \in Codes :
      (\E i \in DOMAIN Employee(e).work :
         InMonth(e, i) /\ Employed(e, Employee(e).work[i].day)) =>
        \E line \in ToSet(s.payload) : PaidInFull(line, e, s.seen)

\* The archive says one thing: on every sheet the rows of items add up to the
\* totals, the net pay of a sheet, of the manifest and of the payload that the
\* close checked are the same amount and not negative, and the summary's totals
\* are those of its rows.
Cell(column, row) == IF row \in DOMAIN column THEN column[row] ELSE 0
ColumnSum(column) ==
  Total([i \in 1..(LastItemRow - FirstRow + 1) |-> Cell(column, FirstRow + i - 1)])
ArchiveAddsUp ==
  archive # None =>
    LET payload == snapshots[archive.version].payload
        summary == archive.summary
    IN  /\ Len(archive.sheets) = Len(payload) /\ Len(summary.rows) = Len(payload)
        /\ \A i \in DOMAIN payload :
             LET sheet == archive.sheets[i]
                 pay == ColumnSum(sheet.B)
                 deduction == ColumnSum(sheet.D)
             IN  /\ sheet.B[LastItemRow + 2] = pay
                 /\ sheet.D[LastItemRow + 1] = deduction
                 /\ \A net \in {sheet.D[LastItemRow + 2], archive.manifest[i].net,
                                summary.rows[i].net, pay - deduction} : net = payload[i].net
                 /\ archive.manifest[i].employee = payload[i].employee
                 /\ payload[i].net >= 0
        /\ summary.net = Total([i \in DOMAIN payload |-> payload[i].net])
        /\ summary.net = summary.pay - summary.deduction

\* A month is closed only when every labour week whose paid rest day lies in it
\* is over ("it is only complete once its Sunday has elapsed",
\* weekly_allowance.py), for an employee whose terms did not change since.
AllowanceWeeksElapsed ==
  \A s \in Snapshots : \A line \in ToSet(s.payload) :
    \A row \in Employee(line.employee).terms :
      row.from <= 1 /\ s.on < row.to =>
        \A day \in {d \in Days : Weekday(d, store.first) = row.weekday} :
          \E sunday \in day..(day + 6) :
            Weekday(sunday, store.first) = 6 /\ sunday <= s.on
=============================================================================
