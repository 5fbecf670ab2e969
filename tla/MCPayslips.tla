------------------------------ MODULE MCPayslips ------------------------------
(* Databases for the runs of Payslips: a month of nine days, wages in won   *)
(* for six units of time.                                                   *)
EXTENDS Payslips

CONSTANT NoValue

WageRow(from, to, wage) == [from |-> from, to |-> to, wage |-> wage]
Terms(from, to, weekday) == [from |-> from, to |-> to, weekday |-> weekday]
Segment(day, units) == [day |-> day, units |-> units]

Person(hire, leave, rows, terms, work, blockers) ==
  [hire |-> hire, leave |-> leave, wages |-> rows, terms |-> terms, work |-> work,
   blockers |-> blockers]

\* Three short segments at the same wage round apart; one leaves on the first
\* day, one is hired in the month, one has a raise in it.
Always == {WageRow(0, 99, 10)}
Raise == {WageRow(0, 5, 10), WageRow(5, 99, 13)}
Thirds == <<Segment(1, 1), Segment(6, 1), Segment(9, 1), Segment(10, 2)>>
Long == <<Segment(0, 3), Segment(1, 47), Segment(5, 29)>>
Sundays == {Terms(0, 99, 6)}
Mondays == {Terms(0, 99, 0)}
Changing == {Terms(0, 10, 2), Terms(10, 99, 6)}

First == Person(0, NoValue, Always, Sundays, Thirds, {})
Others ==
  {Person(0, 1, Always, {}, <<Segment(1, 4)>>, {}),
   Person(0, 4, Raise, Mondays, Thirds, {}),
   Person(0, NoValue, Raise, Changing, Long, {}),
   Person(3, NoValue, {WageRow(3, 99, 10)}, Mondays, Long, {}),
   Person(0, NoValue, {}, {}, Thirds, {}),
   Person(0, NoValue, Always, {}, <<>>, {"OPEN_SHIFT"}),
   Person(0, 0, Always, {}, <<Segment(0, 4)>>, {}),
   Person(10, NoValue, {WageRow(10, 99, 10)}, {}, <<Segment(10, 6)>>, {})}

Console ==
  [kind : {"console"}, first : {0, 3, 6}, employees : {<<First, other>> : other \in Others}]

\* Payloads of the services.
Facts(short, days) ==
  [shortTime |-> short, dailyHours |-> 8, fourWeekHours |-> 20, referenceDays |-> days, wage |-> 10]
Manual(kind, amount) == [kind |-> kind, amount |-> amount, note |-> "as agreed"]
Pay(facts, applicable, earnings, deductions, refused, rest, incomplete) ==
  [employee |-> 1, rated |-> <<[units |-> 2, wage |-> 10], [units |-> 5, wage |-> 10]>>,
   facts |-> facts, applicable |-> applicable, earnings |-> earnings, deductions |-> deductions,
   refused |-> refused, restWeekday |-> rest, weekIncomplete |-> incomplete]
Full == Facts(FALSE, 20)
Pays ==
  {Pay(Full, TRUE, <<>>, <<>>, {}, NoValue, FALSE),
   Pay(Facts(TRUE, 3), TRUE, <<Manual("BONUS", 7)>>, <<Manual("UNION", 4)>>, {}, 6, FALSE),
   Pay(Facts(TRUE, 0), TRUE, <<>>, <<>>, {}, NoValue, FALSE),
   Pay(Facts(TRUE, 0), FALSE, <<Manual("ADJUSTMENT", -6)>>, <<Manual("YEAR_END", -2)>>, {},
       0, FALSE),
   Pay(Full, FALSE, <<Manual("BONUS", -6)>>, <<>>, {}, NoValue, FALSE),
   Pay(Full, FALSE, <<Manual("BONUS", 1), Manual("OTHER", 2)>>, <<>>, {}, NoValue, FALSE),
   Pay(Full, TRUE, <<>>, <<Manual("OTHER", 1), Manual("UNION", 1), Manual("SAVINGS", 1)>>, {},
       NoValue, FALSE),
   Pay(Full, TRUE, <<>>, <<>>, {"TIME_BLOCKER"}, NoValue, FALSE),
   Pay(Full, TRUE, <<>>, <<>>, {}, NoValue, TRUE)}
Services ==
  {[kind |-> "services", first |-> 3, pay |-> pay,
    employees |-> <<Person(0, NoValue, {}, IF pay.restWeekday # NoValue \/ pay.weekIncomplete
                                           THEN {} ELSE Mondays, <<>>, {})>>] : pay \in Pays}

AllStores == Console \cup Services

\* data/insurance_rates/2026.1.json.
RateFile ==
  [i \in EmployeeInsurances |->
     [rate |-> CASE i = "NATIONAL_PENSION" -> Decimal(475, 4) [] i = "HEALTH" -> Decimal(3595, 5)
                 [] i = "LONG_TERM_CARE" -> Decimal(1295, 4) [] i = "EMPLOYMENT" -> Decimal(9, 3),
      rounding |-> "ROUND_DOWN"]]
=============================================================================
