------------------------------- MODULE Earnings -------------------------------
(***************************************************************************)
(* The arithmetic of pay (apps/core/money.py and apps/payroll/services/    *)
(* earnings, deductions/estimate.py and deductions/manual.py): decimals of *)
(* limited precision, base pay, the weekly allowance, the premiums, and    *)
(* what a manager may enter by hand.                                       *)
(*                                                                         *)
(* A Decimal is a coefficient and the number of its digits that follow the *)
(* point.  Every operation keeps Precision significant digits and rounds   *)
(* half-even, as the default context of Python's decimal module does with  *)
(* 28; quantize is exact.                                                  *)
(***************************************************************************)
EXTENDS Integers, Sequences, SequencesExt, FiniteSetsExt

CONSTANT Precision   \* significant digits of the decimal context

ASSUME PrecisionAssumption == Precision \in Nat \ {0}

-----------------------------------------------------------------------------
(* Decimals *)

Pow10[n \in Nat] == IF n = 0 THEN 1 ELSE 10 * Pow10[n - 1]

Decimal(coef, digits) == [coef |-> coef, digits |-> digits]

\* a / b to the nearest integer, the even one of two.
HalfEven(a, b) ==
  LET floor == a \div b
      rest == 2 * (a % b)
  IN  IF rest > b \/ (rest = b /\ floor % 2 = 1) THEN floor + 1 ELSE floor

\* What the context keeps of a non-negative result.  A result without a point
\* is short enough here.
Surplus(d) == CHOOSE n \in 0..d.digits :
                /\ n = d.digits \/ d.coef < Pow10[Precision + n]
                /\ n = 0 \/ d.coef >= Pow10[Precision + n - 1]
Rounded(d) == Decimal(HalfEven(d.coef, Pow10[Surplus(d)]), d.digits - Surplus(d))

Whole(n) == Decimal(n, 0)

\* Decimal(a) / Decimal(b): as many digits as the context has room for.
Divide(a, b) ==
  LET room == CHOOSE n \in 0..Precision :
                /\ a * Pow10[n] < b * Pow10[Precision]
                /\ n = Precision \/ a * Pow10[n + 1] >= b * Pow10[Precision]
  IN  Decimal(HalfEven(a * Pow10[room], b), room)

Times10(d, digits) == d.coef * Pow10[digits - d.digits]
Plus(c, d) ==
  LET digits == IF c.digits > d.digits THEN c.digits ELSE d.digits
  IN  Rounded(Decimal(Times10(c, digits) + Times10(d, digits), digits))
TimesWhole(d, n) == Rounded(Decimal(d.coef * n, d.digits))

\* ceil_won: quantize(1, ROUND_CEILING).
CeilWon(d) == -((-d.coef) \div Pow10[d.digits])

-----------------------------------------------------------------------------
(* Base pay *)

\* TimeSegment.hours of a segment of so many units, of which perHour make an hour.
Hours(units, perHour) == Divide(units, perHour)

\* calculate_base_pay: subtotals and their sum are Decimals, rounded up once.
\* Faulty variant: every subtotal is rounded up.
RoundedEach(segments, perHour) ==
  FoldLeft(LAMBDA total, s : total + CeilWon(TimesWhole(Hours(s.units, perHour), s.wage)),
           0, segments)
Subtotal(s, perHour) == TimesWhole(Hours(s.units, perHour), s.wage)
BasePay(segments, perHour) ==
  LET sum[i \in 0..Len(segments)] ==
        IF i = 0 THEN Whole(0) ELSE Plus(sum[i - 1], Subtotal(segments[i], perHour))
  IN  CeilWon(sum[Len(segments)])

-----------------------------------------------------------------------------
(* The weekly holiday allowance *)

\* weekly_allowance_hours; a short-time worker without reference days is an
\* error, which the caller of AllowanceHours rules out.
AllowanceRefused(facts) == facts.shortTime /\ facts.referenceDays <= 0
AllowanceHours(facts) ==
  IF facts.shortTime THEN Divide(facts.fourWeekHours, facts.referenceDays)
  ELSE Whole(facts.dailyHours)

WeeklyAllowance(facts, applicable) ==
  IF applicable THEN CeilWon(TimesWhole(AllowanceHours(facts), facts.wage)) ELSE 0

\* is_month_boundary_week_complete, over the days 1..length of a month whose
\* first day is the weekday first (0 for Monday) of the week.  Faulty variant: a
\* week counts once its Monday is there.
Weekday(day, first) == (day - 1 + first) % 7
SundayAfter(day, first) == day + 6 - Weekday(day, first)
BoundaryWeekBegun(length, first, restWeekday, asOf) ==
  \A day \in 1..length :
    Weekday(day, first) = restWeekday =>
      SundayAfter(day, first) <= length \/ SundayAfter(day, first) - 6 <= asOf
BoundaryWeekComplete(length, first, restWeekday, asOf) ==
  \A day \in 1..length :
    Weekday(day, first) = restWeekday =>
      SundayAfter(day, first) <= length \/ SundayAfter(day, first) <= asOf

-----------------------------------------------------------------------------
(* Premiums *)

EmployeeInsurances == {"NATIONAL_PENSION", "HEALTH", "LONG_TERM_CARE", "EMPLOYMENT"}

\* The entries of a rate file: a share of base, or of the health premium, in
\* parts of 10^-digits.
RoundDown(d) == d.coef \div Pow10[d.digits]
RoundHalfUp(d) == (2 * d.coef + Pow10[d.digits]) \div (2 * Pow10[d.digits])
RoundBy(d, rule) == IF rule = "ROUND_DOWN" THEN RoundDown(d) ELSE RoundHalfUp(d)

ShareOf(amount, entry) == RoundBy(TimesWhole(entry.rate, amount), entry.rounding)

\* estimate_premium: long-term care is a share of the rounded health premium.
EstimatePremium(insurance, base, rates) ==
  IF insurance = "LONG_TERM_CARE"
  THEN ShareOf(ShareOf(base, rates["HEALTH"]), rates[insurance])
  ELSE ShareOf(base, rates[insurance])

-----------------------------------------------------------------------------
(* What managers enter *)

ManualEarningKinds == {"BONUS", "OVERTIME", "NIGHT", "HOLIDAY", "OTHER", "ADJUSTMENT"}
ManualEarningOk(item) ==
  /\ item.kind \in ManualEarningKinds
  /\ item.amount < 0 => item.kind = "ADJUSTMENT"
  /\ item.note # ""

ManualDeductionKinds ==
  {"INCOME_TAX", "LOCAL_INCOME_TAX", "UNION", "SAVINGS", "YEAR_END", "OTHER"}
ManualDeductionOk(item) ==
  /\ item.kind \in ManualDeductionKinds
  /\ item.amount < 0 => item.kind = "YEAR_END"
  /\ item.note # ""
=============================================================================
