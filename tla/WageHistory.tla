----------------------------- MODULE WageHistory -----------------------------
(***************************************************************************)
(* What setting a wage promises ("set the wage from the selected month     *)
(* without rewriting earlier months", apps/payroll/services/preview.py):   *)
(* every date has at most one hourly wage, and a request that succeeds     *)
(* replaces, at once, the wage of its month and of the dates after it up   *)
(* to the next change.  There are no rows, ranges or transactions here.    *)
(***************************************************************************)
EXTENDS Naturals

CONSTANTS LastDate, MonthStarts, Jobs, Hired, NoWage

VARIABLE rate     \* the wage of each date, named by the request that set it

Dates == 0..LastDate

\* An employee has the wage of the hire form from the hire date on, or none.
Init ==
  \/ rate = [d \in Dates |-> NoWage]
  \/ \E hire \in Dates : rate = [d \in Dates |-> IF hire <= d THEN Hired ELSE NoWage]

SetFrom(m, a) ==
  /\ \A d \in Dates : rate[d] # a
  /\ \E last \in m..LastDate :
       /\ \A d \in m..last : rate[d] = rate[m]
       /\ rate' = [d \in Dates |-> IF d \in m..last THEN a ELSE rate[d]]

\* (The first conjunct is implied by the second and saves TLC time.)
Next == LET new == rate' IN
        \E m \in MonthStarts, a \in Jobs : new[m] = a /\ SetFrom(m, a)

Spec == Init /\ [][Next]_rate
=============================================================================
