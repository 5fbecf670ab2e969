-------------------------------- MODULE Wages --------------------------------
(***************************************************************************)
(* The hourly wages of one employee (HourlyWage in apps/payroll/models/    *)
(* policies.py) and set_hourly_wage (apps/payroll/services/preview.py),    *)
(* called by several managers at once.                                     *)
(*                                                                         *)
(* A row holds a wage for a half-open range of dates.  No two ranges       *)
(* overlap (hourly_wage_no_overlap_per_employee), and no row is deleted or *)
(* gets another first date, so a row is named by its first date.  A wage   *)
(* is named by the request that set it.  Amounts and malformed requests    *)
(* are left out.                                                           *)
(*                                                                         *)
(* An exclusion constraint first writes the row and then looks for others  *)
(* it overlaps: it waits for those that a transaction in flight has        *)
(* written or is replacing, and fails if one is committed.                 *)
(***************************************************************************)
EXTENDS Naturals

CONSTANTS
  LastDate,      \* bound: dates are 0..LastDate
  MonthStarts,   \* the first dates of months
  Jobs,          \* requests to /manager/payroll/wage/
  Hired,         \* the wage given when the employee was created
  NoWage

ASSUME WagesAssumption ==
  /\ LastDate \in Nat
  /\ MonthStarts \subseteq 0..LastDate
  /\ Hired \notin Jobs /\ NoWage \notin Jobs \cup {Hired}

VARIABLES
  upper,     \* committed rows: where the range that starts on a date ends; 0 for no row
  wage,      \* ... and its wage
  month,     \* the month each request names
  pc,
  row        \* the row its query has found

table == <<upper, wage>>
vars == <<upper, wage, month, pc, row>>

Dates == 0..LastDate
Forever == LastDate + 1
Ended == {"set", "server_error", "dead"}

TypeOK ==
  /\ upper \in [Dates -> 0..Forever]
  /\ wage \in [Dates -> Jobs \cup {Hired, NoWage}]
  /\ month \in [Jobs -> MonthStarts]
  /\ pc \in [Jobs -> Ended \cup {"start", "lock", "held", "shortening", "splitting",
                                 "open", "opening"}]
  /\ row \in [Jobs -> Dates]

\* The console creates an employee with a wage from the hire date on, which
\* may be any date; other employees have none.
Init ==
  /\ \/ upper = [d \in Dates |-> 0] /\ wage = [d \in Dates |-> NoWage]
     \/ \E hire \in Dates :
          /\ upper = [d \in Dates |-> IF d = hire THEN Forever ELSE 0]
          /\ wage = [d \in Dates |-> IF d = hire THEN Hired ELSE NoWage]
  /\ month \in [Jobs -> MonthStarts]
  /\ pc = [j \in Jobs |-> "start"]
  /\ row = [j \in Jobs |-> 0]

-----------------------------------------------------------------------------
(* Ranges, as sets of dates *)

From(first, end) == {d \in Dates : first <= d /\ d < end}
Rows == {l \in Dates : upper[l] # 0}
Span(l) == From(l, upper[l])

\* What a transaction has written or is replacing ...
Replaces(k, l) == pc[k] \in {"shortening", "splitting"} /\ row[k] = l
InFlight(k) ==
  IF pc[k] = "opening" THEN From(month[k], Forever)
  ELSE IF pc[k] \in {"shortening", "splitting"} THEN Span(row[k]) ELSE {}

\* ... and the range that its last statement has written.
Written(j) ==
  IF pc[j] = "opening" THEN From(month[j], Forever)
  ELSE IF pc[j] = "shortening" THEN From(row[j], month[j])
  ELSE IF pc[j] = "splitting" THEN From(month[j], upper[row[j]]) ELSE {}

\* The constraint.
Overlaps(j) ==
  \E l \in Rows : /\ Span(l) \cap Written(j) # {}
                  /\ \A k \in Jobs : ~Replaces(k, l)

\* The row lock of SELECT ... FOR UPDATE.  Faulty variant: a plain SELECT.
HoldsNoRow(k, l) == FALSE
HoldsRow(k, l) == pc[k] \in {"held", "shortening", "splitting"} /\ row[k] = l

WaitsFor(j, k) ==
  /\ j # k
  /\ \/ pc[j] = "lock" /\ HoldsRow(k, row[j])
     \/ Written(j) \cap InFlight(k) # {}

-----------------------------------------------------------------------------
(* set_hourly_wage *)

Goto(j, label) == pc' = [pc EXCEPT ![j] = label] /\ UNCHANGED month
Waits(j) == \E k \in Jobs : WaitsFor(j, k)

\* The query for the row that contains the month.
Select(j) ==
  /\ pc[j] = "start"
  /\ \/ \E l \in Rows : /\ month[j] \in Span(l)
                        /\ row' = [row EXCEPT ![j] = l]
                        /\ Goto(j, "lock")
     \/ /\ \A l \in Rows : month[j] \notin Span(l)
        /\ Goto(j, "open") /\ UNCHANGED row
  /\ UNCHANGED table

\* The row is locked and looked at again: it may end before the month now.
LockRow(j) ==
  /\ pc[j] = "lock" /\ ~Waits(j)
  /\ Goto(j, IF month[j] \in Span(row[j]) THEN "held" ELSE "open")
  /\ UNCHANGED <<table, row>>

\* A row that starts with the month is changed, any other one is split.
\* Faulty variant: each is changed.
ContainsMonth(j) == TRUE
StartsWithMonth(j) == row[j] = month[j]

Reprice(j) ==
  /\ pc[j] = "held" /\ StartsWithMonth(j)
  /\ wage' = [wage EXCEPT ![row[j]] = j]
  /\ Goto(j, "set") /\ UNCHANGED <<upper, row>>

Shorten(j) ==
  /\ pc[j] = "held" /\ ~StartsWithMonth(j)
  /\ Goto(j, "shortening") /\ UNCHANGED <<table, row>>

\* The shortened row is in order: the new one is written.
InsertRest(j) ==
  /\ pc[j] = "shortening" /\ ~Waits(j) /\ ~Overlaps(j)
  /\ Goto(j, "splitting") /\ UNCHANGED <<table, row>>

\* Where the rows end when it commits.
Ends(j, end) == [d \in Dates |-> IF d = month[j] THEN end
                                 ELSE IF Replaces(j, d) THEN month[j] ELSE upper[d]]

Commit(j) ==
  /\ pc[j] \in {"splitting", "opening"} /\ ~Waits(j) /\ ~Overlaps(j)
  /\ upper' = Ends(j, IF pc[j] = "splitting" THEN upper[row[j]] ELSE Forever)
  /\ wage' = [wage EXCEPT ![month[j]] = j]
  /\ Goto(j, "set") /\ UNCHANGED row

\* No row contains the month.
InsertOpen(j) ==
  /\ pc[j] = "open"
  /\ Goto(j, "opening") /\ UNCHANGED <<table, row>>

\* IntegrityError.
Refuse(j) ==
  /\ Overlaps(j)
  /\ Goto(j, "server_error") /\ UNCHANGED <<table, row>>

\* PostgreSQL cancels one of the transactions that wait for each other.
Deadlocked(j) ==
  \E cycle \in SUBSET Jobs :
    /\ j \in cycle
    /\ \A k \in cycle : /\ \E l \in cycle : WaitsFor(k, l)
                        /\ \E l \in cycle : WaitsFor(l, k)
BreakDeadlock(j) ==
  /\ Deadlocked(j)
  /\ Goto(j, "server_error") /\ UNCHANGED <<table, row>>

WorkerDies(j) ==
  /\ pc[j] \notin Ended
  /\ Goto(j, "dead") /\ UNCHANGED <<table, row>>

Step(j) ==
  \/ Select(j) \/ LockRow(j) \/ Reprice(j) \/ Shorten(j) \/ InsertRest(j)
  \/ InsertOpen(j) \/ Commit(j) \/ Refuse(j) \/ BreakDeadlock(j)

Next == \E j \in Jobs : Step(j) \/ WorkerDies(j)

Spec == Init /\ [][Next]_vars

-----------------------------------------------------------------------------
(* Properties *)

\* No date has two wages, whichever managers set them at once.
RowsApart == \A l, m \in Rows : l # m => Span(l) \cap Span(m) = {}

\* For the payroll, which looks a wage up by date, each successful request is
\* one step of WageHistory: earlier dates keep their wage, the rest of the
\* period takes the new one, and no other request's change is lost.
RateOn(d) == LET found == {l \in Rows : l <= d /\ d < upper[l]} IN
             IF found = {} THEN NoWage ELSE wage[CHOOSE l \in found : TRUE]
History == INSTANCE WageHistory WITH rate <- [d \in Dates |-> RateOn(d)]
ImplementsHistory == History!Spec

\* A request that gets the row of its month succeeds, however many managers set
\* wages at once: they queue for the row, and neither the constraint nor a
\* deadlock among them ends one with a server error.  Only a request that has
\* got none, for its month has no wage or the row was split while it waited,
\* writes its range before it knows of others: it is refused, or draws another
\* one into a deadlock.
FoundWageIsSet ==
  [][\A j \in Jobs :
       (pc'[j] = "server_error" /\ pc[j] # "server_error") =>
         \/ pc[j] = "opening"
         \/ \E k \in Jobs : WaitsFor(j, k) /\ pc[k] = "opening"]_vars

\* "Set the wage from the selected month" (set_hourly_wage): the wage of a
\* month in which the employee is paid can be set.
MonthOf(m) == {d \in Dates : m <= d /\ \A n \in MonthStarts : m < n => d < n}
PaidMonthCanBeSet ==
  \A j \in Jobs : pc[j] = "server_error" => \A d \in MonthOf(month[j]) : RateOn(d) = NoWage
=============================================================================
