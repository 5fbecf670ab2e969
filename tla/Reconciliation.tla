---------------------------- MODULE Reconciliation ----------------------------
(***************************************************************************)
(* The premiums of one employee and month, estimated by the system and     *)
(* reconciled by managers with what the institutions bill                  *)
(* (apps/payroll/services/deductions/reconciliation.py and                 *)
(* models/deductions.py).                                                  *)
(*                                                                         *)
(* set_estimate and set_not_applicable are update_or_create: Django holds  *)
(* the row's lock from its read to the update of exactly the fields named, *)
(* so each is one step.  reconcile reads the row without a lock and later  *)
(* saves all of its columns: two steps.                                    *)
(***************************************************************************)
EXTENDS Earnings

CONSTANTS
  Managers,    \* of whom each has one request under way
  Pending,     \* insurances whose row changes in the runs
  Rates,       \* the rate file
  Bases,       \* monthly bases estimates are made from
  Finals,      \* amounts the institutions bill
  None         \* SQL NULL

ASSUME ReconciliationAssumption ==
  /\ Pending \subseteq EmployeeInsurances
  /\ \A i \in EmployeeInsurances : Rates[i].rate \in [coef : Nat, digits : Nat]
  /\ Finals \subseteq Int
  /\ None \notin {"ESTIMATED", "RECONCILED", "NOT_APPLICABLE"}

VARIABLES
  premiums,    \* InsuranceReconciliation: at most one row per insurance
  requests,    \* [Managers -> what reconcile has read, or Idle]
  handled      \* requests made so far

reconciliationVars == <<premiums, requests, handled>>

Idle == [insurance |-> None]
Missing == [status |-> None]
FinalStatuses == {"RECONCILED", "NOT_APPLICABLE"}

\* The columns of a row that its status is about.
Row(status, base, estimated, final, variance) ==
  [status |-> status, base |-> base, estimated |-> estimated,
   final |-> final, variance |-> variance]
NewRow == Row("NOT_APPLICABLE", 0, 0, 0, None)   \* with the columns' defaults

ReconciliationInit ==
  /\ premiums = [i \in EmployeeInsurances |-> IF i \in Pending THEN Missing ELSE NewRow]
  /\ requests = [m \in Managers |-> Idle]
  /\ handled = 0

SetEstimate(i, base) ==
  /\ premiums' = [premiums EXCEPT ![i] =
       Row("ESTIMATED", base, EstimatePremium(i, base, Rates), None, None)]
  /\ handled' = handled + 1
  /\ UNCHANGED requests

\* The update leaves the estimate and its base as they are.
SetNotApplicable(i) ==
  /\ premiums' = [premiums EXCEPT ![i] =
       IF @ = Missing THEN NewRow
       ELSE Row("NOT_APPLICABLE", @.base, @.estimated, 0, None)]
  /\ handled' = handled + 1
  /\ UNCHANGED requests

\* reconcile: the read, DoesNotExist without a row ...
Read(m, i, final) ==
  /\ requests[m] = Idle
  /\ premiums[i] # Missing
  /\ requests' = [requests EXCEPT ![m] = [insurance |-> i, row |-> premiums[i], final |-> final]]
  /\ handled' = handled + 1
  /\ UNCHANGED premiums

\* ... and the save.  Faulty variant: only the columns that were assigned.
SaveAssigned(m) ==
  LET r == requests[m] IN
  /\ r # Idle
  /\ premiums' = [premiums EXCEPT ![r.insurance] =
       Row("RECONCILED", @.base, @.estimated, r.final, r.final - r.row.estimated)]
  /\ requests' = [requests EXCEPT ![m] = Idle]
  /\ UNCHANGED handled
Save(m) ==
  LET r == requests[m] IN
  /\ r # Idle
  /\ premiums' = [premiums EXCEPT ![r.insurance] =
       Row("RECONCILED", r.row.base, r.row.estimated, r.final, r.final - r.row.estimated)]
  /\ requests' = [requests EXCEPT ![m] = Idle]
  /\ UNCHANGED handled

ReconciliationNext ==
  \/ \E i \in Pending, base \in Bases : SetEstimate(i, base)
  \/ \E i \in Pending : SetNotApplicable(i)
  \/ \E m \in Managers, i \in Pending, final \in Finals : Read(m, i, final)
  \/ \E m \in Managers : Save(m)

AllInsurancesFinal == \A i \in EmployeeInsurances : premiums[i].status \in FinalStatuses
\* What a caller of the services deducts for premiums that are all final.
FinalAmounts ==
  premiums["NATIONAL_PENSION"].final + premiums["HEALTH"].final +
  premiums["LONG_TERM_CARE"].final + premiums["EMPLOYMENT"].final

-----------------------------------------------------------------------------
(* Properties *)

\* However estimates, decisions and reconciliations of one premium cross, what
\* is stored fits together: the estimate is that of the stored base, the
\* variance is the billed amount less the stored estimate, and a row that
\* counts as final has an amount.
RowConsistent ==
  \A i \in Pending :
    LET row == premiums[i] IN
    row # Missing =>
      /\ row.estimated = EstimatePremium(i, row.base, Rates)
      /\ row.status = "RECONCILED" => row.final \in Finals /\ row.variance = row.final - row.estimated
      /\ row.status = "NOT_APPLICABLE" => row.final = 0 /\ row.variance = None
      /\ row.status = "ESTIMATED" => row.final = None /\ row.variance = None
=============================================================================
