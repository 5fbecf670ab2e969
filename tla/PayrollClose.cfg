SPECIFICATION Spec
CONSTANTS
  s1 = s1
  j1 = j1
  j2 = j2
  j3 = j3
  j4 = j4
  NotPaid = NotPaid
  Jobs <- FourJobs
  Shifts <- OneShift
  MaxVersion = 1
SYMMETRY JobSymmetry
INVARIANTS OneCloseEntryPerVersion UnapprovedPayIsSuperseded
PROPERTY ImplementsLedger
CHECK_DEADLOCK FALSE
