SPECIFICATION Spec
CONSTANTS
  ann = ann
  bob = bob
  j1 = j1
  j2 = j2
  j3 = j3
  Employees <- Staff
  Jobs <- ThreeJobs
SYMMETRY Symmetry
INVARIANTS AnsweredTokenConsumed OneActionIfPatient OwnPunchIfPatient
CHECK_DEADLOCK FALSE
