SPECIFICATION Spec
CONSTANTS
  j1 = j1
  j2 = j2
  j3 = j3
  j4 = j4
  NotApproved = NotApproved
  Jobs <- FourJobs
SYMMETRY JobSymmetry
INVARIANTS ApprovedIsPayable SupersedesCommitted
PROPERTY ImplementsReview
CHECK_DEADLOCK FALSE
