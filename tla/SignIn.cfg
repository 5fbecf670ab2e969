SPECIFICATION Spec
CONSTANTS
  None = None
  Slots = {r1, r2}
  RecoveryCodes = {c1}
  MaxAttempts = 2
  Lockout = 1
  Idle = 1
  Absolute = 2
  MaxTime = 3
  MaxRequests = 5
  MaxSecrets = 3
SYMMETRY Symmetry
INVARIANTS LoggedOutStaysOut SessionLifetime LockedOutWaitsIfPatient
PROPERTIES EnrolmentLastsIfPatient
CHECK_DEADLOCK FALSE
