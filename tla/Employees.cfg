SPECIFICATION Spec
CONSTANTS
  None = None
  Codes = {kim, lee}
  Slots = {r1, r2}
  MaxAttempts = 2
  Lockout = 1
  DayLength = 2
  Retain = 1
  MaxTime = 3
  MaxRequests = 3
SYMMETRY Symmetry
INVARIANTS LastPinIsStored LockedPinWaitsIfPatient PurgeRecorded
PROPERTIES DestroyedOnlyIfDue
CHECK_DEADLOCK FALSE
