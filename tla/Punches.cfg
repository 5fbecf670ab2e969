SPECIFICATION OneNamingSpec
CONSTANTS
  e1 = e1
  k1 = k1
  k2 = k2
  k3 = k3
  r1 = r1
  r2 = r2
  None = None
  Employees <- OneEmployee
  Keys <- ThreeKeys
  Requests <- TwoRequests
  MaxClock = 1
INVARIANTS ShiftBracketed OrderedShiftIsLegal RefusedAsDue
PROPERTIES ImplementsBook EveryRequestEnds
