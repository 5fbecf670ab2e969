SPECIFICATION Spec
CONSTANTS
  j1 = j1
  j2 = j2
  ann = ann
  bob = bob
  k1 = k1
  d0 = d0
  d1 = d1
  d2 = d2
  Kiosk = Kiosk
  Open = Open
  NoTap = NoTap
  MaxTime = 1
  Jobs <- Two
  Employees <- Staff
  Keys <- AllKeys
  Requests <- Sent
  Earlier <- Recorded
INVARIANTS DoneIsRecorded ServerErrorIsEarned
PROPERTIES RecordedApart
CHECK_DEADLOCK FALSE
