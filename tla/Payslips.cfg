SPECIFICATION PayslipsSpec
CONSTANTS
  NoValue = NoValue
  None = NoValue
  Precision = 6
  Managers = {m1, m2}
  Pending = {"HEALTH", "LONG_TERM_CARE"}
  Rates <- RateFile
  Bases = {1000, 2500}
  Finals = {2, 40}
  FirstRow = 8
  LastItemRow = 10
  Stores <- AllStores
  Length = 9
  PerHour = 6
  Clock = {9, 10, 13}
  Amounts = {10, 17}
  NoEnd = 99
  MaxChanges = 1
  MaxRequests = 4
  MaxVersions = 2
INVARIANTS PayWithinOneWon WorkIsPaid ArchiveAddsUp AllowanceWeeksElapsed RowConsistent
CHECK_DEADLOCK FALSE
