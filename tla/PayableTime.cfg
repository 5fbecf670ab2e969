SPECIFICATION TimeSpec
CONSTANTS
  Day = 8
  Offset = 3
  MonthLength = 8
  Times <- AroundMidnights
  MaxEvents = 6
INVARIANTS PaidTimeIsWork BlockedUnlessWellFormed PaidOnce WorkedMonthIsChecked LocalTimesPaidInTheirMonth
CHECK_DEADLOCK FALSE
