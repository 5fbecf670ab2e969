SPECIFICATION Spec
CONSTANTS
  j1 = j1
  j2 = j2
  j3 = j3
  Hired = Hired
  NoWage = NoWage
  LastDate = 5
  MonthStarts <- EvenDates
  Jobs <- ThreeJobs
PROPERTIES ImplementsHistory FoundWageIsSet
CHECK_DEADLOCK FALSE
