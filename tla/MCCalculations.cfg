SPECIFICATION Spec
CONSTANTS
  IntBits = 5
  AttemptBound = 9
  MaxTime = 1
  FirstYear = 2023
  Months = 26
INVARIANTS CapIsIdeal ExactlyOnePeriod
PROPERTY PeriodsFollowTheClock
CHECK_DEADLOCK FALSE
