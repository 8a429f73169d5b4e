SPECIFICATION Spec
CONSTANTS
  Modulus = 12
  Tolerance = 2
  Stale = 1
  Word = 17
  Holdoff = 3
  MinSleep = 2
  MaxSleep = 6
  Margin = 1
  Pass = 2
  MaxTime = 27
INVARIANTS
  ClockIsNewest
  WakesInTime
  HoldoffMeasured
CHECK_DEADLOCK FALSE
