SPECIFICATION Spec
CONSTANTS
  Slow = 5
  Fast = 2
  Pass = 2
  Watchdog = 14
  MaxBytes = 2
INVARIANTS
  NotSleptPast
  WatchdogFed
  ProbesOnTime
PROPERTIES
  LoopGoesOn
