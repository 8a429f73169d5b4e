SPECIFICATION Spec
CONSTANTS
  Wrap = 62
  Tolerance = 3
  Lag = 0
  WrapLag = FALSE
  Interval = 7
  Channels = 3
  Desync = 8
  Backdate = 4
  Lead = 3
  SeedError = 1
  DriftGap = 2
  Patience = 2
  MaxEarly = 2
  MaxLate = 3
INVARIANTS
  StaysInStep
  MeetsInOneSweep
PROPERTY ReseedOnlyWhenGone
