SPECIFICATION FairSpec
CONSTANTS
  Dongles = {d1, d2}
  NoBond = NoBond
INVARIANTS
  NeverStranded
  CatchIsBonded
  McuView
  FlashNotStale
  SleepsWithRadioOff
PROPERTIES
  StaysDown
  SearchListens
  ProbeEnds
