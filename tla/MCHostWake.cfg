SPECIFICATION FairSpec
CONSTANTS
  Status = {s1, s2}
  Led = {l1, l2}
  NoFrame = NoFrame
  QueueSize = 2
  Guard = 1
  AckTimeout = 2
  Attempts = 2
INVARIANTS
  TypeOK
  AckAttribution
  OutstandingIsHead
PROPERTIES
  SentToAwakeHost
  NothingStarves
  ImplementsLatestSlot
