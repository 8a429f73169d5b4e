SPECIFICATION Spec
CONSTANTS
  Holdoff = 1
  Sent <- Frame
INVARIANTS
  RequestFindsLinkDown
PROPERTIES
  LastCommandWins
  SilenceBeforeSleep
