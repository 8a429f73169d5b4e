SPECIFICATION Spec
CONSTANTS
  Bytes <- MCBytes
  Frames <- MCFrames
  Expected <- MCExpected
  MaxFrame = 5
  RingSize = 2
  FifoSize = 2
  MaxBytes = 8
  MaxFaults = 1
INVARIANTS
  NoFramePassedOver
PROPERTIES
  ImplementsFrameChannel
  Drains
