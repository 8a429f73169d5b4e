SPECIFICATION RelaySpec
CONSTANTS
  Led = {l0, l1, l2}
  NoFrame = NoFrame
INVARIANT RelayForwarded
