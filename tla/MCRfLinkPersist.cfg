SPECIFICATION Spec
CONSTANTS
  Dongles = {d1}
  NoBond = NoBond
INVARIANT
  BondPersisted
