SPECIFICATION Spec
CONSTANTS
  a = a
  b = b
  Fleets <- Pair
  Versions <- MCVersions
  CacheLimit = 1
  MaxEdits = 1
  MaxFaults = 1
SYMMETRY PairSymmetry
INVARIANTS TypeOK TrustedMissesNothing
PROPERTIES StatusTrue ProtectedUntilSafe
