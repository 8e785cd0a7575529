SPECIFICATION FairSpec
CONSTANTS
  r1 = r1
  r2 = r2
  a = a
  b = b
  NoIdentity = NoIdentity
  Other = Other
  Identity <- Both
  Replica <- Pair
  Observable <- OnlyB
  Starts <- Kept
  MaxTransitions = 2
  MaxSequence = 6
  MaxFaults = 2
  MaxCrashes = 0
INVARIANTS
  TypeOK
PROPERTIES
  FirstBaselinePersisted
  ServesAgain
