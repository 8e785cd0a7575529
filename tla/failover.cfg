SPECIFICATION Spec
CONSTANTS
  r1 = r1
  r2 = r2
  a = a
  b = b
  NoIdentity = NoIdentity
  Other = Other
  Identity <- Both
  Replica <- Pair
  Observable <- Both
  Starts <- LeaseKind
  MaxTransitions = 2
  MaxSequence = 3
  MaxFaults = 1
  MaxCrashes = 1
SYMMETRY FullSymmetry
INVARIANTS
  SequenceIsDense
  EpochHasOneWriter
  MemoryIsCommitted
  ReadyIsPersisted
  Inv
PROPERTIES
  ImplementsLog
  PromotedFromCheckpoint
