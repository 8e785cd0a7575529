SPECIFICATION FairSpec
CONSTANTS
  r1 = r1
  r2 = r2
  a = a
  b = b
  NoIdentity = NoIdentity
  Other = Other
  Identity <- Both
  Replica <- Solo
  Observable <- OnlyB
  Starts <- Absent
  MaxTransitions = 2
  MaxSequence = 3
  MaxFaults = 0
  MaxCrashes = 0
PROPERTIES
  FirstBaselinePersisted
