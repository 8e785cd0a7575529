SPECIFICATION ReplaySpec
CONSTANTS
  r1 = r1
  r2 = r2
  a = a
  b = b
  NoIdentity = NoIdentity
  Other = Other
  Identity <- Both
  Replica <- Solo
  Observable <- Both
  Starts <- Kept
  MaxTransitions = 2
  MaxSequence = 4
  MaxFaults = 2
  MaxCrashes = 1
PROPERTIES
  SequenceNeverRegresses
  RestoresTheLatest
  NoWriteOverReplay
