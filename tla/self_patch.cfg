SPECIFICATION FairSpec
CONSTANTS
  a = a
  b = b
  Fleets <- Pair
  Versions <- MCVersions
  CacheLimit = 1
  MaxEdits = 0
  MaxFaults = 0
PROPERTIES Quiesces
