SPECIFICATION FairSpec
CONSTANTS
  Driver = {old, new}
  AtFirst = {old, "nothing"}
  Retries = 2
  Generations = 1
  MaxInstalls = 2
  MaxBoots = 3
  MaxFaults = 1
INVARIANTS TypeOK HalfRestoredIsMarked
PROPERTIES VerdictStands MarkerGoesWhenSettled Settles
