SPECIFICATION FairSpec
CONSTANTS
  Thread = {t1}
  Window = 1
  MaxClock = 3
  MaxFaults = 1
  MaxProbes = 2
PROPERTIES ReadyWasTrue ReadyWasLeading Recovers
CHECK_DEADLOCK FALSE
