SPECIFICATION FairSpec
CONSTANTS
  Conn = {c1, c2}
  Requests <- MCProbes
  Slots = 1
  MaxHeaderBytes = 4
  MaxHeaderFields = 2
INVARIANTS TypeOK SlotsAccounted AskedForWholeRequests
PROPERTIES ServesAsPool EveryConnectionEnds
CHECK_DEADLOCK FALSE
