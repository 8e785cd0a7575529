SPECIFICATION Spec
CONSTANTS
  r1 = r1
  r2 = r2
  Nobody = Nobody
  Replica <- Pair
  Duration = 4
  Tolerance = 2
  FreshWindow = 1
  Latency = 1
  Skew = 1
  Horizon = 6
SYMMETRY PairSymmetry
INVARIANTS
  AtMostOneLeads
  LeadsByTheLease
  Inv
PROPERTIES
  TakenWhenExpired
