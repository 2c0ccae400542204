SPECIFICATION FairSpec
CONSTANTS
  a1 = a1 v1 = v1 v2 = v2 p1 = p1 x1 = x1 x2 = x2 w1 = w1 w2 = w2 Null = Null
  Agent = {a1}
  Version = {v1, v2}
  Path = {p1}
  Worker = {w1, w2}
  Strategy = {x1, x2}
  Malformed = {2}
  Sinks <- MCSinks
  Flows <- MCFlows
  InitialVersion <- MCInitialVersion
  MaxPools = 2
  MaxMoves = 1
  MaxCrashes = 1
INVARIANTS IntakeSafe
PROPERTIES CoverageKept RouteCovered SentScanned
CHECK_DEADLOCK FALSE
