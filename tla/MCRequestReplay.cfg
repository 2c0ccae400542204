SPECIFICATION FairSpec
CONSTANTS
  User = {u1, u2}
  Pool = {p1, p2}
  Agent = {a1, a2}
  a1 = a1
  MaxRequests = 2
  InitialRunning <- FirstAlive
  PoolAgent <- OneRecorder
  MaxRows = 2
INVARIANTS
  AnswerIsFresh
PROPERTIES
  ServiceSpec
  PollEnds
CHECK_DEADLOCK FALSE
