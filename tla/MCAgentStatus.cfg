SPECIFICATION FairSpec
CONSTANTS
  Agent = {a1}
  User = {u1, u2}
  MaxEdits = 2
INVARIANTS
  DeletedStaysDeleted
PROPERTIES
  ListsFollowAgents
  RunningIsHeard
CHECK_DEADLOCK FALSE
