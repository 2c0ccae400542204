SPECIFICATION FairSpec
INVARIANTS TypeOK StoreBacked TaintOnce EvidenceStored
PROPERTY NothingLost
CHECK_DEADLOCK FALSE
CONSTANTS
  Vul = {v1, v2}
  Identity = {i1, i2}
  Ident <- Different
  Taint = {v1}
  Sighting = {s1, s3}
  Replayed = {s3}
  Lock = {l1}
  VulOf <- Replay
  LockOf <- OneLock
  Worker = {w1, w2}
  User = {u1}
  UserStatus = {"IGNORE"}
  HardDelete = FALSE
  SlowWorker = FALSE
  NoVul = NoVul
  NoSighting = NoSighting
  MaxRows = 2
  MaxCount = 1
  MaxQueued = 2
  MaxCrashes = 0
  v1 = v1
  v2 = v2
  v3 = v3
  i1 = i1
  i2 = i2
  s1 = s1
  s2 = s2
  s3 = s3
  l1 = l1
  l2 = l2
  l3 = l3
  w1 = w1
  w2 = w2
  w3 = w3
  u1 = u1
