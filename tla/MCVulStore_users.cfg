SPECIFICATION Spec
INVARIANT IgnoreHonoured
PROPERTY StatusOnlyByUsers
CHECK_DEADLOCK FALSE
CONSTANTS
  Vul = {v1, v2, v3}
  Identity = {i1, i2}
  Ident <- Three
  Taint = {v1, v2}
  Sighting = {s1, s2, s3}
  Replayed = {s2}
  Lock = {l1, l2, l3}
  VulOf <- OneEachOf3
  LockOf <- OwnLocksOf3
  Worker = {w1}
  User = {u1}
  UserStatus = {"IGNORE"}
  HardDelete = TRUE
  SlowWorker = TRUE
  NoVul = NoVul
  NoSighting = NoSighting
  MaxRows = 2
  MaxCount = 1
  MaxQueued = 1
  MaxCrashes = 1
  v1 = v1
  v2 = v2
  v3 = v3
  i1 = i1
  i2 = i2
  s1 = s1
  s2 = s2
  s3 = s3
  l1 = l1
  l2 = l2
  l3 = l3
  w1 = w1
  w2 = w2
  w3 = w3
  u1 = u1
