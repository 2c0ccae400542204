\* Finding: a strategy without payload stops vul_recheck for the rows behind it.
SPECIFICATION FairSpec
CONSTANTS
  v1 = v1
  v2 = v2
  NoVul = NoVul
  Vul = {v1, v2}
  Detector = {d1}
  Agent = {a1}
  Uploader = {h1}
  Replayer = {w1}
  PayloadCount <- NoPayload
  NoUri = {}
  Unparsable = {}
  UserStatus = {}
  Answer <- OwnOrNothing
  Validation = {TRUE}
  RecheckBatch = 2
  MaxRows = 2
  MaxCount = 1
  MaxInflight = 1
  MaxCrashes = 0
PROPERTIES PendingProcessed
CHECK_DEADLOCK FALSE
