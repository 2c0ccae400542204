\* Liveness: two vulnerabilities that all have payloads.
SPECIFICATION FairSpec
CONSTANTS
  v1 = v1
  v2 = v2
  NoVul = NoVul
  Vul = {v1, v2}
  Detector = {d1}
  Agent = {a1}
  Uploader = {h1}
  Replayer = {w1}
  PayloadCount <- BothPayload
  NoUri = {v2}
  Unparsable = {v1}
  UserStatus = {}
  Answer = {{}}
  Validation = {TRUE}
  RecheckBatch = 2
  MaxRows = 2
  MaxCount = 2
  MaxInflight = 1
  MaxCrashes = 1
PROPERTIES PendingProcessed OfferSettled
CHECK_DEADLOCK FALSE
