\* Finding: verification reopens a vulnerability the user closed.
SPECIFICATION Spec
CONSTANTS
  v1 = v1
  v2 = v2
  NoVul = NoVul
  Vul = {v1}
  Detector = {d1}
  Agent = {a1}
  Uploader = {h1}
  Replayer = {w1}
  PayloadCount <- OnePayload
  NoUri = {}
  Unparsable = {}
  UserStatus = {"SOLVED", "FIXED"}
  Answer <- AnyAnswer
  Validation = {TRUE}
  RecheckBatch = 2
  MaxRows = 2
  MaxCount = 2
  MaxInflight = 1
  MaxCrashes = 0
PROPERTIES ClosedStatusKept
CHECK_DEADLOCK FALSE
