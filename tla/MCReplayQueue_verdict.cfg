\* Two payload rows of one vulnerability that users reopen and delete, one without payload, every kind of answer.
SPECIFICATION Spec
CONSTANTS
  v1 = v1
  v2 = v2
  NoVul = NoVul
  Vul = {v1, v2}
  Detector = {d1}
  Agent = {a1}
  Uploader = {h1}
  Replayer = {w1}
  PayloadCount <- TwoAndNone
  NoUri = {}
  Unparsable = {}
  UserStatus = {"IGNORE"}
  Answer = {{}, {"other"}, {"own"}}
  Validation = {TRUE, FALSE}
  RecheckBatch = 2
  MaxRows = 2
  MaxCount = 1
  MaxInflight = 1
  MaxCrashes = 1
INVARIANTS TypeOK WorkBacked VerdictJustified ConfirmationJustified
CHECK_DEADLOCK FALSE
