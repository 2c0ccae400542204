SPECIFICATION Spec
CONSTANTS
  None = None
  w1 = w1 w2 = w2 v1 = v1 v2 = v2 d1 = d1 m1 = m1 m2 = m2
  p1 = p1 p2 = p2 u1 = u1 u2 = u2 a1 = a1 a2 = a2 h1 = h1 h2 = h2
  q1 = q1 q2 = q2 Hole = Hole Whole = Whole NoName = NoName k1 = k1
  la = la lb = lb lc = lc
  Handler = {w1, w2}
  Weakness = {k1}
  MaxReports = 4
  LoggedVul = {v1}
  Writer = {w1, w2}
  UserStatus = {"CONFIRMED", "SOLVED"}
  ListedVul = {1, 2}
  Project = {p1, p2}
  Reader = {u1, u2}
  ListStatus = {"pending", "ignored"}
  Sees <- MCSees
  ProjectOf <- MCProjectOf
  PageSize = 1
  MaxQueued = 2
  BoundVul = {v1, v2}
  Dast = {d1}
  Mark = {m1, m2}
  Pushes <- MCPushes
  Settings <- MCSettings
  PoolReader = {u1}
  Agent = {a1, a2}
  AgentsOf <- MCAgentsOf
  PoolPage = 1
  Block = 2
  MaxPools = 3
  MaxTime = 2
  Word = {la, lb, lc, Hole}
  Templates <- MCTemplates
  Value = {q1, q2, k1}
  Special = {q1}
  Hash <- Objects
  Calls <- MCCalls
  MaxCalls = 4
  ReplayedVul = {v1}
  Detector = {w1, w2}
  Uploader = {h1}
  Replayer = {}
  PayloadCount <- MCPayloads
  NoUri = {}
  Unparsable = {}
  ReplayStatus = {}
  Answer = {{}}
  Validation = {TRUE}
  RecheckBatch = 2
  MaxRows = 4
  MaxCount = 1
  MaxInflight = 1
  MaxCrashes = 1
INVARIANTS StacksReported KeysStable LogTells ViewsAgree RelationsAgree QueueBounded
PROPERTIES FindingKept PagesComplete
CHECK_DEADLOCK FALSE
