SPECIFICATION MCSpec
CONSTANTS
  None = None
  root = root admin = admin member = member other = other
  t1 = t1 t2 = t2 d1 = d1 d2 = d2 p1 = p1 p2 = p2 pv1 = pv1 pv2 = pv2
  x = x y = y u1 = u1 u2 = u2 k1 = k1 k2 = k2 s1 = s1
  Process = {w1, w2}
  Tenant = {t1, t2}
  Dept = {d1, d2}
  Account = {root, admin, member, other}
  InitialTenants = {t1, t2}
  InitialDept <- OneDept
  InitialUser <- Staff
  MaxRequests = 3
  Project = {p1, p2}
  Version = {pv1, pv2}
  Name = {n1}
  VersionName = {x}
  Today = today
  Token = {k}
  Owner = {u1, u2}
  Admin = u1
  AuthUsers <- MCAuthUsers
  Pattern = {x, y}
  StrategyOf <- MCStrategyOf
  RuleReleases <- MCRuleReleases
  MaxRules = 3
  MaxEdits = 1
  Key = {k1, k2, s1}
  Sink = {s1}
  HookReleases <- MCHookReleases
  TypeOf <- MCTypeOf
  Editor = {u1}
  MaxHooks = 3
  MaxEvents = 3
  Type = {t1, t2}
  Strategy = {t1}
  TypeReleases <- MCTypeReleases
  MaxRows = 4
  MaxLoads = 3
  Config = {k1, s1}
  Group = {1, 2}
  AgentName = {x}
  Configs <- MCConfigs
  MaxConfigEdits = 1
  Value = {None, x}
  NoKey = k
  CacheTime = {1}
  Slow = 1
  MaxTime = 4
  Cleaner = {w1, w2}
  Days = {1, 2}
  Batch = 2
  MaxPools = 4
  MaxAge = 3
  MaxRuns = 2
SYMMETRY Ids
INVARIANTS OneEditAtomic AnswersAreRecent ParametersListed
PROPERTIES TenantsApart RulesKept LoadsKeepRules BindingStable CleanUpExact
CHECK_DEADLOCK FALSE
