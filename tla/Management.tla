------------------------------- MODULE Management -------------------------------
(***************************************************************************)
(* The components that users, releases and clean-ups work on: tenants and   *)
(* projects, sensitive rules, hook rules and strategies of releases, the    *)
(* configuration of agents, cached functions and the retention of pools.    *)
(* They share no state here: a behaviour is one of one of them, and the     *)
(* variables of the others rest.                                            *)
(***************************************************************************)
EXTENDS Integers, Sequences, FiniteSets

CONSTANTS
  None, Process,
  Tenant, Dept, Account, InitialTenants, InitialDept, InitialUser, MaxRequests, \* Projects
  Project, Version, Name, VersionName, Today, Token,
  Owner, Admin, AuthUsers, Pattern, StrategyOf, RuleReleases, MaxRules, MaxEdits, \* SensitiveRules
  Key, Sink, TypeOf, HookReleases, Editor, MaxHooks, MaxEvents, \* HookRelease
  Type, Strategy, TypeReleases, MaxRows, MaxLoads,     \* StrategyRelease
  Config, Group, AgentName, Configs, MaxConfigEdits,   \* AgentConfig
  Value, NoKey, CacheTime, Slow, MaxTime,              \* ResultCache
  Cleaner, Days, Batch, MaxPools, MaxAge, MaxRuns      \* Retention

VARIABLES
  part, \* the component at work
  tenants, dept, user, login, requests, project, version, agents, setting, \* Projects
  deployed, sha1sum, rules, strategies, payload, update, load, edits,      \* SensitiveRules
  hookRelease, loaded, hooks, owners, editing, loader, events,             \* HookRelease
  typeRelease, rows, binder, bound, loads,                                 \* StrategyRelease
  configs, enabled, request, data, before, configEdits,                    \* AgentConfig
  now, table, past, entry, call, flushes, answer,                          \* ResultCache
  elastic, age, uploaded, schedule, cleaner, cleanups                      \* Retention

projectVars == <<tenants, dept, user, login, requests, project, version, agents, setting>>
ruleVars == <<deployed, sha1sum, rules, strategies, payload, update, load, edits>>
hookVars == <<hookRelease, loaded, hooks, owners, editing, loader, events>>
typeVars == <<typeRelease, rows, binder, bound, loads>>
configVars == <<configs, enabled, request, data, before, configEdits>>
cacheVars == <<now, table, past, entry, call, flushes, answer>>
poolVars == <<elastic, age, uploaded, schedule, cleaner, cleanups>>
vars == <<part, projectVars, ruleVars, hookVars, typeVars, configVars, cacheVars, poolVars>>

projects == INSTANCE Projects WITH User <- Account, Null <- None

sensitive == INSTANCE SensitiveRules WITH
  User <- Owner, Releases <- RuleReleases, version <- deployed, Strategy <- Type

hookload == INSTANCE HookRelease WITH Releases <- HookReleases, release <- hookRelease

typeload == INSTANCE StrategyRelease WITH
  Releases <- TypeReleases, release <- typeRelease, loader <- binder

breaking == INSTANCE AgentConfig WITH
  Name <- AgentName, Rows <- Configs, MaxEdits <- MaxConfigEdits, Null <- None, edits <- configEdits

cache == INSTANCE ResultCache

retention == INSTANCE Retention

\* An installation starts with tenants that share nothing; only a super
\* administrator has no tenant.
StartsApart ==
  /\ InitialTenants \subseteq Tenant
  /\ InitialDept \in [Dept -> projects!DeptRow] /\ InitialUser \in [Account -> projects!UserRow]
  /\ \A d \in Dept : InitialDept[d].parent # None =>
       /\ InitialDept[d].tenant # None
       /\ InitialDept[InitialDept[d].parent].tenant = InitialDept[d].tenant
  /\ \A u \in Account :
       /\ InitialUser[u].role = "none" => InitialUser[u] = projects!NoUser
       /\ InitialUser[u].tenant = None => InitialUser[u].role \in {"none", "super"}
       /\ \A d \in InitialUser[u].depts : InitialDept[d].tenant # None /\ InitialDept[d].tenant = InitialUser[u].tenant

\* The rows of rules, and what a user's update of one holds.
RuleRow == [user: Owner, pattern: Pattern, status: {"on", "off", "deleted"}, system: BOOLEAN]
RuleUpdate == [id: Nat, row: RuleRow]
HookRow == [key: Key, by: {"user", "release"}, system: BOOLEAN, modified: BOOLEAN, edited: BOOLEAN,
            status: hookload!Status]
HookEdit == [id: Nat \cup {None}, read: HookRow \cup {None}, row: HookRow]

(* None is no id and no row, there is a release, patterns are no steps of a load,
   groups are numbered, results stay in the cache for bounded times, days are
   integers of either sign, and batches are not empty.                         *)
ASSUME ManagementAssumption ==
  /\ None \notin Tenant \cup Dept \cup Project \cup Version \cup Name
  /\ MaxRequests \in Nat
  /\ StartsApart
  /\ Admin \in Owner /\ None \notin RuleRow \cup RuleUpdate
  /\ Pattern \cap {"idle", "down", "hooks", "rules"} = {}
  /\ RuleReleases \in Seq(SUBSET Pattern) /\ RuleReleases # <<>>
  /\ None \notin HookRow \cup HookEdit /\ None \notin Nat
  /\ HookReleases \in Seq(SUBSET Key) /\ HookReleases # <<>>
  /\ TypeReleases \in Seq(SUBSET Type) /\ TypeReleases # <<>>
  /\ \E n \in Group : Group = 1..n
  /\ None \notin Configs
  /\ \A r \in Configs : r \in [group: Nat, on: BOOLEAN, priority: Nat, interval: Nat,
                               metrics: {r.metrics}, targets: {r.targets}]
  /\ NoKey \notin Value
  /\ Slow \in Nat /\ MaxTime \in Nat
  /\ CacheTime \subseteq Nat /\ \E n \in CacheTime : \A m \in CacheTime : m <= n
  /\ Days \subseteq Int /\ None \notin Nat \cup Days
  /\ Batch \in Nat \ {0} /\ MaxPools \in Nat /\ MaxAge \in Nat

--------------------------------------------------------------------------------
NoProjects == /\ tenants = None /\ dept = None /\ user = None /\ login = None /\ requests = None
              /\ project = None /\ version = None /\ agents = None /\ setting = None
NoRules == /\ deployed = None /\ sha1sum = None /\ rules = None /\ strategies = None /\ payload = None
           /\ update = None /\ load = None /\ edits = None
NoHooks == /\ hookRelease = None /\ loaded = None /\ hooks = None /\ owners = None
           /\ editing = None /\ loader = None /\ events = None
NoTypes == typeRelease = None /\ rows = None /\ binder = None /\ bound = None /\ loads = None
NoConfigs == /\ configs = None /\ enabled = None /\ request = None /\ data = None
             /\ before = None /\ configEdits = None
NoCache == /\ now = None /\ table = None /\ past = None /\ entry = None /\ call = None
           /\ flushes = None /\ answer = None
NoPools == /\ elastic = None /\ age = None /\ uploaded = None /\ schedule = None
           /\ cleaner = None /\ cleanups = None

Init ==
  \/ part = "projects" /\ projects!Init /\ NoRules /\ NoHooks /\ NoTypes /\ NoConfigs /\ NoCache /\ NoPools
  \/ part = "rules" /\ sensitive!Init /\ NoProjects /\ NoHooks /\ NoTypes /\ NoConfigs /\ NoCache /\ NoPools
  \/ part = "hooks" /\ hookload!Init /\ NoProjects /\ NoRules /\ NoTypes /\ NoConfigs /\ NoCache /\ NoPools
  \/ part = "types" /\ typeload!Init /\ NoProjects /\ NoRules /\ NoHooks /\ NoConfigs /\ NoCache /\ NoPools
  \/ part = "configs" /\ breaking!Init /\ NoProjects /\ NoRules /\ NoHooks /\ NoTypes /\ NoCache /\ NoPools
  \/ part = "cache" /\ cache!Init /\ NoProjects /\ NoRules /\ NoHooks /\ NoTypes /\ NoConfigs /\ NoPools
  \/ part = "pools" /\ retention!Init /\ NoProjects /\ NoRules /\ NoHooks /\ NoTypes /\ NoConfigs /\ NoCache

Next ==
  \/ /\ part = "projects" /\ projects!Next
     /\ UNCHANGED <<part, ruleVars, hookVars, typeVars, configVars, cacheVars, poolVars>>
  \/ /\ part = "rules" /\ sensitive!Next
     /\ UNCHANGED <<part, projectVars, hookVars, typeVars, configVars, cacheVars, poolVars>>
  \/ /\ part = "hooks" /\ hookload!Next
     /\ UNCHANGED <<part, projectVars, ruleVars, typeVars, configVars, cacheVars, poolVars>>
  \/ /\ part = "types" /\ typeload!Next
     /\ UNCHANGED <<part, projectVars, ruleVars, hookVars, configVars, cacheVars, poolVars>>
  \/ /\ part = "configs" /\ breaking!Next
     /\ UNCHANGED <<part, projectVars, ruleVars, hookVars, typeVars, cacheVars, poolVars>>
  \/ /\ part = "cache" /\ cache!Next
     /\ UNCHANGED <<part, projectVars, ruleVars, hookVars, typeVars, configVars, poolVars>>
  \/ /\ part = "pools" /\ retention!Next
     /\ UNCHANGED <<part, projectVars, ruleVars, hookVars, typeVars, configVars, cacheVars>>

Spec == Init /\ [][Next]_vars

--------------------------------------------------------------------------------
(* Users see projects of their own tenant only, departments and versions stay in
   theirs, and saving the current version changes nobody's sight
   (user.py, project.py, project_version_current.py).                          *)
TenantsApart == [][part = "projects" => projects!ProjectsStep]_vars

(* A load that meets no other leaves each pattern of the release in one rule, but
   for strategies only users had, and changes no rule of a user; deleted payloads
   come back by an update only (load_hook_strategy.py, sensitive_info_rule.py,
   vul_recheck_payload.py).                                                    *)
RulesKept == [][part = "rules" => sensitive!RulesStep]_vars

(* No load deletes a rule that users added or edited, and one that meets no other,
   nor a user who saves a changed row, installs the rules of its release, but for
   types that only users had (load_hook_strategy.py, engine_hook_rule_modify.py). *)
LoadsKeepRules == [][part = "hooks" => hookload!LoadStep]_vars

(* Loads leave strategies and hook types of users alone and bind a type to the
   same row again (load_hook_strategy.py).                                     *)
BindingStable == [][part = "types" => typeload!BindingStep]_vars

(* The configuration an agent gets for a group is the one the tables gave before
   or after an edit that meets the request (agent_config.py).                  *)
OneEditAtomic == part = "configs" => breaking!OneEditAtomic

(* No answer of a cached function is older than the cache and one call allow,
   though results are stored after an invalidation (common/utils).             *)
AnswersAreRecent == part = "cache" => cache!AnswersAreRecent

(* A clean-up leaves no pool that was expired when it began, but the newest one
   without elastic search; a pool that is not expired goes only without it, where
   the ids up to a batch behind the newest expired one go (data_clean.py).     *)
CleanUpExact == [][part = "pools" => retention!CleanUpStep]_vars
================================================================================
