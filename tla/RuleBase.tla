-------------------------------- MODULE RuleBase --------------------------------
(***************************************************************************)
(* Strategies, their hook rules and the scan templates, as users edit them, *)
(* as an agent is given them, and as a scan loads them through two caches.  *)
(* No request is a transaction: each statement is a step of its own.  One   *)
(* project, one language.                                                   *)
(***************************************************************************)
EXTENDS Naturals, FiniteSets

CONSTANTS
  User,      \* users with one request at a time
  Worker,    \* workers that scan method pools of the project
  Strategy,  \* ids of iast_strategy; the hook type of a strategy has its id
  SystemStrategy, \* those with system_type 1
  Rule,      \* ids of iast_hook_strategy
  SystemRule, \* those with system_type 1
  Signature, \* methods that rules hook, without the list of parameters
  Template,  \* ids of iast_strategy_user
  Default,   \* the template with id 5
  Null,
  Blank,     \* a piece of a template's content that is no number
  InitialState, InitialRule, InitialContent,
  MaxEdits   \* bound: editing requests

VARIABLES
  state,    \* state of a strategy: enable, disable, delete, or none
  htype,    \* enable of its hook type: on, off, deleted
  rule,     \* rows of iast_hook_strategy
  content,  \* the pieces of a template's list of strategies, or Null
  deleted,  \* templates with status -1
  scan,     \* scan_id of the project
  scanId,   \* cached get_scan_id
  sinks,    \* cached load_sink_strategy by template, or Null
  job,      \* request of a user under way
  worker,   \* scan under way
  searched, \* signatures the last scan looked for
  edits

vars == <<state, htype, rule, content, deleted, scan, scanId, sinks, job, worker, searched, edits>>
tables == <<state, htype, rule, content, deleted, scan>>
caches == <<scanId, sinks>>
engine == <<scanId, worker, searched>>

(* A rule of type 4 (sink) belongs to a strategy, others to its hook type.    *)
NoRule == [status |-> "none", sink |-> FALSE, of |-> Null, signature |-> Null]
RuleRow == [status: {"none", "on", "off", "deleted"}, sink: BOOLEAN, of: Strategy \cup {Null}, signature: Signature \cup {Null}]
NoJob  == [op |-> "none", on |-> Null, step |-> 0, row |-> NoRule, content |-> {}]
Idle   == [step |-> "idle", scan |-> Null, sinks |-> {}]
Op     == {"enable", "disable", "delete"}
StatusOf(op) == CASE op = "enable" -> "on" [] op = "disable" -> "off" [] op = "delete" -> "deleted"

Init ==
  /\ state = InitialState /\ rule = InitialRule /\ content = InitialContent
  /\ htype = [s \in Strategy |-> IF state[s] = "enable" THEN "on" ELSE "off"]
  /\ deleted = {} /\ scan = Default /\ edits = 0
  /\ scanId = Null /\ sinks = [t \in Template |-> Null]
  /\ job = [u \in User |-> NoJob] /\ worker = [w \in Worker |-> Idle]
  /\ searched = {}

--------------------------------------------------------------------------------
(* What the tables say.                                                       *)

(* HookProfiles.get_profiles: the rules an agent is told to hook.             *)
Given == {r \in Rule : /\ rule[r].status = "on" /\ rule[r].of # Null
                       /\ IF rule[r].sink THEN state[rule[r].of] = "enable" ELSE htype[rule[r].of] = "on"}

(* What the sink rules of S hook.                                             *)
SinksOf(S) == {rule[r].signature : r \in {x \in Rule : rule[x].status # "none" /\ rule[x].sink /\ rule[x].of \in S}}

\* Mutant: the template is ignored.
LoadSinkStrategy_AnyTemplate(t) == SinksOf({s \in Strategy : state[s] = "enable"})

(* load_sink_strategy: the rule's own status is not asked for; of rules with
   the same signature one is kept.                                            *)
LoadSinkStrategy(t) == SinksOf({s \in Strategy : state[s] = "enable" /\ (content[t] # Null => s \in content[t])})

--------------------------------------------------------------------------------
(* Requests about strategies.                                                 *)

Begin(u, j) ==
  /\ job[u] = NoJob /\ edits < MaxEdits
  /\ job' = [job EXCEPT ![u] = j]
  /\ edits' = edits + 1

End(u) == job' = [job EXCEPT ![u] = NoJob]
Continue(u) == job' = [job EXCEPT ![u].step = @ + 1]

(* StrategysEndpoint.post: the strategy, then the default template is read, the
   id is appended to its pieces and they are written back, then the hook types.
   A piece that is no number stays among them.                                *)
StrategyCreate(u, s, st) ==
  /\ state[s] = "none"
  /\ Begin(u, [NoJob EXCEPT !.op = "create", !.on = s])
  /\ state' = [state EXCEPT ![s] = st]
  /\ UNCHANGED <<htype, rule, content, deleted, scan, sinks, engine>>

StrategyCreateRead(u) ==
  /\ job[u].op = "create" /\ job[u].step = 0
  /\ job' = [job EXCEPT ![u].step = 1, ![u].content = content[Default] \cup {job[u].on}]
  /\ UNCHANGED <<tables, sinks, engine, edits>>

StrategyCreateWrite(u) ==
  /\ job[u].op = "create" /\ job[u].step = 1
  /\ content' = [content EXCEPT ![Default] = job[u].content]
  /\ htype' = [htype EXCEPT ![job[u].on] = "on"]
  /\ End(u)
  /\ UNCHANGED <<state, rule, deleted, scan, sinks, engine, edits>>

(* StrategyEnable, StrategyDisable and StrategyDelete: the state, then the
   rules of the hook type, then the type.  Only a system strategy is not
   deleted; a deleted one may be enabled.                                     *)
StrategySwitch(u, s, op) ==
  /\ state[s] # "none"
  /\ ~(op = "delete" /\ s \in SystemStrategy)
  /\ Begin(u, [NoJob EXCEPT !.op = op, !.on = s])
  /\ state' = [state EXCEPT ![s] = op]
  /\ UNCHANGED <<htype, rule, content, deleted, scan, sinks, engine>>

StrategySwitchRules(u) ==
  LET op == job[u].op
      from == CASE op = "enable" -> {"off"} [] op = "disable" -> {"on"} [] OTHER -> {"on", "off", "deleted"}
  IN  /\ op \in Op /\ job[u].step = 0
      /\ rule' = [r \in Rule |-> IF rule[r].status \in from /\ ~rule[r].sink /\ rule[r].of = job[u].on
                                   THEN [rule[r] EXCEPT !.status = StatusOf(op)] ELSE rule[r]]
      /\ Continue(u)
      /\ UNCHANGED <<state, htype, content, deleted, scan, sinks, engine, edits>>

StrategySwitchType(u) ==
  /\ job[u].op \in Op /\ job[u].step = 1
  /\ htype' = [htype EXCEPT ![job[u].on] = StatusOf(job[u].op)]
  /\ End(u)
  /\ UNCHANGED <<state, rule, content, deleted, scan, sinks, engine, edits>>

(* StrategyModified writes any state, and only renames the hook types.        *)
StrategyModified(u, s, st) ==
  /\ state[s] # "none" /\ job[u] = NoJob /\ edits < MaxEdits
  /\ state' = [state EXCEPT ![s] = st]
  /\ edits' = edits + 1
  /\ UNCHANGED <<htype, rule, content, deleted, scan, sinks, engine, job>>

--------------------------------------------------------------------------------
(* Requests about hook rules.                                                 *)

(* EngineHookRuleAdd.post: no rule of the kind that is not deleted may have the
   value; the row is inserted afterwards, and then added to its strategy.     *)
RuleAdd(u, r, s, sink, sig) ==
  /\ rule[r] = NoRule /\ state[s] # "none"
  /\ \A x \in Rule : ~(rule[x].status \in {"on", "off"} /\ rule[x].sink = sink /\ rule[x].signature = sig)
  /\ \A v \in User : job[v].on # r
  /\ Begin(u, [NoJob EXCEPT !.op = "add", !.on = r,
                            !.row = [status |-> "on", sink |-> sink, of |-> s, signature |-> sig]])
  /\ UNCHANGED <<tables, sinks, engine>>

RuleInsert(u) ==
  /\ job[u].op = "add" /\ job[u].step = 0
  /\ rule' = [rule EXCEPT ![job[u].on] = [job[u].row EXCEPT !.of = Null]]
  /\ Continue(u)
  /\ UNCHANGED <<state, htype, content, deleted, scan, sinks, engine, edits>>

RuleAttach(u) ==
  /\ job[u].op = "add" /\ job[u].step = 1
  /\ rule' = [rule EXCEPT ![job[u].on].of = job[u].row.of]
  /\ End(u)
  /\ UNCHANGED <<state, htype, content, deleted, scan, sinks, engine, edits>>

(* EngineHookRuleModify.post reads the whole row and saves it; the value of a
   preset rule stays; a rule that is no sink loses a type that does not exist. *)
RuleModify(u, r, s, sig) ==
  /\ rule[r] # NoRule
  /\ r \in SystemRule => sig = rule[r].signature
  /\ Begin(u, [NoJob EXCEPT !.op = "save", !.on = r,
                            !.row = [rule[r] EXCEPT !.signature = sig,
                                                    !.of = IF s = Null /\ rule[r].sink THEN @ ELSE s]])
  /\ UNCHANGED <<tables, sinks, engine>>

Allowed(r, op) == rule[r] # NoRule /\ (op = "delete" => r \notin SystemRule)

(* EngineHookRuleEnable.get for one rule: it is read, and saved whole.        *)
RuleStatus(u, r, op) ==
  /\ Allowed(r, op)
  /\ Begin(u, [NoJob EXCEPT !.op = "save", !.on = r, !.row = [rule[r] EXCEPT !.status = StatusOf(op)]])
  /\ UNCHANGED <<tables, sinks, engine>>

RuleSave(u) ==
  /\ job[u].op = "save"
  /\ rule' = [rule EXCEPT ![job[u].on] = job[u].row]
  /\ End(u)
  /\ UNCHANGED <<state, htype, content, deleted, scan, sinks, engine, edits>>

(* EngineHookRuleEnable for a list of ids, or all rules of a type: one update. *)
RuleStatusAll(u, R, op) ==
  /\ job[u] = NoJob /\ edits < MaxEdits
  /\ rule' = [r \in Rule |-> IF r \in R /\ Allowed(r, op) THEN [rule[r] EXCEPT !.status = StatusOf(op)] ELSE rule[r]]
  /\ edits' = edits + 1
  /\ UNCHANGED <<state, htype, content, deleted, scan, sinks, engine, job>>

--------------------------------------------------------------------------------
(* Scan templates and the project's choice.                                   *)

(* A list without strategies is stored as "[]", or as the empty string when it
   is created: one piece, which is no number.                                 *)
Pieces(S) == IF S = {} THEN {Blank} ELSE S

(* An update may leave the content alone.                                     *)
TemplateUpdate(u, t, S) ==
  /\ content[t] # Null
  /\ Begin(u, [NoJob EXCEPT !.op = "forget", !.on = t])
  /\ content' = [content EXCEPT ![t] = Pieces(S)]
  /\ UNCHANGED <<state, htype, rule, deleted, scan, sinks, engine>>

(* disable_cache(load_sink_strategy, (), {"scan_id": pk}).                    *)
TemplateForget(u) ==
  /\ job[u].op = "forget"
  /\ sinks' = [sinks EXCEPT ![job[u].on] = Null]
  /\ End(u)
  /\ UNCHANGED <<tables, engine, edits>>

TemplateCreate(u, t, S) ==
  /\ content[t] = Null /\ job[u] = NoJob /\ edits < MaxEdits
  /\ content' = [content EXCEPT ![t] = Pieces(S)]
  /\ edits' = edits + 1
  /\ UNCHANGED <<state, htype, rule, deleted, scan, sinks, engine, job>>

(* destory, and status_all for every template: those of projects are left out,
   which is looked up before the update.                                      *)
TemplateDelete(u, T) ==
  /\ \A t \in T : content[t] # Null /\ scan # t
  /\ Begin(u, [NoJob EXCEPT !.op = "drop", !.content = T])
  /\ UNCHANGED <<tables, sinks, engine>>

TemplateDrop(u) ==
  /\ job[u].op = "drop"
  /\ deleted' = deleted \cup job[u].content
  /\ End(u)
  /\ UNCHANGED <<state, htype, rule, content, scan, sinks, engine, edits>>

(* ProjectAdd.post: disable_cache(get_scan_id, (project.id)) names another key
   than the cached call, because its argument is no tuple.                    *)
ProjectScan(u, t) ==
  /\ content[t] # Null /\ job[u] = NoJob /\ edits < MaxEdits
  /\ scan' = t
  /\ edits' = edits + 1
  /\ UNCHANGED <<state, htype, rule, content, deleted, sinks, engine, job>>

--------------------------------------------------------------------------------
(* search_vul_from_method_pool: both calls are cached; a miss computes the
   result, and sets it in a later step.                                       *)

GetScanId(w) ==
  /\ worker[w].step = "idle"
  /\ worker' = [worker EXCEPT ![w].step = IF scanId = Null THEN "setId" ELSE "sinks",
                              ![w].scan = IF scanId = Null THEN scan ELSE scanId]
  /\ UNCHANGED <<tables, caches, job, searched, edits>>

SetScanId(w) ==
  /\ worker[w].step = "setId"
  /\ scanId' = worker[w].scan
  /\ worker' = [worker EXCEPT ![w].step = "sinks"]
  /\ UNCHANGED <<tables, sinks, job, searched, edits>>

(* A piece that is no number does not parse, which ends the scan.             *)
LoadSinks(w) ==
  LET t == worker[w].scan
  IN  /\ worker[w].step = "sinks"
      /\ worker' = [worker EXCEPT ![w] =
           IF sinks[t] = Null /\ content[t] # Null /\ Blank \in content[t] THEN Idle
           ELSE [step |-> IF sinks[t] = Null THEN "setSinks" ELSE "search", scan |-> t,
                 sinks |-> IF sinks[t] = Null THEN LoadSinkStrategy(t) ELSE sinks[t]]]
      /\ UNCHANGED <<tables, caches, job, searched, edits>>

SetSinks(w) ==
  /\ worker[w].step = "setSinks"
  /\ sinks' = [sinks EXCEPT ![worker[w].scan] = worker[w].sinks]
  /\ worker' = [worker EXCEPT ![w].step = "search"]
  /\ UNCHANGED <<tables, scanId, job, searched, edits>>

Search(w) ==
  /\ worker[w].step = "search"
  /\ searched' = worker[w].sinks
  /\ worker' = [worker EXCEPT ![w] = Idle]
  /\ UNCHANGED <<tables, caches, job, edits>>

(* 60 to 120 seconds after they were set.                                     *)
ScanIdExpires ==
  /\ scanId # Null
  /\ scanId' = Null
  /\ UNCHANGED <<tables, sinks, job, worker, searched, edits>>

SinksExpire(t) ==
  /\ sinks[t] # Null
  /\ sinks' = [sinks EXCEPT ![t] = Null]
  /\ UNCHANGED <<tables, engine, job, edits>>

--------------------------------------------------------------------------------
Edit(u) ==
  \/ \E s \in Strategy :
       \/ \E st \in {"enable", "disable"} : StrategyCreate(u, s, st) \/ StrategyModified(u, s, st)
       \/ \E op \in Op : StrategySwitch(u, s, op)
       \/ \E r \in Rule, sink \in BOOLEAN, sig \in Signature : RuleAdd(u, r, s, sink, sig)
  \/ \E r \in Rule :
       \/ \E s \in Strategy \cup {Null}, sig \in Signature : RuleModify(u, r, s, sig)
       \/ \E op \in Op : RuleStatus(u, r, op)
  \/ \E R \in SUBSET Rule \ {{}}, op \in Op : RuleStatusAll(u, R, op)
  \/ \E t \in Template : (\E S \in SUBSET Strategy : TemplateUpdate(u, t, S) \/ TemplateCreate(u, t, S)) \/ TemplateUpdate(u, t, content[t]) \/ ProjectScan(u, t)
  \/ \E T \in SUBSET Template \ {{}} : TemplateDelete(u, T)

Step(u) ==
  \/ StrategyCreateRead(u) \/ StrategyCreateWrite(u) \/ StrategySwitchRules(u) \/ StrategySwitchType(u)
  \/ RuleInsert(u) \/ RuleAttach(u) \/ RuleSave(u) \/ TemplateForget(u) \/ TemplateDrop(u)

Scan(w) == GetScanId(w) \/ SetScanId(w) \/ LoadSinks(w) \/ SetSinks(w) \/ Search(w)

Expire == ScanIdExpires \/ \E t \in Template : SinksExpire(t)

Next == (\E u \in User : Edit(u) \/ Step(u)) \/ (\E w \in Worker : Scan(w)) \/ Expire

Spec == Init /\ [][Next]_vars

(* Requests run to their end, the agents go on uploading, entries expire.     *)
FairSpec ==
  /\ Spec
  /\ \A u \in User : WF_vars(Step(u))
  /\ \A w \in Worker : WF_vars(Scan(w))
  /\ WF_vars(ScanIdExpires) /\ \A t \in Template : WF_vars(SinksExpire(t))

--------------------------------------------------------------------------------
(* The tables, the caches and what requests and scans hold keep their types.  *)
TypeOK ==
  /\ state \in [Strategy -> {"none", "enable", "disable", "delete"}]
  /\ htype \in [Strategy -> {"on", "off", "deleted"}]
  /\ rule \in [Rule -> RuleRow]
  /\ content \in [Template -> (SUBSET (Strategy \cup {Blank})) \cup {Null}]
  /\ deleted \subseteq Template /\ scan \in Template /\ scanId \in Template \cup {Null}
  /\ sinks \in [Template -> (SUBSET Signature) \cup {Null}]
  /\ \A u \in User : job[u].step \in 0..1 /\ job[u].row \in RuleRow
  /\ \A w \in Worker : worker[w].sinks \subseteq Signature /\ worker[w].scan \in Template \cup {Null}
  /\ searched \subseteq Signature
  /\ edits \in 0..MaxEdits

(* The rules agents hook for the enabled strategies of the project's template. *)
Wanted == {rule[r].signature : r \in {x \in Given : rule[x].sink /\ rule[x].of \in content[scan]}}

(* Once the users stop editing, scans look for every sink that agents hook and
   for none of a strategy that is disabled or not in the project's template,
   whatever the two caches held and in whatever order the edits, the
   invalidations and the scans that fill the caches ran.  A template that was
   emptied stops the scans of its projects until it is written as a whole: a
   strategy that is created afterwards is appended to what does not parse.    *)
EngineCatchesUp == []TypeOK /\
  <>[](Blank \in content[scan] \/ (/\ Wanted \subseteq searched
                                    /\ searched \subseteq SinksOf({s \in content[scan] : state[s] = "enable"})))

================================================================================
