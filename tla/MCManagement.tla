----------------------------- MODULE MCManagement -----------------------------
(***************************************************************************)
(* The instance for TLC of Management, and beside it one of the listing of  *)
(* a route's parameters, on variables that the other parts leave alone.     *)
(***************************************************************************)
EXTENDS Management, TLC

CONSTANTS root, admin, member, other, t1, t2, d1, d2, p1, p2, pv1, pv2, x, y, u1, u2, k1, k2, s1

(* Two tenants: a super administrator, the administrators of both and one user
   of t1, in the only department.                                             *)
Staff == [u \in {root, admin, member, other} |->
  CASE u = root   -> [role |-> "super",  tenant |-> None, depts |-> {},   active |-> TRUE]
    [] u = admin  -> [role |-> "tenant", tenant |-> t1,   depts |-> {},   active |-> TRUE]
    [] u = member -> [role |-> "normal", tenant |-> t1,   depts |-> {d1}, active |-> TRUE]
    [] u = other  -> [role |-> "tenant", tenant |-> t2,   depts |-> {},   active |-> TRUE]]
OneDept == [d \in {d1, d2} |-> [tenant |-> IF d = d1 THEN t1 ELSE None, parent |-> None]]

\* Sound: nothing names a single project or version.
Ids == Permutations({p1, p2}) \cup Permutations({pv1, pv2})

(* Configurations of two groups with three sets of targets; of a name the
   letters count.                                                             *)
Target(a, o, v) == [attr |-> a, opt |-> o, value |-> v]
MCConfigs == [group: {1, 2}, on: BOOLEAN, priority: {1, 2}, interval: {30}, metrics: {{"cpu"}},
         targets: {{Target("NAME", "EQUAL", {x}), Target("PORT", "NOT_EQUAL", {x})},
                   {Target("NAME", "CONTAIN", {x, y}), Target("NAME", "NOT_CONTAIN", {x})},
                   {Target("PORT", "CONTAIN", {x})}}]
        \cup [group: {2}, on: {TRUE}, priority: {1}, interval: {30, 60}, metrics: {{}, {"mem"}}, targets: {{}}]

\* Two schemas that may refer to each other, directly or within collections.
Plain == [kind |-> "plain"]
Ref(n) == [kind |-> "ref", to |-> n]
ItemsOf(c, schema) == [kind |-> c, items |-> schema]
FieldSchemas == {Plain, Ref("A"), Ref("B"), ItemsOf("array", Plain), ItemsOf("array", Ref("A")),
                 ItemsOf("array", Ref("B")), ItemsOf("map", Ref("B"))}
Objects(f, g) == {[kind |-> "object", fields |-> <<<<f, a>>, <<g, b>>>>] : a \in FieldSchemas, b \in FieldSchemas}
                 \cup {[kind |-> "object", fields |-> <<<<f, Ref("B")>>>>]}
Components == {[A |-> a, B |-> b] : a \in Objects("a1", "a2"),
                                    b \in Objects("b1", "b2") \cup {ItemsOf("array", Ref("A")), ItemsOf("set", Plain)}}
Shapes == {Ref("A"), ItemsOf("array", Ref("A")), ItemsOf("set", Ref("B"))}
Parameters == {<<<<"p", a>>, <<"", b>>>> : a \in Shapes \cup {Plain}, b \in {Ref("A"), Plain}}

\* The first user sees both users' rules; the second release replaces a pattern,
\* the third brings the first back.
MCAuthUsers == [u \in {u1, u2} |-> IF u = u1 THEN {u1, u2} ELSE {u}]
MCRuleReleases == <<{x}, {y}, {x}>>
MCStrategyOf == [p \in {x, y} |-> IF p = x THEN t1 ELSE t2]

\* The second release drops the sink ...
MCHookReleases == <<{k1, s1}, {k1}>>
MCTypeOf == [k \in {k1, k2, s1} |-> IF k = s1 THEN t2 ELSE t1]

\* ... and adds a type.
MCTypeReleases == <<{t1}, {t1, t2}>>

schemas == INSTANCE ApiSchema WITH
  components <- tenants, parameters <- dept, listed <- user

--------------------------------------------------------------------------------
MCInit ==
  \/ Init
  \/ /\ part = "schemas" /\ schemas!Init
     /\ login = None /\ requests = None /\ project = None /\ version = None /\ agents = None /\ setting = None
     /\ NoRules /\ NoHooks /\ NoTypes /\ NoConfigs /\ NoCache /\ NoPools

MCNext ==
  \/ Next
  \/ /\ part = "schemas" /\ schemas!Next
     /\ UNCHANGED <<part, login, requests, project, version, agents, setting,
                    ruleVars, hookVars, typeVars, configVars, cacheVars, poolVars>>

MCSpec == MCInit /\ [][MCNext]_vars

--------------------------------------------------------------------------------
(* The rows of a route's parameters are a forest with every field of the schemas
   it refers to (apiroutehandler_v2).                                          *)
ParametersListed == part = "schemas" => schemas!ParametersListed
================================================================================
