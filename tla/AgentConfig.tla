------------------------------ MODULE AgentConfig ------------------------------
(***************************************************************************)
(* The circuit breaking configuration of an agent, as agent_config.py puts *)
(* it together: for each metric group the first configuration by priority  *)
(* all of whose targets match the agent.  Configurations, targets and       *)
(* metrics are read by statements of their own while others edit them.      *)
(***************************************************************************)
EXTENDS Naturals, FiniteSets

CONSTANTS
  Config, Group, Null, \* Group is MetricGroup as 1..n
  Name,     \* what the agent's text attributes are: a set of letters
  Rows,     \* configurations there may be at first
  MaxEdits  \* bound: edits while one request is answered

VARIABLES
  configs,  \* iast_circuit_configs with their targets and metrics, or Null
  enabled,  \* get_circuit_break
  request,  \* statement that comes next, group, configurations listed, one chosen
  data,     \* what the answer holds for a group, or Null
  before,   \* configurations when the request came
  edits

vars == <<configs, enabled, request, data, before, edits>>

NoRequest == [step |-> "idle", group |-> 0, queue |-> {}, config |-> Null, interval |-> 0]

Init ==
  /\ configs \in [Config -> Rows \cup {Null}]
  /\ enabled \in BOOLEAN
  /\ request = NoRequest /\ data = [g \in Group |-> Null]
  /\ before = configs /\ edits = 0

--------------------------------------------------------------------------------
(* get_function: "contain" asks whether the agent's attribute is a part of the
   target's value.  The port is a number and never equal to a text; whether it
   is a part of one raises a TypeError.                                       *)
Raises(t) == t.attr = "PORT" /\ t.opt \in {"CONTAIN", "NOT_CONTAIN"}
Matches(t) ==
  CASE t.opt = "EQUAL"       -> t.attr # "PORT" /\ Name = t.value
    [] t.opt = "NOT_EQUAL"   -> t.attr = "PORT" \/ Name # t.value
    [] t.opt = "CONTAIN"     -> Name \subseteq t.value
    [] t.opt = "NOT_CONTAIN" -> ~(Name \subseteq t.value)

(* MetricGroup in its order; Group is 1..n.                                   *)
NextGroup == [NoRequest EXCEPT !.step = IF request.group + 1 \in Group THEN "list" ELSE "done", !.group = request.group + 1]

(* AgentConfigv2View.post: nothing is configured while circuit breaking is off.*)
Post ==
  /\ request = NoRequest
  /\ request' = IF enabled THEN [NoRequest EXCEPT !.step = "list", !.group = 1] ELSE [NoRequest EXCEPT !.step = "done"]
  /\ before' = configs /\ edits' = 0
  /\ UNCHANGED <<configs, enabled, data>>

(* get_agent_config_by_scan.                                                  *)
ListConfigs ==
  /\ request.step = "list"
  /\ request' = [request EXCEPT !.step = "match", !.queue =
       {[id |-> c, priority |-> configs[c].priority] : c \in {x \in Config : configs[x] # Null /\ configs[x].group = request.group /\ configs[x].on}}]
  /\ UNCHANGED <<configs, enabled, data, before, edits>>

\* Mutant: the order is dropped.
First_Any(queue) == queue
First(queue) == {q \in queue : \A other \in queue : q.priority <= other.priority}

MatchTargets ==
  /\ request.step = "match"
  /\ IF request.queue = {} THEN request' = NextGroup
     ELSE \E q \in First(request.queue) :
            LET targets == IF configs[q.id] = Null THEN {} ELSE configs[q.id].targets
            IN request' = CASE \E t \in targets : Raises(t)  -> [NoRequest EXCEPT !.step = "failed"]
                            [] \A t \in targets : Matches(t) -> [request EXCEPT !.step = "config", !.config = q.id]
                            [] OTHER                         -> [request EXCEPT !.queue = @ \ {q}]
  /\ UNCHANGED <<configs, enabled, data, before, edits>>

(* get_agent_config: a configuration that is gone is passed over, and no other
   one is tried.                                                              *)
ReadConfig ==
  /\ request.step = "config"
  /\ request' = IF configs[request.config] = Null THEN NextGroup
                ELSE [request EXCEPT !.step = "metrics", !.interval = configs[request.config].interval]
  /\ UNCHANGED <<configs, enabled, data, before, edits>>

ReadMetrics ==
  /\ request.step = "metrics"
  /\ data' = [data EXCEPT ![request.group] =
       [config |-> request.config, interval |-> request.interval,
        metrics |-> IF configs[request.config] = Null THEN {} ELSE configs[request.config].metrics]]
  /\ request' = NextGroup
  /\ UNCHANGED <<configs, enabled, before, edits>>

(* The answer is sent; its interval is the least of all groups.               *)
Answer ==
  /\ request.step \in {"done", "failed"}
  /\ request' = NoRequest /\ data' = [g \in Group |-> Null]
  /\ UNCHANGED <<configs, enabled, before, edits>>

(* One statement of whoever edits configurations: a column or a set of rows.  *)
Edit(c, r) ==
  /\ edits < MaxEdits /\ request # NoRequest
  /\ configs[c] # Null /\ r # configs[c]
  /\ \/ r = Null
     \/ r # Null /\ \E f \in {"on", "priority", "targets", "metrics", "interval"} :
          r = [configs[c] EXCEPT ![f] = r[f]]
  /\ configs' = [configs EXCEPT ![c] = r]
  /\ edits' = edits + 1
  /\ UNCHANGED <<enabled, request, data, before>>

Next ==
  \/ Post \/ ListConfigs \/ MatchTargets \/ ReadConfig \/ ReadMetrics \/ Answer
  \/ \E c \in Config, r \in Rows \cup {Null} : Edit(c, r)

Spec == Init /\ [][Next]_vars

--------------------------------------------------------------------------------
(* The answers for a group that one state of the tables allows.               *)
Fits(db, g) == {c \in Config : db[c] # Null /\ db[c].group = g /\ db[c].on /\ \A t \in db[c].targets : Matches(t)}
Best(db, g) ==
  IF Fits(db, g) = {} THEN {Null}
  ELSE {[config |-> c, interval |-> db[c].interval, metrics |-> db[c].metrics] :
          c \in {x \in Fits(db, g) : \A y \in Fits(db, g) : db[x].priority <= db[y].priority}}

(* An agent gets, for each group, what the tables said before or after an edit
   that meets its request, though they are read piece by piece.  Removing a row
   is the exception: the group may be left out though another one matches.    *)
OneEditAtomic ==
  request.step = "done" /\ enabled /\ edits <= 1 /\ (\A c \in Config : configs[c] = Null => before[c] = Null)
    => \A g \in Group : data[g] \in Best(before, g) \cup Best(configs, g)
================================================================================
