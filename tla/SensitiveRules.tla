----------------------------- MODULE SensitiveRules -----------------------------
(***************************************************************************)
(* Rules for sensitive information and payloads of the active verification, *)
(* as users edit them, as each process that starts loads the rules of the   *)
(* release (the end of load_hook_strategy), and as a scan reads them.       *)
(***************************************************************************)
EXTENDS Naturals, Sequences, FiniteSetsExt

CONSTANTS User, Admin,  \* the first user, who owns the system's rules
          AuthUsers,    \* get_auth_users
          Pattern,
          Strategy, StrategyOf, \* vul_type of strategies, and of a pattern
          Releases,     \* the patterns of each release
          Process,      \* processes that may load the release
          MaxRules,     \* bound: rules created
          MaxEdits,     \* bound: requests
          None

VARIABLES version,  \* release on disk
          sha1sum,  \* release whose files are recorded as loaded
          rules,    \* rows of iast_sensitive_info_rule by id, None when gone
          strategies, \* who has a strategy: none, users only, or the system
          payload,  \* status of each user's payload, or None
          update,   \* a user's update under way
          load,     \* what each process loads
          edits

vars == <<version, sha1sum, rules, strategies, payload, update, load, edits>>

Id == 1..MaxRules
Stored == {i \in DOMAIN rules : rules[i] # None}
System == {i \in Stored : rules[i].system}
Status == {"on", "off"} \* 1 and 0; "deleted" is -1
NoLoad == [at |-> "idle"]
Down == [at |-> "down"]

Init ==
  /\ version = 1 /\ sha1sum = None
  /\ rules = <<>> /\ strategies = [t \in Strategy |-> "none"]
  /\ payload \in [User -> {None, "deleted"}]
  /\ update = [u \in User |-> None] /\ load = [p \in Process |-> NoLoad]
  /\ edits = 0

Insert(row) == Len(rules) < MaxRules /\ rules' = Append(rules, row)

Request == edits < MaxEdits /\ edits' = edits + 1

--------------------------------------------------------------------------------
(* SensitiveInfoRuleViewSet and the status views.                             *)

Create(u, p, st) ==
  /\ Request
  /\ Insert([user |-> u, pattern |-> p, status |-> st, system |-> FALSE])
  /\ UNCHANGED <<version, sha1sum, strategies, payload, update, load>>

\* Any rule is read, those of other users and the deleted ones, too.
UpdateRead(u, i, p, st) ==
  /\ Request /\ update[u] = None /\ i \in Stored
  /\ update' = [update EXCEPT ![u] =
       [id |-> i, row |-> IF rules[i].system THEN [rules[i] EXCEPT !.status = st]
                          ELSE [rules[i] EXCEPT !.pattern = p, !.status = st]]]
  /\ UNCHANGED <<version, sha1sum, rules, strategies, payload, load>>

(* A rule of the system is saved, which inserts it if it is gone; another is
   updated where it is.                                                       *)
UpdateWrite(u) ==
  /\ update[u] # None
  /\ LET i == update[u].id
     IN  rules' = IF update[u].row.system \/ i \in Stored THEN [rules EXCEPT ![i] = update[u].row] ELSE rules
  /\ update' = [update EXCEPT ![u] = None]
  /\ UNCHANGED <<version, sha1sum, strategies, payload, load, edits>>

SetStatus(S, st) == rules' = [i \in DOMAIN rules |-> IF i \in S THEN [rules[i] EXCEPT !.status = st] ELSE rules[i]]

Destory(u, i) ==
  /\ Request
  /\ SetStatus({i} \cap {j \in Stored \ System : rules[j].user \in AuthUsers[u]}, "deleted")
  /\ UNCHANGED <<version, sha1sum, strategies, payload, update, load>>

OwnRules(u) == {i \in Stored : rules[i].user = u}

(* BatchStatusUpdateSerializerView and AllStatusUpdateSerializerView: own
   rules, those of the system for its first user, and deleted ones.  The
   second disables all when the request does not parse.                       *)
BatchUpdate(u, S, st) ==
  /\ Request
  /\ SetStatus(S \cap OwnRules(u), st)
  /\ UNCHANGED <<version, sha1sum, strategies, payload, update, load>>

\* list
Listed(u) == {i \in Stored : rules[i].user \in AuthUsers[u] /\ rules[i].status # "deleted"}

--------------------------------------------------------------------------------
(* VulReCheckPayloadViewSet, one payload for each user.                       *)

SetPayload(U, st) == payload' = [u \in User |-> IF u \in U THEN st ELSE payload[u]]
Payloads(U) == {u \in U : payload[u] \in Status}

\* Create, and update by pk: the status a serializer lets through is not 0.
PayloadSave(u) ==
  /\ Request /\ SetPayload({u}, "on")
  /\ UNCHANGED <<version, sha1sum, rules, strategies, update, load>>

PayloadDelete(u) ==
  /\ Request /\ payload[u] # None /\ SetPayload({u}, "deleted")
  /\ UNCHANGED <<version, sha1sum, rules, strategies, update, load>>

\* status_change for one's own, status_all for everybody's; any status passes.
PayloadStatus(U, st) ==
  /\ Request /\ SetPayload(Payloads(U), st)
  /\ UNCHANGED <<version, sha1sum, rules, strategies, update, load>>

--------------------------------------------------------------------------------
\* StrategysEndpoint: a user's strategy, of a type nobody has.
UserStrategy(t) ==
  /\ strategies[t] = "none" /\ strategies' = [strategies EXCEPT ![t] = "users"]
  /\ UNCHANGED <<version, sha1sum, rules, payload, update, load, edits>>

(* Releases.                                                                  *)

Deploy ==
  /\ version + 1 \in DOMAIN Releases
  /\ version' = version + 1
  /\ UNCHANGED <<sha1sum, rules, strategies, payload, update, load, edits>>

Loading == {p \in Process : load[p] \notin {NoLoad, Down}}

\* Patterns of a strategy that only users have are skipped.
Bound(patterns) == {p \in patterns : strategies[StrategyOf[p]] # "users"}

(* IastConfig.ready, when validate_hook_strategy_update says no.  The strategies
   nobody has are created.                                                    *)
LoadStart(p) ==
  /\ p \notin Loading /\ sha1sum # version
  /\ strategies' = [t \in Strategy |->
       IF strategies[t] = "none" /\ \E k \in Releases[version] : StrategyOf[k] = t THEN "system" ELSE strategies[t]]
  /\ LET patterns == Bound(Releases[version])
     IN  load' = [q \in Process |->
           IF q = p THEN [at |-> "hooks", todo |-> patterns, patterns |-> patterns, ids |-> {}, alone |-> Loading = {}]
           ELSE IF q \in Loading THEN [load[q] EXCEPT !.alone = FALSE] ELSE load[q]]
  /\ UNCHANGED <<version, sha1sum, rules, payload, update, edits>>

\* save_hook_stratefile_sha1sum, of the files of now, before the rules are loaded.
SaveSha1sum(p) ==
  /\ load[p].at = "hooks"
  /\ sha1sum' = version
  /\ load' = [load EXCEPT ![p].at = "rules"]
  /\ UNCHANGED <<version, rules, strategies, payload, update, edits>>

\* Mutant: a rule of a user passes for the system's.
Exists_AnyOwner(pattern) == {i \in Stored : rules[i].pattern = pattern}

Exists(pattern) == {i \in System : rules[i].pattern = pattern}

(* A rule of the release is looked for, and created in a later step.  A pattern
   stands for its strategy, too, by which rules are looked for.               *)
LoadFind(p) ==
  /\ load[p].at = "rules"
  /\ \E pattern \in load[p].todo :
       load' = [load EXCEPT ![p] =
         IF Exists(pattern) = {} THEN [load[p] EXCEPT !.at = pattern]
         ELSE [load[p] EXCEPT !.todo = @ \ {pattern}, !.ids = @ \cup {Min(Exists(pattern))}]]
  /\ UNCHANGED <<version, sha1sum, rules, strategies, payload, update, edits>>

LoadCreate(p) ==
  /\ load[p].at \in Pattern
  /\ Insert([user |-> Admin, pattern |-> load[p].at, status |-> "on", system |-> TRUE])
  /\ load' = [load EXCEPT ![p] = [load[p] EXCEPT !.at = "rules", !.todo = @ \ {load[p].at},
                                                 !.ids = @ \cup {Len(rules')}]]
  /\ UNCHANGED <<version, sha1sum, strategies, payload, update, edits>>

Loaded(p) == load[p].at = "rules" /\ load[p].todo = {}

LoadEnd(p) ==
  /\ Loaded(p)
  /\ rules' = [i \in DOMAIN rules |-> IF i \in System \ load[p].ids THEN None ELSE rules[i]]
  /\ load' = [load EXCEPT ![p] = NoLoad]
  /\ UNCHANGED <<version, sha1sum, strategies, payload, update, edits>>

Crash(p) ==
  /\ p \in Loading
  /\ load' = [load EXCEPT ![p] = Down]
  /\ UNCHANGED <<version, sha1sum, rules, strategies, payload, update, edits>>

Next ==
  \/ \E u \in User :
       \/ \E p \in Pattern, st \in Status : Create(u, p, st) \/ \E i \in Id : UpdateRead(u, i, p, st)
       \/ UpdateWrite(u)
       \/ \E i \in Id : Destory(u, i)
       \/ \E S \in SUBSET Id, st \in Status \cup {"deleted"} : BatchUpdate(u, S, st)
       \/ PayloadSave(u) \/ PayloadDelete(u)
       \/ \E U \in {{u}, User}, st \in Status \cup {"deleted"} : PayloadStatus(U, st)
  \/ \E t \in Strategy : UserStrategy(t)
  \/ Deploy
  \/ \E p \in Process : LoadStart(p) \/ SaveSha1sum(p) \/ LoadFind(p) \/ LoadCreate(p) \/ LoadEnd(p) \/ Crash(p)

Spec == Init /\ [][Next]_vars

--------------------------------------------------------------------------------
(* A process that loaded a release alone leaves each of its patterns, but for
   strategies that only users had, in one rule of the system, and no other one;
   it changes no rule of a user, nor the status a user gave to a rule of the
   system.                                                                    *)
ReleaseLoaded ==
  /\ load' # load => \A i \in Stored : rules'[i] = rules[i] \/ (rules[i].system /\ rules'[i] = None)
  /\ \A p \in Process : Loaded(p) /\ load'[p] = NoLoad /\ load[p].alone =>
       /\ {rules'[i].pattern : i \in System'} = load[p].patterns
       /\ \A i, j \in System' : rules'[i].pattern = rules'[j].pattern => i = j

(* A payload that was deleted comes back by its owner's update only.          *)
PayloadRevived == \A u \in User : payload[u] = "deleted" /\ payload'[u] # "deleted" =>
                    payload'[u] = "on" /\ \A v \in User \ {u} : payload'[v] = payload[v]

(* What editing and loading promise together.                                 *)
RulesStep == ReleaseLoaded /\ PayloadRevived
=================================================================================
