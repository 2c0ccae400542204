------------------------------ MODULE HookRelease ------------------------------
(***************************************************************************)
(* load_hook_strategy: each process that starts on a new release replaces   *)
(* the system's hook rules by those of the release, while users add, edit   *)
(* and switch rules.  No transaction; the processes do not exclude each     *)
(* other.  Its first part is StrategyRelease, its last one SensitiveRules.  *)
(***************************************************************************)
EXTENDS Naturals, Sequences, FiniteSetsExt

CONSTANTS Key,       \* value, type and language of a hook rule
          Sink,      \* the keys of type 4
          Type,      \* hook types, and the strategies of sinks
          TypeOf,    \* the one a release puts a key under
          Releases,  \* the keys in the policy files of each release
          Process,   \* processes that start
          Editor,    \* users who edit rules
          MaxHooks,  \* bound: rules created
          MaxEvents, \* bound: requests and starts
          None

VARIABLES release,  \* policy files on disk
          loaded,   \* release whose check sums are recorded
          hooks,    \* rows of iast_hook_strategy by id, None when gone
          owners,   \* who has a type: none, users only, or the system
          editing,  \* what a user's request read and is to save, or None
          loader,   \* what each process loads
          events

vars == <<release, loaded, hooks, owners, editing, loader, events>>

Status == {"on", "off", "deleted"}
Stored == {i \in DOMAIN hooks : hooks[i] # None}
System == {i \in Stored : hooks[i].system}
Of(key) == {i \in Stored : hooks[i].key = key}
Standing(i) == hooks[i].status # "deleted"
Idle == [at |-> "idle"]
Failed == [at |-> "failed"]

Busy == {p \in Process : loader[p] \notin {Idle, Failed}}

Init ==
  /\ release = 1 /\ loaded = None /\ hooks = <<>> /\ events = 0
  /\ owners = [t \in Type |-> "none"] /\ editing = [u \in Editor |-> None]
  /\ loader = [p \in Process |-> Idle]

NewRule(key, by) == [key |-> key, by |-> by, system |-> by = "release", modified |-> FALSE,
                     edited |-> FALSE, status |-> "on"]

Insert(row) == Len(hooks) < MaxHooks /\ hooks' = Append(hooks, row)

Update(S, f(_)) == hooks' = [i \in DOMAIN hooks |-> IF i \in S THEN f(hooks[i]) ELSE hooks[i]]

--------------------------------------------------------------------------------
(* Users.  A request for one rule reads, and saves the whole row in a later
   step; one for several is a single statement.                               *)

Request == events < MaxEvents /\ events' = events + 1 /\ UNCHANGED <<release, loaded, loader>>

\* What one request is to save: its row, for the rule it read, or a further one.
Edit(u, id, read, row) ==
  /\ Request /\ editing[u] = None
  /\ editing' = [editing EXCEPT ![u] = [id |-> id, read |-> read, row |-> row]]
  /\ UNCHANGED <<hooks, owners>>

\* EngineHookRuleAddEndPoint: unless a rule that is not deleted has the key.
Add(u, key) == (\A i \in Of(key) : ~Standing(i)) /\ Edit(u, None, None, NewRule(key, "user"))

(* EngineHookRuleModifyEndPoint: the value of a rule of the system stays, and
   the type of any.                                                           *)
Modify(u, i, key) ==
  /\ i \in Stored
  /\ IF i \in System THEN key = hooks[i].key ELSE key \in Sink <=> hooks[i].key \in Sink
  /\ Edit(u, i, hooks[i], [hooks[i] EXCEPT !.key = key, !.edited = TRUE, !.modified = TRUE])

Allowed(st) == IF st = "deleted" THEN Stored \ System ELSE Stored

\* set_strategy_status, for one rule ...
SwitchOne(u, i, st) ==
  i \in Allowed(st) /\ Edit(u, i, hooks[i], [hooks[i] EXCEPT !.status = st, !.modified = TRUE])

\* Loads that are under way when a row that changed since it was read is saved.
Disturbed == [p \in Process |-> IF p \in Busy THEN [loader[p] EXCEPT !.alone = FALSE] ELSE loader[p]]

\* A row that is gone is inserted again.
Save(u) ==
  /\ editing[u] # None
  /\ LET e == editing[u]
     IN  \/ e.id = None /\ Insert(e.row) /\ UNCHANGED loader
         \/ /\ e.id # None /\ hooks' = [hooks EXCEPT ![e.id] = e.row]
            /\ loader' = IF hooks[e.id] = e.read THEN loader ELSE Disturbed
  /\ editing' = [editing EXCEPT ![u] = None]
  /\ UNCHANGED <<release, loaded, owners, events>>

\* ... or a list of them.
Switch(S, st) ==
  /\ Request /\ UNCHANGED <<owners, editing>>
  /\ Update(S \cap Allowed(st), LAMBDA r : [r EXCEPT !.status = st, !.modified = TRUE])

\* scope "all": the rules of a hook type, without a mark.
SwitchType(S, st) ==
  /\ Request /\ UNCHANGED <<owners, editing>>
  /\ Update({i \in S \cap Allowed(st) : hooks[i].key \notin Sink}, LAMBDA r : [r EXCEPT !.status = st])

\* EngineHookRuleTypeAddEndPoint, StrategysEndpoint: a type the system has not got.
UserType(t) ==
  /\ Request /\ UNCHANGED <<hooks, editing>>
  /\ owners[t] = "none" /\ owners' = [owners EXCEPT ![t] = "users"]

--------------------------------------------------------------------------------
(* The load.                                                                  *)

Deploy ==
  /\ release + 1 \in DOMAIN Releases
  /\ release' = release + 1
  /\ UNCHANGED <<loaded, hooks, owners, editing, loader, events>>

Continue(p, l) == loader' = [loader EXCEPT ![p] = l]
Load == UNCHANGED <<release, loaded, owners, editing, events>>

\* Rules of a type that only users have are skipped.
Bound(keys) == {key \in keys : owners[TypeOf[key]] # "users"}

(* validate_hook_strategy_update says no; the command line does not ask.  The
   types nobody has are created.                                              *)
Start(p) ==
  /\ p \notin Busy /\ loaded # release
  /\ events < MaxEvents /\ events' = events + 1
  /\ owners' = [t \in Type |-> IF owners[t] = "none" /\ \E key \in Releases[release] : TypeOf[key] = t
                               THEN "system" ELSE owners[t]]
  /\ LET keys == Bound(Releases[release])
     IN  loader' = [Disturbed EXCEPT ![p] = [at |-> "clear", todo |-> keys, keys |-> keys, alone |-> Busy = {},
                                             key |-> None, id |-> None, row |-> None]]
  /\ UNCHANGED <<release, loaded, hooks, editing>>

\* Rules of the system that no user marked are deleted ...
Clear(p) ==
  /\ loader[p].at = "clear" /\ Load
  /\ hooks' = [i \in DOMAIN hooks |-> IF i \in System /\ ~hooks[i].modified THEN None ELSE hooks[i]]
  /\ Continue(p, [loader[p] EXCEPT !.at = "demote"])

\* ... and the others become users' rules.
Demote(p) ==
  /\ loader[p].at = "demote" /\ Load
  /\ Update(System, LAMBDA r : [r EXCEPT !.system = FALSE])
  /\ Continue(p, [loader[p] EXCEPT !.at = "policy"])

(* A rule that has the key is looked for; .get() raises unless there is one
   row, of those that are not deleted when it is no sink.                     *)
Existing(key) == {i \in Of(key) : key \in Sink \/ Standing(i)}

Find(p) ==
  /\ loader[p].at = "policy" /\ Load /\ UNCHANGED hooks
  /\ \E key \in loader[p].todo :
       LET l == [loader[p] EXCEPT !.todo = @ \ {key}, !.key = key]
       IN  \/ Of(key) = {} /\ Continue(p, [l EXCEPT !.at = "create"])
           \/ Of(key) # {} /\ Cardinality(Existing(key)) # 1 /\ Continue(p, Failed)
           \/ \E i \in Existing(key) : /\ Existing(key) = {i}
                                      /\ Continue(p, [l EXCEPT !.at = "adopt", !.id = i, !.row = hooks[i]])

Create(p) ==
  /\ loader[p].at = "create" /\ Load
  /\ Insert(NewRule(loader[p].key, "release"))
  /\ Continue(p, [loader[p] EXCEPT !.at = "policy"])

\* Mutant: the rule is not marked.
Adopted_Unmarked(r) == [r EXCEPT !.system = TRUE]
Adopted(r) == [r EXCEPT !.system = TRUE, !.modified = TRUE]

\* The whole row that was read is saved.
Adopt(p) ==
  /\ loader[p].at = "adopt" /\ Load
  /\ hooks' = [hooks EXCEPT ![loader[p].id] = Adopted(loader[p].row)]
  /\ Continue(p, [loader[p] EXCEPT !.at = "policy"])

\* The files of now are recorded.
End(p) ==
  /\ loader[p].at = "policy" /\ loader[p].todo = {}
  /\ loaded' = release
  /\ Continue(p, Idle)
  /\ UNCHANGED <<release, hooks, owners, editing, events>>

\* The process is stopped.
Crash(p) == p \in Busy /\ Continue(p, Failed) /\ Load /\ UNCHANGED hooks

Next ==
  \/ \E u \in Editor :
       \/ \E key \in Key : Add(u, key) \/ \E i \in 1..MaxHooks : Modify(u, i, key)
       \/ \E i \in 1..MaxHooks, st \in Status : SwitchOne(u, i, st)
       \/ Save(u)
  \/ \E S \in SUBSET (1..MaxHooks) \ {{}}, st \in Status : Switch(S, st) \/ SwitchType(S, st)
  \/ \E t \in Type : UserType(t)
  \/ Deploy
  \/ \E p \in Process : \/ Start(p) \/ Clear(p) \/ Demote(p) \/ Find(p) \/ Create(p) \/ Adopt(p) \/ End(p) \/ Crash(p)

Spec == Init /\ [][Next]_vars

--------------------------------------------------------------------------------
(* However many loads run, end or are stopped, no load deletes a rule that a
   user added or edited, or changes the status of a rule, but to the one it
   read of a rule it adopts.                                                  *)
UserRulesStay ==
  loader' # loader /\ editing' = editing => \A i \in Stored :
    IF hooks'[i] = None THEN hooks[i].by = "release" /\ ~hooks[i].edited
    ELSE \/ hooks'[i].status = hooks[i].status
         \/ \E p \in Process : /\ loader[p].at = "adopt" /\ loader[p].id = i
                              /\ hooks'[i].status = loader[p].row.status

(* A load that ends, and met neither another one nor a user who saved a row that
   had changed since it was read, has put the rules of its release into the
   system's rules, but for the types that only users had, and only those; one
   that is deleted is a sink.                                                 *)
ReleaseInstalled ==
  \A p \in Process : loader[p].at = "policy" /\ loader[p].alone /\ loader'[p] = Idle =>
    /\ {hooks[i].key : i \in System} = loader[p].keys
    /\ \A i \in System : Standing(i) \/ hooks[i].key \in Sink

\* What loading promises in each step.
LoadStep == UserRulesStay /\ ReleaseInstalled
================================================================================
