---------------------------- MODULE StrategyRelease ----------------------------
(***************************************************************************)
(* The first part of load_hook_strategy: the strategies and hook types that *)
(* the rules of a release belong to.  What a load finds or creates for a     *)
(* type is where it puts the rules of that type (HookRelease).               *)
(***************************************************************************)
EXTENDS Naturals, Sequences, FiniteSets

CONSTANTS
  Type,      \* vul_type of a strategy, or value, type and language of a hook type
  Strategy,  \* those that are strategies
  Releases,  \* the types in the files of each release
  Process,   \* processes that load
  MaxRows,   \* bound: strategies and hook types created
  MaxLoads,  \* bound: loads
  None

VARIABLES
  release, \* files on disk
  rows,    \* iast_strategy and iast_hook_type: type, system_type and text
  loader,  \* what a process still has to look at, and what it found
  bound,   \* by the last load that met no other one: the row for each type
  loads

vars == <<release, rows, loader, bound, loads>>

Idle == [at |-> "idle"]
OwnText == 0 \* a text of users; the others are numbers of releases
Busy == {p \in Process : loader[p] # Idle}
Of(t, system) == {i \in DOMAIN rows : rows[i].type = t /\ rows[i].system = system}
Oldest(S) == CHOOSE i \in S : \A j \in S : i <= j

Init ==
  /\ release = 1 /\ rows = <<>> /\ loads = 0
  /\ loader = [p \in Process |-> Idle]
  /\ bound = [t \in Type |-> None]

Insert(t, system, text) ==
  Len(rows) < MaxRows /\ rows' = Append(rows, [type |-> t, system |-> system, text |-> text])

--------------------------------------------------------------------------------
(* StrategysEndpoint.post and EngineHookRuleTypeAddEndPoint, by users, who may
   edit any strategy.                                                         *)
UserAdds(t) == Insert(t, FALSE, OwnText) /\ UNCHANGED <<release, loader, bound, loads>>

UserEdits(i) ==
  /\ i \in DOMAIN rows /\ rows[i].type \in Strategy
  /\ rows' = [rows EXCEPT ![i].text = OwnText]
  /\ UNCHANGED <<release, loader, bound, loads>>

Deploy ==
  /\ release + 1 \in DOMAIN Releases
  /\ release' = release + 1
  /\ UNCHANGED <<rows, loader, bound, loads>>

--------------------------------------------------------------------------------

Start(p) ==
  /\ p \notin Busy /\ loads < MaxLoads
  /\ loads' = loads + 1
  /\ loader' = [q \in Process |->
       IF q = p THEN [at |-> "look", todo |-> Releases[release], release |-> release, type |-> None,
                      found |-> [t \in Type |-> None], alone |-> Busy = {}]
       ELSE IF q \in Busy THEN [loader[q] EXCEPT !.alone = FALSE] ELSE loader[q]]
  /\ UNCHANGED <<release, rows, bound>>

\* Mutant: the strategies of users are updated, too.
Updated_All(t, text) == [i \in DOMAIN rows |-> IF rows[i].type = t /\ t \in Strategy THEN [rows[i] EXCEPT !.text = text] ELSE rows[i]]
Updated(t, text) == [i \in DOMAIN rows |-> IF i \in Of(t, TRUE) /\ t \in Strategy THEN [rows[i] EXCEPT !.text = text] ELSE rows[i]]

(* A type of the system is not created again; the texts of a strategy are
   written anew.  A type that only users have is left to them, and with it the
   rules of the release for it.                                               *)
Look(p) ==
  /\ loader[p] # Idle /\ loader[p].at = "look"
  /\ \E t \in loader[p].todo :
       LET l == [loader[p] EXCEPT !.todo = @ \ {t}, !.type = t]
       IN CASE Of(t, TRUE) # {} ->
                 /\ rows' = Updated(t, loader[p].release)
                 /\ loader' = [loader EXCEPT ![p] = [l EXCEPT !.found[t] = Oldest(Of(t, TRUE))]]
            [] Of(t, TRUE) = {} /\ Of(t, FALSE) # {} -> loader' = [loader EXCEPT ![p] = l] /\ UNCHANGED rows
            [] OTHER -> loader' = [loader EXCEPT ![p] = [l EXCEPT !.at = "create"]] /\ UNCHANGED rows
  /\ UNCHANGED <<release, bound, loads>>

Create(p) ==
  /\ loader[p] # Idle /\ loader[p].at = "create"
  /\ Insert(loader[p].type, TRUE, loader[p].release)
  /\ loader' = [loader EXCEPT ![p] = [@ EXCEPT !.at = "look", !.found[loader[p].type] = Len(rows) + 1]]
  /\ UNCHANGED <<release, bound, loads>>

\* The rules follow, see HookRelease.
End(p) ==
  /\ loader[p] # Idle /\ loader[p].at = "look" /\ loader[p].todo = {}
  /\ bound' = IF loader[p].alone THEN [t \in Type |-> IF loader[p].found[t] # None THEN loader[p].found[t] ELSE bound[t]] ELSE bound
  /\ loader' = [loader EXCEPT ![p] = Idle]
  /\ UNCHANGED <<release, rows, loads>>

Crash(p) == p \in Busy /\ loader' = [loader EXCEPT ![p] = Idle] /\ UNCHANGED <<release, rows, bound, loads>>

Next ==
  \/ Deploy
  \/ \E t \in Type : UserAdds(t)
  \/ \E i \in 1..MaxRows : UserEdits(i)
  \/ \E p \in Process : Start(p) \/ Look(p) \/ Create(p) \/ End(p) \/ Crash(p)

Spec == Init /\ [][Next]_vars

--------------------------------------------------------------------------------
(* What users called a type, or wrote into a strategy of their own, no load
   changes; and once a load bound the rules of a type to a row, every later load
   that meets no other one binds them to that row, although loads that met, or
   were stopped, left further rows of the type behind.                        *)
BindingStep ==
  /\ loader' # loader => \A i \in DOMAIN rows : ~rows[i].system => rows'[i] = rows[i]
  /\ \A t \in Type : bound[t] # None => bound'[t] = bound[t]
================================================================================
