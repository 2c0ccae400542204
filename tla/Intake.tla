--------------------------------- MODULE Intake ---------------------------------
(***************************************************************************)
(* What an uploaded request sets going: the method pool that is stored and  *)
(* scanned by a worker, and the coverage of the routes an agent reported.   *)
(* Agents and keys of the route cache live in caches that expire.           *)
(***************************************************************************)
EXTENDS Naturals, FiniteSets

CONSTANTS
  Agent, Version, Path, Worker, Strategy,
  Malformed,  \* pools whose response may make check_response_header raise
  Sinks,      \* of a pool: the strategies whose sink method it holds
  Flows,      \* of a pool: those whose sink a source's data reaches in it
  Null,
  InitialVersion,
  MaxPools,   \* bound: uploads whose pool is followed
  MaxMoves,   \* bound: registrations of an agent for another version
  MaxCrashes  \* bound: workers killed

ASSUME IntakeAssumption ==
  /\ MaxPools \in Nat /\ MaxMoves \in Nat /\ MaxCrashes \in Nat
  /\ Malformed \subseteq 1..MaxPools /\ IsFiniteSet(Path)
  /\ Sinks \in [1..MaxPools -> SUBSET Strategy] /\ Flows \in [1..MaxPools -> SUBSET Strategy]
  /\ InitialVersion \in [Agent -> Version]

VARIABLES
  async,     \* async_send of the configuration
  version,   \* project_version_id of an agent
  agentAt,   \* cached get_agent, or Null
  routeKeys, \* cached api_route-<agent>-<path>
  reported,  \* rows of iast_api_route_v2
  cover,     \* those with is_cover 1
  oldRoute,  \* agent of the row of iast_api_route for a path, or Null
  served,    \* versions and paths that answered a request
  gathers,   \* queued tasks that store reported routes
  sent,      \* number of pools under way or stored
  uploading, \* pools that are stored next, and sent to the engine then
  logging,   \* pools the log service still writes
  pools,     \* rows of iast_agent_method_pool
  tasks,     \* queued scans
  worker,    \* what a worker scans, and the strategies it has left to search for
  searched,  \* pools and strategies whose flows were found
  dropped,   \* pools that were not stored, not sent, not found or discarded
  moves, crashes

routes == <<routeKeys, reported, cover, oldRoute, served, gathers>>
agents == <<version, agentAt, moves>>
scans  == <<tasks, worker, searched, dropped, crashes>>
stored == <<sent, uploading, logging, pools>>
vars == <<async, agents, routes, stored, scans>>

Idle == [pool |-> 0, step |-> "idle", left |-> {}]

Init ==
  /\ async \in BOOLEAN
  /\ version = InitialVersion /\ agentAt = [a \in Agent |-> Null]
  /\ routeKeys = {} /\ reported = {} /\ cover = {} /\ oldRoute = [p \in Path |-> Null]
  /\ served = {} /\ gathers = {}
  /\ sent = 0 /\ uploading = {} /\ logging = {} /\ pools = {}
  /\ tasks = {} /\ worker = [w \in Worker |-> Idle] /\ searched = {} /\ dropped = {}
  /\ moves = 0 /\ crashes = 0

--------------------------------------------------------------------------------
(* Reports of an agent.                                                       *)

(* get_agent, cached for 60 to 120 seconds.                                   *)
AgentVersion(a) == IF agentAt[a] = Null THEN version[a] ELSE agentAt[a]

Covers(v, p) == {<<v, p>>} \cap reported

(* add_new_api_route: the key is kept for five minutes, whether or not a row was
   updated.                                                                   *)
AddNewApiRoute(a, p) ==
  /\ routeKeys' = routeKeys \cup {<<a, p>>}
  /\ cover' = IF <<a, p>> \in routeKeys THEN cover ELSE cover \cup Covers(AgentVersion(a), p)

(* SaasMethodPoolHandler.save for a request that is no replay.                *)
Upload(a, p) ==
  /\ AddNewApiRoute(a, p)
  /\ agentAt' = [agentAt EXCEPT ![a] = AgentVersion(a)]
  /\ served' = served \cup {<<AgentVersion(a), p>>}
  /\ IF sent < MaxPools THEN sent' = sent + 1 /\ uploading' = uploading \cup {sent + 1}
                        ELSE UNCHANGED <<sent, uploading>>
  /\ UNCHANGED <<async, version, moves, reported, oldRoute, gathers, logging, pools, scans>>

\* Mutant: the pool is sent before it is stored.
SaveMethodCall_SendFirst(n) ==
  /\ n \in uploading /\ ~async
  /\ IF n \in tasks \cup dropped THEN uploading' = uploading \ {n} /\ pools' = pools \cup {n} /\ UNCHANGED tasks
                                 ELSE tasks' = tasks \cup {n} /\ UNCHANGED <<uploading, pools>>
  /\ UNCHANGED <<async, agents, routes, sent, logging, worker, searched, dropped, crashes>>

(* save_method_call, then send_to_engine.                                     *)
SaveMethodCall(n) ==
  /\ n \in uploading /\ ~async
  /\ uploading' = uploading \ {n}
  /\ pools' = pools \cup {n}
  /\ tasks' = tasks \cup {n}
  /\ UNCHANGED <<async, agents, routes, sent, logging, worker, searched, dropped, crashes>>

(* An insert that fails leaves update_record unbound, and a broker that fails
   is logged: either way nobody scans the pool.                               *)
UploadFails(n) ==
  /\ n \in uploading
  /\ uploading' = uploading \ {n}
  /\ \/ UNCHANGED pools
     \/ ~async /\ pools' = pools \cup {n}
  /\ dropped' = dropped \cup {n}
  /\ UNCHANGED <<async, agents, routes, sent, logging, tasks, worker, searched, crashes>>

(* LogService.send: the service stores the pool some time later, while the scan
   is delayed for two seconds.                                                *)
LogServiceSend(n) ==
  /\ n \in uploading /\ async
  /\ uploading' = uploading \ {n}
  /\ logging' = logging \cup {n}
  /\ tasks' = tasks \cup {n}
  /\ UNCHANGED <<async, agents, routes, sent, pools, worker, searched, dropped, crashes>>

LogServiceStores(n) ==
  /\ n \in logging
  /\ logging' = logging \ {n}
  /\ pools' = pools \cup {n}
  /\ UNCHANGED <<async, agents, routes, sent, uploading, scans>>

(* ApiRouteHandler and ApiRouteV2Handler queue what an agent reports.         *)
ReportRoutes(a) ==
  /\ gathers' = gathers \cup {a}
  /\ UNCHANGED <<async, agents, routeKeys, reported, cover, oldRoute, served, stored, scans>>

\* Mutant: the row that is written anew is not covered.
CoverAfterGather_Reset(R) == cover \ R
CoverAfterGather(R) == cover

(* api_route_v2_gather updates or creates a row for each path, and does not
   write is_cover.  api_route_gather keeps the first agent of a path, for the
   columns path and method are unique.                                        *)
ApiRouteGather(a, P) ==
  /\ a \in gathers
  /\ gathers' = gathers \ {a}
  /\ reported' = reported \cup ({version[a]} \X P)
  /\ cover' = CoverAfterGather({version[a]} \X P)
  /\ oldRoute' = [p \in Path |-> IF p \in P /\ oldRoute[p] = Null THEN a ELSE oldRoute[p]]
  /\ UNCHANGED <<async, agents, routeKeys, served, stored, scans>>

(* register_agent: the agent serves another version of the project.           *)
MoveAgent(a, v) ==
  /\ moves < MaxMoves /\ v # version[a]
  /\ version' = [version EXCEPT ![a] = v]
  /\ moves' = moves + 1
  /\ UNCHANGED <<async, agentAt, routes, stored, scans>>

AgentExpires(a) ==
  /\ agentAt[a] # Null
  /\ agentAt' = [agentAt EXCEPT ![a] = Null]
  /\ UNCHANGED <<async, version, moves, routes, stored, scans>>

\* Mutant: the key is kept without a time to live.
RouteKeyExpires_Never(k) == k \in routeKeys /\ UNCHANGED vars

RouteKeyExpires(k) ==
  /\ k \in routeKeys
  /\ routeKeys' = routeKeys \ {k}
  /\ UNCHANGED <<async, agents, reported, cover, oldRoute, served, gathers, stored, scans>>

--------------------------------------------------------------------------------
(* What users are shown: ApiRouteSearch with or without is_cover, and the counts
   of ApiRouteCoverRate.                                                      *)

SearchRoutes(v, is_cover) == {r \in reported : r[1] = v /\ (r \in cover) \in is_cover}
CoverRate(v) == [covered |-> Cardinality(SearchRoutes(v, {TRUE})), total |-> Cardinality(SearchRoutes(v, BOOLEAN))]

--------------------------------------------------------------------------------
(* search_vul_from_method_pool.                                               *)

(* A pool that is not found is dereferenced before it is tested: the exception
   ends the task, and its retry is never reached.                             *)
FindPool(w, n) ==
  /\ worker[w] = Idle /\ n \in tasks
  /\ tasks' = tasks \ {n}
  /\ IF n \in pools THEN worker' = [worker EXCEPT ![w] = [pool |-> n, step |-> "check", left |-> {}]] /\ UNCHANGED dropped
                    ELSE dropped' = dropped \cup {n} /\ UNCHANGED worker
  /\ UNCHANGED <<async, agents, routes, stored, searched, crashes>>

(* check_response_header and check_response_content; then the search, for the
   strategies whose sink method is in the pool.                               *)
CheckResponse(w) ==
  /\ worker[w].step = "check"
  /\ worker' = [worker EXCEPT ![w].step = "search", ![w].left = Sinks[worker[w].pool]]
  /\ UNCHANGED <<async, agents, routes, stored, tasks, searched, dropped, crashes>>

(* Of the failures of check_response_header only a bad status line is caught. *)
CheckRaises(w) ==
  /\ worker[w].step = "check" /\ worker[w].pool \in Malformed
  /\ worker' = [worker EXCEPT ![w] = Idle]
  /\ UNCHANGED <<async, agents, routes, stored, tasks, searched, dropped, crashes>>

(* search_and_save_vul for one of the strategies left, in no order the query
   states: the flows that are found are stored.                               *)
SearchVul(w, s) ==
  /\ s \in worker[w].left
  /\ s \in Flows[worker[w].pool]
  /\ searched' = searched \cup {<<worker[w].pool, s>>}
  /\ worker' = [worker EXCEPT ![w].left = @ \ {s}]
  /\ UNCHANGED <<async, agents, routes, stored, tasks, dropped, crashes>>

(* The sink is there and no source reaches it: results() is one result without
   a stack, stack[0] raises, and the strategies that are left are not searched. *)
SearchRaises(w, s) ==
  /\ s \in worker[w].left
  /\ s \notin Flows[worker[w].pool]
  /\ worker' = [worker EXCEPT ![w] = Idle]
  /\ UNCHANGED <<async, agents, routes, stored, tasks, searched, dropped, crashes>>

SearchEnds(w) ==
  /\ worker[w].step = "search" /\ worker[w].left = {}
  /\ worker' = [worker EXCEPT ![w] = Idle]
  /\ UNCHANGED <<async, agents, routes, stored, tasks, searched, dropped, crashes>>

(* A task that was in the queue for three hours is discarded.                 *)
TaskExpires(n) ==
  /\ n \in tasks
  /\ tasks' = tasks \ {n} /\ dropped' = dropped \cup {n}
  /\ UNCHANGED <<async, agents, routes, stored, worker, searched, crashes>>

\* Mutant: a task is acknowledged when it is received.
Crash_AckEarly(w) ==
  /\ worker[w] # Idle /\ crashes < MaxCrashes
  /\ worker' = [worker EXCEPT ![w] = Idle]
  /\ crashes' = crashes + 1
  /\ UNCHANGED <<async, agents, routes, stored, tasks, searched, dropped>>

(* A killed worker's task is delivered again.                                 *)
Crash(w) ==
  /\ worker[w] # Idle /\ crashes < MaxCrashes
  /\ tasks' = tasks \cup {worker[w].pool}
  /\ worker' = [worker EXCEPT ![w] = Idle]
  /\ crashes' = crashes + 1
  /\ UNCHANGED <<async, agents, routes, stored, searched, dropped>>

Receive(n) == SaveMethodCall(n) \/ LogServiceSend(n) \/ LogServiceStores(n)
ScanPool(w) ==
  \/ \E n \in tasks : FindPool(w, n)
  \/ CheckResponse(w) \/ CheckRaises(w)
  \/ \E s \in Strategy : SearchVul(w, s) \/ SearchRaises(w, s)
  \/ SearchEnds(w)

Next ==
  \/ \E a \in Agent :
       \/ \E p \in Path : Upload(a, p)
       \/ ReportRoutes(a) \/ AgentExpires(a)
       \/ \E P \in SUBSET Path \ {{}} : ApiRouteGather(a, P)
       \/ \E v \in Version : MoveAgent(a, v)
  \/ \E k \in routeKeys : RouteKeyExpires(k)
  \/ \E n \in 1..MaxPools : Receive(n) \/ UploadFails(n) \/ TaskExpires(n)
  \/ \E w \in Worker : ScanPool(w) \/ Crash(w)

Spec == Init /\ [][Next]_vars

(* Requests end, workers run, entries of the caches expire; an agent in use goes
   on uploading.                                                              *)
FairSpec ==
  /\ Spec
  /\ \A n \in 1..MaxPools : WF_vars(Receive(n))
  /\ \A w \in Worker : WF_vars(ScanPool(w))
  /\ \A a \in Agent : WF_vars(AgentExpires(a)) /\ \A p \in Path : WF_vars(Upload(a, p)) /\ WF_vars(RouteKeyExpires(<<a, p>>))

--------------------------------------------------------------------------------
WorkerType == [pool: 0..MaxPools, step: {"idle", "check", "search"}, left: SUBSET Strategy]

(* The tables, the caches and the queues keep their types.                    *)
TypeOK ==
  /\ async \in BOOLEAN
  /\ version \in [Agent -> Version] /\ agentAt \in [Agent -> Version \cup {Null}]
  /\ routeKeys \subseteq Agent \X Path /\ reported \subseteq Version \X Path
  /\ cover \subseteq reported /\ served \subseteq Version \X Path /\ gathers \subseteq Agent
  /\ oldRoute \in [Path -> Agent \cup {Null}]
  /\ sent \in 0..MaxPools /\ moves \in 0..MaxMoves /\ crashes \in 0..MaxCrashes
  /\ uploading \cup logging \cup pools \cup tasks \cup dropped \subseteq 1..sent
  /\ worker \in [Worker -> WorkerType] /\ searched \subseteq (1..sent) \X Strategy

\* A route is listed as covered in a version only when a request was taken there to be
\* of that version, also when agents move and their cached rows are stale.
CoverageEarned == \A v \in Version : SearchRoutes(v, {TRUE}) \subseteq served

\* The pool of every queued scan is stored, also that of a task delivered again.
ScanFindsPool == ~async => tasks \subseteq pools

(* Nothing is listed as covered that did not answer a request, and without
   async_send no scan starts for a pool that is not stored: whatever workers are
   killed, however agents move, and whatever the caches still hold.           *)
IntakeSafe == TypeOK /\ CoverageEarned /\ ScanFindsPool

(* Reporting the routes again does not take their coverage away: the rate shown
   for a version falls only when routes are new.                              *)
CoverageKept ==
  [][\A v \in Version : CoverRate(v).covered > CoverRate(v)'.covered => CoverRate(v).total < CoverRate(v)'.total]_vars

(* A reported route that an agent keeps serving is listed as covered in the end,
   though a request that came before the report, or while the agent's row was
   stale, keeps later requests from updating it until its key expires.        *)
RouteCovered ==
  \A a \in Agent, p \in Path : <>[](<<version[a], p>> \in SearchRoutes(version[a], BOOLEAN) => <<version[a], p>> \in SearchRoutes(version[a], {TRUE}))

\* Nothing in the pool makes a scan raise.
Searchable(n) == n \notin Malformed /\ Sinks[n] \subseteq Flows[n]

(* Every flow of a pool that was stored and sent is found, whatever workers are
   killed, unless the queue discards the pool, its response may make the checks
   raise, or it has a sink that nothing reaches: that one ends the search, and
   which flows were found before is left open.  With async_send a scan may find
   no pool, and is not tried again.                                           *)
SentScanned ==
  \A n \in 1..MaxPools :
    ~async /\ n \in tasks /\ Searchable(n) ~> {n} \X Sinks[n] \subseteq searched \/ n \in dropped
================================================================================
