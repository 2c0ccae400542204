------------------------------ MODULE Intake_proofs ------------------------------
(* Proofs about Intake, for any number of agents, versions, pools and workers. *)
EXTENDS Intake, FiniteSetTheorems, TLAPS

--------------------------------------------------------------------------------
(* The inductive invariant.                                                   *)

\* Whoever scans, scans a pool that was sent and, without async_send, one that is stored:
\* its task comes back to the queue when it is killed.
WorkersBacked ==
  \A w \in Worker : worker[w] # Idle =>
    worker[w].pool \in 1..sent /\ (~async => worker[w].pool \in pools)

IInv == TypeOK /\ cover \subseteq served /\ ScanFindsPool /\ WorkersBacked

\* The empty tables and queues satisfy the invariant.
LEMMA InitIInv == Init => IInv
  BY IntakeAssumption DEF Init, IInv, TypeOK, ScanFindsPool, WorkersBacked, Idle, WorkerType

RoutesOK ==
  /\ async \in BOOLEAN
  /\ version \in [Agent -> Version] /\ agentAt \in [Agent -> Version \cup {Null}]
  /\ routeKeys \subseteq Agent \X Path /\ reported \subseteq Version \X Path
  /\ cover \subseteq reported /\ served \subseteq Version \X Path /\ gathers \subseteq Agent
  /\ oldRoute \in [Path -> Agent \cup {Null}]
  /\ moves \in 0..MaxMoves
  /\ cover \subseteq served

ScansOK ==
  /\ sent \in 0..MaxPools /\ crashes \in 0..MaxCrashes
  /\ uploading \cup logging \cup pools \cup tasks \cup dropped \subseteq 1..sent
  /\ worker \in [Worker -> WorkerType] /\ searched \subseteq (1..sent) \X Strategy
  /\ ScanFindsPool /\ WorkersBacked

\* The invariant has a part about routes and one about scans.
LEMMA Parts == IInv <=> RoutesOK /\ ScansOK
  BY DEF IInv, TypeOK, RoutesOK, ScansOK

\* The version an agent is taken to be of is a version, cached or not (get_agent).
LEMMA AgentVersionTyped ==
  ASSUME RoutesOK, NEW a \in Agent PROVE AgentVersion(a) \in Version
  BY DEF RoutesOK, AgentVersion

\* Each step of the agents' reports and of the caches keeps what is said of the routes:
\* a row is covered by the very upload that counts as its answer.
LEMMA RoutesStep == ASSUME IInv, [Next]_vars PROVE RoutesOK'
<1>. RoutesOK BY Parts
<1>. USE IntakeAssumption
<1>1. CASE UNCHANGED <<async, agents, routes>> BY <1>1 DEF RoutesOK, agents, routes
<1>2. ASSUME NEW a \in Agent, NEW p \in Path, Upload(a, p) PROVE RoutesOK'
  <2>1. AgentVersion(a) \in Version BY AgentVersionTyped
  <2>2. Covers(AgentVersion(a), p) \subseteq reported /\
        Covers(AgentVersion(a), p) \subseteq {<<AgentVersion(a), p>>}
    BY DEF Covers
  <2>3. cover' \subseteq cover \cup Covers(AgentVersion(a), p)
    BY <1>2 DEF Upload, AddNewApiRoute
  <2>. HIDE DEF AgentVersion
  <2>. QED BY <1>2, <2>1, <2>2, <2>3 DEF Upload, AddNewApiRoute, RoutesOK
<1>3. ASSUME NEW a \in Agent, ReportRoutes(a) PROVE RoutesOK'
  BY <1>3 DEF ReportRoutes, RoutesOK, agents
<1>4. ASSUME NEW a \in Agent, AgentExpires(a) PROVE RoutesOK'
  BY <1>4 DEF AgentExpires, RoutesOK, routes
<1>5. ASSUME NEW a \in Agent, NEW P \in SUBSET Path, ApiRouteGather(a, P) PROVE RoutesOK'
  BY <1>5 DEF ApiRouteGather, CoverAfterGather, RoutesOK, agents
<1>6. ASSUME NEW a \in Agent, NEW v \in Version, MoveAgent(a, v) PROVE RoutesOK'
  BY <1>6 DEF MoveAgent, RoutesOK, routes
<1>7. ASSUME NEW k \in routeKeys, RouteKeyExpires(k) PROVE RoutesOK'
  BY <1>7 DEF RouteKeyExpires, RoutesOK, agents
<1>8. ASSUME NEW n \in 1..MaxPools, Receive(n) \/ UploadFails(n) \/ TaskExpires(n)
      PROVE  RoutesOK'
  BY <1>1, <1>8 DEF Receive, SaveMethodCall, LogServiceSend, LogServiceStores, UploadFails,
                    TaskExpires
<1>9. ASSUME NEW w \in Worker, ScanPool(w) \/ Crash(w) PROVE RoutesOK'
  BY <1>1, <1>9 DEF ScanPool, FindPool, CheckResponse, CheckRaises, SearchVul,
                    SearchRaises, SearchEnds, Crash
<1>10. CASE UNCHANGED vars BY <1>1, <1>10 DEF vars
<1>. QED BY <1>2, <1>3, <1>4, <1>5, <1>6, <1>7, <1>8, <1>9, <1>10 DEF Next

\* A step that leaves the workers alone and takes no stored pool away leaves them backed.
LEMMA StillBacked ==
  ASSUME WorkersBacked, UNCHANGED <<worker, async>>, pools \subseteq pools', 1..sent \subseteq 1..sent'
  PROVE  WorkersBacked'
  BY DEF WorkersBacked, Idle

\* A worker that becomes idle, or goes on with the pool it has, leaves all backed.
LEMMA WorkerBacked ==
  ASSUME ScansOK, UNCHANGED <<async, sent, pools>>, NEW w \in Worker,
         NEW t \in WorkerType,
         worker' = [worker EXCEPT ![w] = t],
         t # Idle => t.pool \in 1..sent /\ (~async => t.pool \in pools)
  PROVE  /\ worker' \in [Worker -> WorkerType]
         /\ WorkersBacked'
  BY DEF WorkersBacked, ScansOK, Idle

\* Each step of the uploads, the queue and the workers keeps what is said of the scans.
LEMMA ScansStep == ASSUME IInv, [Next]_vars PROVE ScansOK'
<1>. ScansOK BY Parts
<1>. USE IntakeAssumption DEF ScansOK, ScanFindsPool
<1>1. CASE UNCHANGED <<async, stored, scans>>
  BY <1>1, StillBacked DEF stored, scans
<1>2. ASSUME NEW a \in Agent, NEW p \in Path, Upload(a, p) PROVE ScansOK'
  <2>1. sent' \in 0..MaxPools /\ sent <= sent' /\ uploading' \subseteq 1..sent'
    BY <1>2 DEF Upload
  <2>. QED BY <1>2, <2>1, StillBacked DEF Upload, scans
<1>3. ASSUME NEW a \in Agent,
             \/ ReportRoutes(a) \/ AgentExpires(a)
             \/ \E P \in SUBSET Path : ApiRouteGather(a, P)
             \/ \E v \in Version : MoveAgent(a, v)
      PROVE  ScansOK'
  BY <1>1, <1>3 DEF ReportRoutes, AgentExpires, ApiRouteGather, MoveAgent
<1>4. ASSUME NEW k, RouteKeyExpires(k) PROVE ScansOK' BY <1>1, <1>4 DEF RouteKeyExpires
<1>5. ASSUME NEW n \in 1..MaxPools, Receive(n) \/ UploadFails(n) \/ TaskExpires(n)
      PROVE  ScansOK'
  <2>1. CASE SaveMethodCall(n) BY <2>1, StillBacked DEF SaveMethodCall
  <2>2. CASE LogServiceSend(n) BY <2>2, StillBacked DEF LogServiceSend
  <2>3. CASE LogServiceStores(n) BY <2>3, StillBacked DEF LogServiceStores, scans
  <2>4. CASE UploadFails(n) BY <2>4, StillBacked DEF UploadFails
  <2>5. CASE TaskExpires(n) BY <2>5, StillBacked DEF TaskExpires, stored
  <2>. QED BY <1>5, <2>1, <2>2, <2>3, <2>4, <2>5 DEF Receive
<1>6. ASSUME NEW w \in Worker, ScanPool(w) \/ Crash(w) PROVE ScansOK'
  <2>0. worker[w] \in WorkerType /\ Idle \in WorkerType /\ Idle.step = "idle" /\ Idle.left = {}
    BY DEF Idle, WorkerType
  <2>1. ASSUME NEW n \in tasks, FindPool(w, n) PROVE ScansOK'
    <3>. DEFINE t == [pool |-> n, step |-> "check", left |-> {}]
    <3>1. t \in WorkerType /\ t.pool = n BY <2>1 DEF WorkerType
    <3>. HIDE DEF t
    <3>2. CASE n \in pools
      <4>1. worker' = [worker EXCEPT ![w] = t] /\ UNCHANGED dropped BY <2>1, <3>2 DEF FindPool, t
      <4>2. worker' \in [Worker -> WorkerType] /\ WorkersBacked'
        BY <2>1, <3>1, <3>2, <4>1, WorkerBacked DEF FindPool, stored
      <4>. QED BY <2>1, <4>1, <4>2 DEF FindPool, stored
    <3>3. CASE n \notin pools
      <4>1. UNCHANGED worker /\ dropped' = dropped \cup {n} BY <2>1, <3>3 DEF FindPool
      <4>. QED BY <2>1, <4>1, StillBacked DEF FindPool, stored
    <3>. QED BY <3>2, <3>3
  <2>2. ASSUME worker[w] # Idle, NEW t \in WorkerType, t = Idle \/ t.pool = worker[w].pool,
               worker' = [worker EXCEPT ![w] = t], UNCHANGED <<async, stored, tasks, dropped, crashes>>,
               searched' \subseteq (1..sent) \X Strategy
        PROVE  ScansOK'
    BY <2>2, WorkerBacked DEF stored, WorkersBacked
  <2>3. CASE CheckResponse(w)
    <3>. DEFINE t == [worker[w] EXCEPT !.step = "search", !.left = Sinks[worker[w].pool]]
    <3>1. worker[w] # Idle /\ worker[w].pool \in 1..MaxPools
      BY <2>0, <2>3 DEF CheckResponse, WorkersBacked
    <3>2. t \in WorkerType /\ t.pool = worker[w].pool BY <2>0, <3>1 DEF WorkerType
    <3>3. worker' = [worker EXCEPT ![w] = t] BY <2>3 DEF CheckResponse
    <3>. QED BY <2>2, <2>3, <3>1, <3>2, <3>3 DEF CheckResponse
  <2>4. CASE CheckRaises(w) BY <2>0, <2>2, <2>4 DEF CheckRaises
  <2>5. ASSUME NEW s \in Strategy, SearchVul(w, s) PROVE ScansOK'
    <3>. DEFINE t == [worker[w] EXCEPT !.left = @ \ {s}]
    <3>1. worker[w] # Idle /\ worker[w].pool \in 1..sent
      BY <2>0, <2>5 DEF SearchVul, WorkersBacked
    <3>2. t \in WorkerType /\ t.pool = worker[w].pool BY <2>0 DEF WorkerType
    <3>3. worker' = [worker EXCEPT ![w] = t] BY <2>5 DEF SearchVul
    <3>4. searched' \subseteq (1..sent) \X Strategy BY <2>5, <3>1 DEF SearchVul
    <3>. QED BY <2>2, <2>5, <3>1, <3>2, <3>3, <3>4 DEF SearchVul
  <2>6. ASSUME NEW s \in Strategy, SearchRaises(w, s) PROVE ScansOK'
    BY <2>0, <2>2, <2>6 DEF SearchRaises
  <2>7. CASE SearchEnds(w) BY <2>0, <2>2, <2>7 DEF SearchEnds
  <2>8. CASE Crash(w)
    <3>1. worker[w].pool \in 1..sent /\ (~async => worker[w].pool \in pools)
      BY <2>8 DEF Crash, WorkersBacked
    <3>2. worker' \in [Worker -> WorkerType] /\ WorkersBacked'
      BY <2>0, <2>8, WorkerBacked DEF Crash, stored
    <3>3. crashes' \in 0..MaxCrashes BY <2>8 DEF Crash
    <3>. QED BY <2>8, <3>1, <3>2, <3>3 DEF Crash, stored
  <2>. QED BY <1>6, <2>1, <2>3, <2>4, <2>5, <2>6, <2>7, <2>8 DEF ScanPool
<1>7. CASE UNCHANGED vars BY <1>1, <1>7 DEF vars
<1>. QED BY <1>2, <1>3, <1>4, <1>5, <1>6, <1>7 DEF Next

\* The invariant holds in every reachable state.
LEMMA IInvAlways == Spec => []IInv
<1>1. IInv /\ [Next]_vars => IInv' BY RoutesStep, ScansStep DEF IInv, TypeOK, RoutesOK, ScansOK
<1>. QED BY <1>1, InitIInv, PTL DEF Spec

--------------------------------------------------------------------------------
(* The lists users see.                                                       *)

\* The routes listed as covered in a version are those rows of it that are covered
\* (ApiRouteSearch with is_cover 1).
LEMMA CoveredRoutes ==
  ASSUME IInv, NEW v PROVE SearchRoutes(v, {TRUE}) = {r \in cover : r[1] = v}
<1>1. \A r : (r \in cover) \in {TRUE} <=> r \in cover BY Zenon
<1>2. cover \subseteq reported BY DEF IInv, TypeOK
<1>. QED BY <1>1, <1>2 DEF SearchRoutes

\* Nothing is listed as covered that did not answer, and without async_send no scan is
\* queued for a pool that is not stored, for any number of agents, moves, workers and
\* crashes (add_new_api_route, save_method_call, search_vul_from_method_pool).
THEOREM IntakeAlwaysSafe == Spec => []IntakeSafe
<1>1. IInv => IntakeSafe BY CoveredRoutes DEF IInv, IntakeSafe, CoverageEarned
<1>. QED BY <1>1, IInvAlways, PTL

\* No step takes the coverage of a row away.
LEMMA CoverGrows == ASSUME [Next]_vars PROVE cover \subseteq cover'
  BY DEF Next, vars, agents, routes, Upload, AddNewApiRoute, ReportRoutes, AgentExpires,
         ApiRouteGather, CoverAfterGather, MoveAgent, RouteKeyExpires, Receive,
         SaveMethodCall, LogServiceSend, LogServiceStores, UploadFails, TaskExpires,
         ScanPool, FindPool, CheckResponse, CheckRaises, SearchVul, SearchRaises, SearchEnds,
         Crash

\* The covered routes of a version never become fewer, whatever is reported, whoever
\* moves and whatever expires (ApiRouteCoverRate, api_route_v2_gather).
LEMMA CoveredNeverFewer ==
  ASSUME IInv, IInv', [Next]_vars, NEW v \in Version
  PROVE  /\ CoverRate(v).covered \in Nat /\ CoverRate(v)'.covered \in Nat
         /\ CoverRate(v).covered <= CoverRate(v)'.covered
<1>. DEFINE C == {r \in cover : r[1] = v}
            D == {r \in cover' : r[1] = v}
<1>1. SearchRoutes(v, {TRUE}) = C /\ SearchRoutes(v, {TRUE})' = D
  <2>1. \A r : (r \in cover') \in {TRUE} <=> r \in cover' BY Zenon
  <2>2. cover' \subseteq reported' BY DEF IInv, TypeOK
  <2>3. SearchRoutes(v, {TRUE})' = D BY <2>1, <2>2 DEF SearchRoutes
  <2>. QED BY <2>3, CoveredRoutes
<1>2. C \subseteq D BY CoverGrows
<1>3. IsFiniteSet({v} \X Path) BY IntakeAssumption, FS_Singleton, FS_Product
<1>4. D \subseteq {v} \X Path BY DEF IInv, TypeOK
<1>5. IsFiniteSet(D) /\ IsFiniteSet(C) BY <1>2, <1>3, <1>4, FS_Subset
<1>6. Cardinality(C) \in Nat /\ Cardinality(D) \in Nat /\ Cardinality(C) <= Cardinality(D)
  BY <1>2, <1>5, FS_Subset, FS_CardinalityType
<1>7. CoverRate(v).covered = Cardinality(C) /\ CoverRate(v)'.covered = Cardinality(D)
  BY <1>1 DEF CoverRate
<1>. QED BY <1>6, <1>7

\* Reporting routes again does not uncover them.
THEOREM CoverageAlwaysKept == Spec => CoverageKept
<1>1. IInv /\ IInv' /\ [Next]_vars =>
        [\A v \in Version : CoverRate(v).covered > CoverRate(v)'.covered
           => CoverRate(v).total < CoverRate(v)'.total]_vars
  BY CoveredNeverFewer
<1>. QED BY <1>1, IInvAlways, PTL DEF Spec, CoverageKept

================================================================================
