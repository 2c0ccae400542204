------------------------------ MODULE ReplayQueue ------------------------------
(***************************************************************************)
(* The active verification of vulnerabilities (replay_type VUL_REPLAY).    *)
(*                                                                         *)
(* A scan worker that finds a vulnerability puts one row per payload in    *)
(* iast_replay_queue.  The periodic task vul_recheck turns PENDING rows    *)
(* into requests, heartbeats hand them to the agents of the project, an    *)
(* agent replays a request and uploads the method pool it recorded, and a  *)
(* second scan worker decides from that pool what becomes of the row and   *)
(* of the vulnerability.  Every SQL statement runs in autocommit, so each  *)
(* handler is split where another one may come in between.                 *)
(***************************************************************************)
EXTENDS Integers, FiniteSets

CONSTANTS
  Vul,          \* ids of iast_vulnerability
  Detector,     \* workers of search_vul_from_method_pool
  Agent,        \* agents of the one project, each with one heartbeat handler
  Uploader,     \* handlers of uploaded replays
  Replayer,     \* workers of search_vul_from_replay_method_pool
  PayloadCount, \* payloads configured for the strategy of a vulnerability
  NoUri,        \* vulnerabilities stored with an empty uri
  Unparsable,   \* vulnerabilities whose param_name is not JSON
  UserStatus,   \* statuses users choose in the UI
  Answer,       \* what the strategies hit in a replay may be
  Validation,   \* values the validation switch takes
  NoVul,        \* null relation_id
  RecheckBatch, \* rows one vul_recheck takes (100 in the code)
  MaxRows,      \* bound: rows ever created
  MaxCount,     \* bound: times a row is queued
  MaxInflight,  \* bound: requests of one row held by the agents
  MaxCrashes    \* bound: worker crashes

ASSUME ReplayAssumption ==
  /\ PayloadCount \in [Vul -> Nat]
  /\ NoUri \subseteq Vul /\ Unparsable \subseteq Vul
  /\ UserStatus \subseteq {"PENDING", "VERIFYING", "CONFIRMED", "SOLVED", "FIXED", "IGNORE"}
  /\ Answer \subseteq SUBSET {"own", "other"}
  /\ Validation \subseteq BOOLEAN /\ Validation # {}
  /\ NoVul \notin Vul /\ IsFiniteSet(Detector)
  /\ MaxRows \in Nat /\ MaxCount \in Nat \ {0} /\ MaxInflight \in Nat /\ MaxCrashes \in Nat
  /\ RecheckBatch \in Nat \ {0}

VARIABLES
  queue,      \* iast_replay_queue, by auto-increment id
  lastId,     \* last id given
  vul,        \* status of each vulnerability
  validation, \* vul_recheck_state: project switch combined with the global one
  task,       \* create_vul_recheck_task, one per detector
  recheck,    \* the running vul_recheck
  beat,       \* HeartBeatHandler.get_result, one per agent
  selected,   \* history: responses to an agent a row was chosen for since its WAITING,
              \* counted up to one more than ResentOnce allows
  inflight,   \* requests of a row the agents hold
  upload,     \* SaasMethodPoolHandler.save for a replay, one per handler
  pool,       \* IastAgentMethodPoolReplay: the replays stored for a row, by what they hit
  scans,      \* search_vul_from_replay_method_pool messages for the replays of a row
  scan,       \* the running ones, one per replayer
  logged,     \* verdicts in iast_vul_log
  crashes     \* worker crashes so far

queueVars == <<queue, lastId>>
agentVars == <<beat, selected, inflight>>
poolVars  == <<upload, pool>>
scanVars  == <<scans, scan, logged>>
vars == <<queue, lastId, vul, validation, task, recheck, beat, selected, inflight,
          upload, pool, scans, scan, logged, crashes>>

RowId == 1..MaxRows
Hit   == {"own", "other"}  \* the strategy of the row's vulnerability, or another one
State == {"NONE", "PENDING", "WAITING", "SOLVED", "SOLVING", "DISCARD"}
Result == {"NULL", "RECHECK_FALSE", "RECHECK_TRUE", "RECHECK_ERROR", "RECHECK_DISCARD"}
VulStatus == {"ABSENT", "DELETED", "PENDING", "VERIFYING", "CONFIRMED", "SOLVED", "FIXED", "IGNORE"}

Row == [vul: Vul \cup {NoVul}, state: State, result: Result, count: 0..MaxCount,
        payload: BOOLEAN, prepared: BOOLEAN, uri: BOOLEAN]
NoRow == [vul |-> NoVul, state |-> "NONE", result |-> "NULL", count |-> 0,
          payload |-> FALSE, prepared |-> FALSE, uri |-> FALSE]

\* A row as bulk_create or create inserts it: no result, no request yet.
PendingRow(v) == [vul |-> v, state |-> "PENDING", result |-> "NULL", count |-> 1,
                  payload |-> PayloadCount[v] > 0, prepared |-> FALSE, uri |-> FALSE]

\* Mutant: the row without payload is created next to the others.
BatchSize_Both(v) == PayloadCount[v] + 1

\* One row per payload, or a single one without payload.
BatchSize(v) == IF PayloadCount[v] = 0 THEN 1 ELSE PayloadCount[v]

RowsOf(v) == {r \in RowId : queue[r].vul = v}
InState(S) == {r \in RowId : queue[r].state \in S}
Exists(v) == vul[v] \notin {"ABSENT", "DELETED"}

\* UPDATE iast_replay_queue SET state WHERE id IN ids AND state IN from
Moved(ids, from, to) ==
  [r \in RowId |-> IF r \in ids /\ queue[r].state \in from
                     THEN [queue[r] EXCEPT !.state = to] ELSE queue[r]]

IdleTask    == [pc |-> "idle", vul |-> NoVul, row |-> 0, count |-> 0]
IdleRecheck == [pc |-> "idle", todo |-> {}, data |-> {}]
IdleBeat    == [pc |-> "idle", success |-> {}, failure |-> {}]
IdleUpload  == [pc |-> "idle", row |-> 0, hits |-> {}]
IdleScan    == [pc |-> "idle", row |-> 0, pool |-> {}, todo |-> {}, hit |-> "own"]

Init ==
  /\ queue = [r \in RowId |-> NoRow]
  /\ lastId = 0
  /\ vul = [v \in Vul |-> "ABSENT"]
  /\ validation \in Validation
  /\ task = [d \in Detector |-> IdleTask]
  /\ recheck = IdleRecheck
  /\ beat = [a \in Agent |-> IdleBeat]
  /\ selected = [a \in Agent |-> [r \in RowId |-> 0]]
  /\ inflight = [r \in RowId |-> 0]
  /\ upload = [u \in Uploader |-> IdleUpload]
  /\ pool = [r \in RowId |-> {}]
  /\ scans = [r \in RowId |-> [p \in SUBSET Hit |-> 0]]
  /\ scan = [w \in Replayer |-> IdleScan]
  /\ logged = [v \in Vul |-> {}]
  /\ crashes = 0

--------------------------------------------------------------------------------
(* handler_vul for a normal method pool, then create_vul_recheck_task.       *)

(* A scan worker stores v (save_vul drops ignored ones), reads the switch and
   the first row of v.  The order of the rows of one replay_type is not
   defined, so "first" is any of them.                                       *)
DetectVul(d, v) ==
  /\ task[d].pc = "idle"
  /\ vul[v] \notin {"IGNORE", "DELETED"}
  /\ vul' = [vul EXCEPT ![v] = IF @ = "ABSENT" THEN "PENDING" ELSE @]
  /\ \/ /\ ~validation
        /\ UNCHANGED task
     \/ /\ validation
        /\ \E r \in RowsOf(v) :
             \/ /\ queue[r].state \in {"PENDING", "WAITING", "SOLVING"}
                /\ UNCHANGED task
             \/ /\ queue[r].state \notin {"PENDING", "WAITING", "SOLVING"}
                /\ queue[r].count < MaxCount
                /\ task' = [task EXCEPT ![d] =
                     [pc |-> "requeue", vul |-> v, row |-> r, count |-> queue[r].count]]
     \/ /\ validation
        /\ RowsOf(v) = {}
        /\ task' = [task EXCEPT ![d] = [pc |-> "create", vul |-> v, row |-> 0, count |-> 0]]
  /\ UNCHANGED <<queueVars, validation, recheck, agentVars, poolVars, scanVars, crashes>>

(* The row read before goes back to PENDING, whatever it has become since;
   result, verify_time and the old request stay in it.                       *)
RequeueRow(d) ==
  /\ task[d].pc = "requeue"
  /\ queue' = [queue EXCEPT ![task[d].row].state = "PENDING",
                            ![task[d].row].count = task[d].count + 1]
  /\ task' = [task EXCEPT ![d] = IdleTask]
  /\ UNCHANGED <<lastId, vul, validation, recheck, agentVars, poolVars, scanVars, crashes>>

(* A vulnerability deleted since fails the task (vul.strategy_id on None).   *)
CreateRows(d) ==
  LET v == task[d].vul
      n == BatchSize(v)
  IN  /\ task[d].pc = "create"
      /\ \/ /\ ~Exists(v)
            /\ UNCHANGED queueVars
         \/ /\ Exists(v)
            /\ lastId + n <= MaxRows
            /\ lastId' = lastId + n
            /\ queue' = [r \in RowId |-> IF r \in (lastId + 1)..(lastId + n)
                                           THEN PendingRow(v) ELSE queue[r]]
      /\ task' = [task EXCEPT ![d] = IdleTask]
      /\ UNCHANGED <<vul, validation, recheck, agentVars, poolVars, scanVars, crashes>>

--------------------------------------------------------------------------------
(* The periodic task vul_recheck.                                            *)

(* The newest RecheckBatch PENDING rows and the data of their vulnerabilities. *)
FetchPending ==
  LET pending == InState({"PENDING"})
      newest  == {r \in pending : Cardinality({q \in pending : q > r}) < RecheckBatch}
  IN  /\ recheck.pc = "idle"
      /\ pending # {}
      /\ recheck' = [pc |-> "rows", todo |-> newest,
                     data |-> {v \in Vul : Exists(v) /\ \E r \in newest : queue[r].vul = v}]
      /\ UNCHANGED <<queueVars, vul, validation, task, agentVars, poolVars, scanVars, crashes>>

\* The rows are walked from the newest to the oldest.
NextRow(r) == recheck.pc = "rows" /\ r \in recheck.todo /\ \A q \in recheck.todo : q <= r

RecheckRest(r) == IF recheck.todo = {r} THEN IdleRecheck
                  ELSE [recheck EXCEPT !.pc = "rows", !.todo = @ \ {r}]

(* replay.payload.value on a row without payload raises and ends the task:
   the rows after it are not looked at.                                      *)
RecheckRaises(r) ==
  /\ NextRow(r)
  /\ ~queue[r].payload
  /\ recheck' = IdleRecheck
  /\ UNCHANGED <<queueVars, vul, validation, task, agentVars, poolVars, scanVars, crashes>>

\* Mutant: replay_failed leaves the state out of update_fields.
RecheckFails_Unsaved(r) ==
  /\ NextRow(r)
  /\ queue[r].payload
  /\ queue[r].vul \notin recheck.data
  /\ queue' = [queue EXCEPT ![r].result = "RECHECK_ERROR"]
  /\ recheck' = RecheckRest(r)
  /\ UNCHANGED <<lastId, vul, validation, task, agentVars, poolVars, scanVars, crashes>>

(* Replay.replay_failed: the vulnerability was not found.                    *)
RecheckFails(r) ==
  /\ NextRow(r)
  /\ queue[r].payload
  /\ queue[r].vul \notin recheck.data
  /\ queue' = [queue EXCEPT ![r].state = "SOLVED", ![r].result = "RECHECK_ERROR"]
  /\ recheck' = RecheckRest(r)
  /\ UNCHANGED <<lastId, vul, validation, task, agentVars, poolVars, scanVars, crashes>>

(* Replay.replay_failed for a param_name that does not parse: the row is saved as
   failed, and the loop goes on to build its request all the same.           *)
RecheckUnparsable(r) ==
  /\ NextRow(r)
  /\ queue[r].payload
  /\ queue[r].vul \in recheck.data \cap Unparsable
  /\ queue' = [queue EXCEPT ![r].state = "SOLVED", ![r].result = "RECHECK_ERROR"]
  /\ recheck' = [recheck EXCEPT !.pc = "failed"]
  /\ UNCHANGED <<lastId, vul, validation, task, agentVars, poolVars, scanVars, crashes>>

(* The request is built and saved with state WAITING, whatever became of the row
   since the batch was read.                                                 *)
RecheckPrepares(r) ==
  /\ IF queue[r].vul \in Unparsable
       THEN recheck.pc = "failed" /\ r \in recheck.todo /\ \A q \in recheck.todo : q <= r
       ELSE NextRow(r) /\ queue[r].payload /\ queue[r].vul \in recheck.data
  /\ queue' = [queue EXCEPT ![r].state = "WAITING",
                            ![r].prepared = TRUE,
                            ![r].uri = queue[r].vul \notin NoUri]
  /\ selected' = [a \in Agent |-> [selected[a] EXCEPT ![r] = 0]]
  /\ recheck' = RecheckRest(r)
  /\ UNCHANGED <<lastId, vul, validation, task, beat, inflight, poolVars, scanVars, crashes>>

VulRecheck ==
  \/ FetchPending
  \/ \E r \in RowId : RecheckRaises(r) \/ RecheckFails(r) \/ RecheckUnparsable(r) \/ RecheckPrepares(r)

--------------------------------------------------------------------------------
(* HeartBeatHandler.get_result.                                              *)

HeartbeatQuery(a) ==
  LET ready   == InState({"WAITING", "SOLVING"})
      success == {r \in ready : queue[r].uri}
  IN  /\ beat[a].pc = "idle"
      /\ validation
      /\ ready # {}
      /\ beat' = [beat EXCEPT ![a] = [pc |-> "settle", success |-> success,
                                      failure |-> ready \ success]]
      /\ selected' = [selected EXCEPT ![a] =
                        [r \in RowId |-> IF r \in success /\ @[r] < 3 + MaxCrashes
                                          THEN @[r] + 1 ELSE @[r]]]
      /\ UNCHANGED <<queueVars, vul, validation, task, recheck, inflight, poolVars, scanVars, crashes>>

\* Mutant: rows handed out a second time stay SOLVING.
HeartbeatSettle_Forgets(a) ==
  /\ beat[a].pc = "settle"
  /\ beat' = [beat EXCEPT ![a].pc = "issue"]
  /\ UNCHANGED <<queueVars, vul, validation, task, recheck, selected, inflight, poolVars, scanVars, crashes>>

(* What was handed out before and is handed out again is taken as solved.    *)
HeartbeatSettle(a) ==
  /\ beat[a].pc = "settle"
  /\ queue' = Moved(beat[a].success, {"SOLVING"}, "SOLVED")
  /\ beat' = [beat EXCEPT ![a].pc = "issue"]
  /\ UNCHANGED <<lastId, vul, validation, task, recheck, selected, inflight, poolVars, scanVars, crashes>>

HeartbeatIssue(a) ==
  /\ beat[a].pc = "issue"
  /\ queue' = Moved(beat[a].success, {"WAITING"}, "SOLVING")
  /\ beat' = [beat EXCEPT ![a].pc = "reply"]
  /\ UNCHANGED <<lastId, vul, validation, task, recheck, selected, inflight, poolVars, scanVars, crashes>>

(* Rows without uri are closed; the response reaches the agent or is lost (a
   request beyond MaxInflight counts as lost).                               *)
HeartbeatReply(a) ==
  /\ beat[a].pc = "reply"
  /\ queue' = Moved(beat[a].failure, State, "SOLVED")
  /\ beat' = [beat EXCEPT ![a] = IdleBeat]
  /\ \/ UNCHANGED inflight
     \/ inflight' = [r \in RowId |-> IF r \in beat[a].success /\ inflight[r] < MaxInflight
                                       THEN inflight[r] + 1 ELSE inflight[r]]
  /\ UNCHANGED <<lastId, vul, validation, task, recheck, selected, poolVars, scanVars, crashes>>

Heartbeat(a) == HeartbeatQuery(a) \/ HeartbeatSettle(a) \/ HeartbeatIssue(a) \/ HeartbeatReply(a)

--------------------------------------------------------------------------------
(* SaasMethodPoolHandler.save for a replayed request, then the replay scan.  *)

(* An agent uploads the method pool of one replay.  The handler looks for a replay
   stored for the row; one that is there is kept (the update goes to a dict) and
   is the one scanned.                                                       *)
StartUpload(u, r, hits) ==
  /\ upload[u].pc = "idle"
  /\ inflight[r] > 0
  /\ inflight' = [inflight EXCEPT ![r] = @ - 1]
  /\ \/ /\ pool[r] = {}
        /\ upload' = [upload EXCEPT ![u] = [pc |-> "store", row |-> r, hits |-> hits]]
     \/ \E p \in pool[r] :
          upload' = [upload EXCEPT ![u] = [pc |-> "settle", row |-> r, hits |-> p]]
  /\ UNCHANGED <<queueVars, vul, validation, task, recheck, beat, selected, pool, scanVars, crashes>>

(* The replay is stored, next to one that was stored since the look.         *)
StoreReplay(u) ==
  /\ upload[u].pc = "store"
  /\ pool' = [pool EXCEPT ![upload[u].row] = @ \cup {upload[u].hits}]
  /\ upload' = [upload EXCEPT ![u].pc = "settle"]
  /\ UNCHANGED <<queueVars, vul, validation, task, recheck, agentVars, scanVars, crashes>>

(* The row is SOLVED whatever it was.                                        *)
SettleReplay(u) ==
  /\ upload[u].pc = "settle"
  /\ queue' = [queue EXCEPT ![upload[u].row].state = "SOLVED"]
  /\ upload' = [upload EXCEPT ![u].pc = "send"]
  /\ UNCHANGED <<lastId, vul, validation, task, recheck, agentVars, pool, scanVars, crashes>>

SendReplay(u) ==
  /\ upload[u].pc = "send"
  /\ scans' = [scans EXCEPT ![upload[u].row][upload[u].hits] = @ + 1]
  /\ upload' = [upload EXCEPT ![u] = IdleUpload]
  /\ UNCHANGED <<queueVars, vul, validation, task, recheck, agentVars, pool, scan, logged, crashes>>

(* An agent drops a request, or its upload is lost.                          *)
LoseReplay(r) ==
  /\ inflight[r] > 0
  /\ inflight' = [inflight EXCEPT ![r] = @ - 1]
  /\ UNCHANGED <<queueVars, vul, validation, task, recheck, beat, selected, poolVars, scanVars, crashes>>

\* A scan of the replay p of row r, from its first strategy.
ScanOf(r, p) == [pc |-> "strategy", row |-> r, pool |-> p, todo |-> p, hit |-> "own"]

\* Mutant: a message is scanned a second time.
StartScan_Again(w, r, p) ==
  /\ scan[w].pc = "idle"
  /\ scans' = [scans EXCEPT ![r][p] = @ - 1]
  /\ scan' = [scan EXCEPT ![w] = IF p \in pool[r] /\ p # {} THEN ScanOf(r, p) ELSE IdleScan]
  /\ UNCHANGED <<queueVars, vul, validation, task, recheck, agentVars, poolVars, logged, crashes>>

(* search_vul_from_replay_method_pool loads the stored replay.               *)
StartScan(w, r, p) ==
  /\ scan[w].pc = "idle"
  /\ scans[r][p] > 0
  /\ scans' = [scans EXCEPT ![r][p] = @ - 1]
  /\ scan' = [scan EXCEPT ![w] = IF p \in pool[r] /\ p # {} THEN ScanOf(r, p) ELSE IdleScan]
  /\ UNCHANGED <<queueVars, vul, validation, task, recheck, agentVars, poolVars, logged, crashes>>

ScanRest(w) == IF scan[w].todo = {scan[w].hit} THEN IdleScan
               ELSE [scan[w] EXCEPT !.pc = "strategy", !.todo = @ \ {scan[w].hit}]

(* search_and_save_vul: a strategy that hits marks the row RECHECK_FALSE and
   logs the vulnerability as ignored before vul_filter and handler_vul run.  *)
ScanMarks(w, h) ==
  LET r == scan[w].row
      v == queue[r].vul
  IN  /\ scan[w].pc = "strategy"
      /\ h \in scan[w].todo
      /\ \/ /\ ~Exists(v)
            /\ scan' = [scan EXCEPT ![w] = IdleScan]
            /\ UNCHANGED <<queue, logged>>
         \/ /\ Exists(v)
            /\ logged' = [logged EXCEPT ![v] = @ \cup {"IGNORED"}]
            /\ queue' = [queue EXCEPT ![r].state = "SOLVED", ![r].result = "RECHECK_FALSE"]
            /\ scan' = [scan EXCEPT ![w].pc = "filter", ![w].hit = h]
      /\ UNCHANGED <<lastId, vul, validation, task, recheck, agentVars, poolVars, scans, crashes>>

(* A strategy whose sink is in the pool without a flow to it raises, which ends the
   scan: the strategies behind it are not searched.                          *)
ScanRaises(w) ==
  /\ scan[w].pc = "strategy"
  /\ scan' = [scan EXCEPT ![w] = IdleScan]
  /\ UNCHANGED <<queueVars, vul, validation, task, recheck, agentVars, poolVars, scans, logged, crashes>>

(* vul_filter rejects the hit; the scan goes on with the next strategy.      *)
ScanFilters(w) ==
  /\ scan[w].pc = "filter"
  /\ scan' = [scan EXCEPT ![w] = ScanRest(w)]
  /\ UNCHANGED <<queueVars, vul, validation, task, recheck, agentVars, poolVars, scans, logged, crashes>>

\* Mutant: the hit of any strategy confirms the vulnerability.
ScanHandles_AnyStrategy(w) ==
  LET v == queue[scan[w].row].vul
  IN  /\ scan[w].pc = "filter"
      /\ Exists(v) /\ vul[v] # "CONFIRMED"
      /\ vul' = [vul EXCEPT ![v] = "CONFIRMED"]
      /\ scan' = [scan EXCEPT ![w].pc = "accept"]
      /\ UNCHANGED <<queueVars, validation, task, recheck, agentVars, poolVars, scans, logged, crashes>>

(* handler_replay_vul.  The lookup leaves out CONFIRMED only, and finding
   nothing raises; the hit of another strategy ends in save_vul, which raises
   on a replay pool (no req_header_fs).  Either way the scan task is over.   *)
ScanHandles(w) ==
  LET v == queue[scan[w].row].vul
  IN  /\ scan[w].pc = "filter"
      /\ \/ /\ Exists(v) /\ vul[v] # "CONFIRMED" /\ scan[w].hit = "own"
            /\ vul' = [vul EXCEPT ![v] = "CONFIRMED"]
            /\ scan' = [scan EXCEPT ![w].pc = "accept"]
         \/ /\ ~Exists(v) \/ vul[v] = "CONFIRMED" \/ scan[w].hit = "other"
            /\ scan' = [scan EXCEPT ![w] = IdleScan]
            /\ UNCHANGED vul
      /\ UNCHANGED <<queueVars, validation, task, recheck, agentVars, poolVars, scans, logged, crashes>>

ScanAccepts(w) ==
  /\ scan[w].pc = "accept"
  /\ queue' = [queue EXCEPT ![scan[w].row].state = "SOLVED",
                            ![scan[w].row].result = "RECHECK_TRUE"]
  /\ scan' = [scan EXCEPT ![w].pc = "discard"]
  /\ UNCHANGED <<lastId, vul, validation, task, recheck, agentVars, poolVars, scans, logged, crashes>>

\* Mutant: every row of the vulnerability is discarded.
ScanDiscards_All(w) ==
  LET v == queue[scan[w].row].vul
  IN  /\ scan[w].pc = "discard"
      /\ queue' = [r \in RowId |-> IF r \in RowsOf(v)
                     THEN [queue[r] EXCEPT !.state = "DISCARD", !.result = "RECHECK_DISCARD"]
                     ELSE queue[r]]
      /\ logged' = [logged EXCEPT ![v] = @ \cup {"CONFIRMED"}]
      /\ scan' = [scan EXCEPT ![w] = ScanRest(w)]
      /\ UNCHANGED <<lastId, vul, validation, task, recheck, agentVars, poolVars, scans, crashes>>

(* The other rows of the vulnerability that are not SOLVED are discarded.    *)
ScanDiscards(w) ==
  LET v == queue[scan[w].row].vul
      others == {r \in RowsOf(v) : r # scan[w].row /\ queue[r].state # "SOLVED"}
  IN  /\ scan[w].pc = "discard"
      /\ queue' = [r \in RowId |-> IF r \in others
                     THEN [queue[r] EXCEPT !.state = "DISCARD", !.result = "RECHECK_DISCARD"]
                     ELSE queue[r]]
      /\ logged' = [logged EXCEPT ![v] = @ \cup {"CONFIRMED"}]
      /\ scan' = [scan EXCEPT ![w] = ScanRest(w)]
      /\ UNCHANGED <<lastId, vul, validation, task, recheck, agentVars, poolVars, scans, crashes>>

ReplayScan(w) ==
  \/ \E r \in RowId, p \in SUBSET Hit : StartScan(w, r, p)
  \/ \E h \in Hit : ScanMarks(w, h)
  \/ ScanRaises(w) \/ ScanFilters(w) \/ ScanHandles(w) \/ ScanAccepts(w) \/ ScanDiscards(w)

--------------------------------------------------------------------------------
(* Users, and crashes.                                                       *)

ChangeStatus(v, s) ==
  /\ Exists(v) /\ vul[v] # s
  /\ vul' = [vul EXCEPT ![v] = s]
  /\ UNCHANGED <<queueVars, validation, task, recheck, agentVars, poolVars, scanVars, crashes>>

DeleteVul(v) ==
  /\ Exists(v)
  /\ vul' = [vul EXCEPT ![v] = "DELETED"]
  /\ UNCHANGED <<queueVars, validation, task, recheck, agentVars, poolVars, scanVars, crashes>>

SetValidation(b) ==
  /\ b # validation
  /\ validation' = b
  /\ UNCHANGED <<queueVars, vul, task, recheck, agentVars, poolVars, scanVars, crashes>>

(* A killed web worker forgets its heartbeat or upload; a killed celery worker
   leaves the message of its task to be delivered again (task_acks_late).    *)
Crash ==
  /\ crashes < MaxCrashes
  /\ crashes' = crashes + 1
  /\ \/ /\ \E a \in Agent : beat[a].pc # "idle" /\ beat' = [beat EXCEPT ![a] = IdleBeat]
        /\ UNCHANGED <<task, recheck, upload, scans, scan>>
     \/ /\ \E u \in Uploader : upload[u].pc # "idle" /\ upload' = [upload EXCEPT ![u] = IdleUpload]
        /\ UNCHANGED <<task, recheck, beat, scans, scan>>
     \/ /\ \E d \in Detector : task[d].pc # "idle" /\ task' = [task EXCEPT ![d] = IdleTask]
        /\ UNCHANGED <<recheck, beat, upload, scans, scan>>
     \/ /\ recheck.pc # "idle"
        /\ recheck' = IdleRecheck
        /\ UNCHANGED <<task, beat, upload, scans, scan>>
     \/ /\ \E w \in Replayer :
             /\ scan[w].pc # "idle"
             /\ scans' = [scans EXCEPT ![scan[w].row][scan[w].pool] = @ + 1]
             /\ scan' = [scan EXCEPT ![w] = IdleScan]
        /\ UNCHANGED <<task, beat, recheck, upload>>
  /\ UNCHANGED <<queueVars, vul, validation, selected, inflight, pool, logged>>

Next ==
  \/ \E d \in Detector : (\E v \in Vul : DetectVul(d, v)) \/ RequeueRow(d) \/ CreateRows(d)
  \/ VulRecheck
  \/ \E a \in Agent : Heartbeat(a)
  \/ \E r \in RowId : LoseReplay(r) \/ \E u \in Uploader, hits \in Answer : StartUpload(u, r, hits)
  \/ \E u \in Uploader : StoreReplay(u) \/ SettleReplay(u) \/ SendReplay(u)
  \/ \E w \in Replayer : ReplayScan(w)
  \/ \E v \in Vul : DeleteVul(v) \/ \E s \in UserStatus : ChangeStatus(v, s)
  \/ \E b \in Validation : SetValidation(b)
  \/ Crash

Spec == Init /\ [][Next]_vars

(* vul_recheck is a periodic task and agents send a heartbeat every minute:
   each keeps running.  Nothing makes an agent upload, or a user act.        *)
FairSpec == Spec /\ WF_vars(VulRecheck) /\ \A a \in Agent : WF_vars(Heartbeat(a))

--------------------------------------------------------------------------------
(* Properties.                                                               *)

TaskType == {t \in [pc: {"idle", "requeue", "create"}, vul: Vul \cup {NoVul},
                    row: 0..MaxRows, count: 0..(MaxCount - 1)] : t.pc # "idle" => t.vul \in Vul}
RecheckType == [pc: {"idle", "rows", "failed"}, todo: SUBSET RowId, data: SUBSET Vul]
BeatType == [pc: {"idle", "settle", "issue", "reply"},
             success: SUBSET RowId, failure: SUBSET RowId]
UploadType == [pc: {"idle", "store", "settle", "send"}, row: 0..MaxRows, hits: SUBSET Hit]
ScanType == [pc: {"idle", "strategy", "filter", "accept", "discard"},
             row: 0..MaxRows, pool: SUBSET Hit, todo: SUBSET Hit, hit: Hit]

\* The tables hold what their columns may hold, and every worker is in one of its steps.
TypeOK ==
  /\ queue \in [RowId -> Row]
  /\ lastId \in 0..MaxRows
  /\ vul \in [Vul -> VulStatus]
  /\ validation \in BOOLEAN
  /\ task \in [Detector -> TaskType]
  /\ recheck \in RecheckType
  /\ beat \in [Agent -> BeatType]
  /\ selected \in [Agent -> [RowId -> Nat]]
  /\ inflight \in [RowId -> 0..MaxInflight]
  /\ upload \in [Uploader -> UploadType]
  /\ pool \in [RowId -> SUBSET SUBSET Hit]
  /\ scans \in [RowId -> [SUBSET Hit -> Nat]]
  /\ scan \in [Replayer -> ScanType]
  /\ logged \in [Vul -> SUBSET {"IGNORED", "CONFIRMED"}]
  /\ crashes \in 0..MaxCrashes

\* What the replays stored for row r hit.
Hits(r) == UNION pool[r]

\* A stored replay of row r triggers the strategy of its vulnerability again.
Reproduced(r) == "own" \in Hits(r)

\* What a worker remembers is still there: rows are numbered without gaps and never
\* change their vulnerability, requests, replays and messages belong to rows, a running
\* replay scan works on a replay stored for its row and accepts it only for a hit of
\* the own strategy, and vul_recheck misses the data only of deleted vulnerabilities.
RowsKnown ==
  \A r \in RowId :
    /\ r > lastId => /\ queue[r] = NoRow /\ pool[r] = {} /\ inflight[r] = 0
                     /\ \A p \in SUBSET Hit : scans[r][p] = 0
    /\ r <= lastId => queue[r].vul \in Vul /\ vul[queue[r].vul] # "ABSENT"

TaskKnown == \A d \in Detector : task[d].pc = "requeue" => task[d].row \in 1..lastId

RecheckKnown ==
  \A r \in recheck.todo :
    r <= lastId /\ (queue[r].vul \in recheck.data \/ ~Exists(queue[r].vul))

BeatKnown == \A a \in Agent : \A r \in beat[a].success \cup beat[a].failure : r <= lastId

UploadKnown ==
  \A u \in Uploader :
    /\ upload[u].pc # "idle" => upload[u].row \in 1..lastId
    /\ upload[u].pc \in {"settle", "send"} => upload[u].hits \in pool[upload[u].row]

ScanKnown ==
  \A w \in Replayer : LET s == scan[w] IN
    /\ s.pc # "idle" => /\ s.row \in 1..lastId
                        /\ s.pool \in pool[s.row] /\ s.pool # {}
                        /\ s.todo \subseteq s.pool
    /\ s.pc \in {"filter", "accept", "discard"} => s.hit \in s.pool
    /\ s.pc \in {"accept", "discard"} => s.hit = "own"

WorkBacked == RowsKnown /\ TaskKnown /\ RecheckKnown /\ BeatKnown /\ UploadKnown /\ ScanKnown

\* The verdict of a row has its evidence: RECHECK_TRUE a replay of that very row that
\* hits the vulnerability's strategy, RECHECK_FALSE a replay that hits something,
\* RECHECK_DISCARD another row of the vulnerability that reproduced it, RECHECK_ERROR
\* a vulnerability that is gone or has an unreadable param_name.
Justified(r) ==
  /\ queue[r].result = "RECHECK_TRUE" => Reproduced(r)
  /\ queue[r].result = "RECHECK_FALSE" => Hits(r) # {}
  /\ queue[r].result = "RECHECK_DISCARD" =>
       \E q \in RowsOf(queue[r].vul) \ {r} : Reproduced(q)
  /\ queue[r].result = "RECHECK_ERROR" =>
       ~Exists(queue[r].vul) \/ queue[r].vul \in Unparsable

\* Every verdict in the queue has its evidence, whatever was queued again, answered late
\* or discarded in between (vul_recheck, search_and_save_vul, handler_replay_vul).
VerdictJustified == \A r \in RowId : Justified(r)

\* A vulnerability is logged as confirmed by verification only when the replay of one
\* of its own rows hit its own strategy (handler_replay_vul).
ConfirmationJustified ==
  \A v \in Vul : "CONFIRMED" \in logged[v] => \E r \in RowsOf(v) : Reproduced(r)

\* No agent holds, and no replay is stored for, a row whose request vul_recheck has
\* not built; rows offered to heartbeats are built too.
RequestPrepared ==
  \A r \in RowId :
    /\ queue[r].state \in {"WAITING", "SOLVING"} => queue[r].prepared
    /\ inflight[r] > 0 \/ pool[r] # {} => queue[r].prepared /\ queue[r].uri

\* One agent is given the same built request in at most two responses (a third and a
\* first response share no row, dongtai_protocol/tests.py:88-98), plus one for
\* each crash that kept a heartbeat from recording what it gave out.
ResentOnce == \A a \in Agent, r \in RowId : selected[a][r] <= 2 + crashes

\* Workers that both see no row each insert theirs; a later one reuses what is there.
RowsPerVul ==
  \A v \in Vul : Cardinality(RowsOf(v)) <=
    Cardinality(Detector) * (IF PayloadCount[v] = 0 THEN 1 ELSE PayloadCount[v])

\* What agents hold is built, they are given it twice at most but for crashes, and
\* detections do not add rows without end (heartbeat_handler.py, create_vul_recheck_task).
QueueBounded == RequestPrepared /\ ResentOnce /\ RowsPerVul

\* vul_recheck deals with every PENDING row sooner or later ("定时处理漏洞验证",
\* dongtai_engine/tasks.py:306).
PendingProcessed ==
  \A r \in RowId : queue[r].state = "PENDING" ~> queue[r].state # "PENDING"

\* A row offered to heartbeats does not stay on offer for ever, even when no agent answers.
OfferSettled ==
  \A r \in RowId : queue[r].state \in {"WAITING", "SOLVING"}
                     ~> queue[r].state \notin {"WAITING", "SOLVING"}

--------------------------------------------------------------------------------
(* Statements of the repository that the code does not keep.                 *)

\* Verification leaves vulnerabilities with status 3, 5 and 6 alone
\* (~Q(status_id__in=(3, 5, 6)), dongtai_engine/tasks.py:282).
ClosedStatusKept ==
  [][\A v \in Vul : vul[v] \in {"SOLVED", "FIXED"} => vul'[v] # "CONFIRMED"]_vul

================================================================================
