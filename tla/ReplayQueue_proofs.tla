---------------------------- MODULE ReplayQueue_proofs ----------------------------
(***************************************************************************)
(* Proofs about the verification queue, for any number of vulnerabilities, *)
(* workers, agents, payloads and rows.                                     *)
(***************************************************************************)
EXTENDS ReplayQueue, FiniteSetTheorems, TLAPS

--------------------------------------------------------------------------------
(* Updates of one row keep the table's type.                                 *)

LEMMA RowStateTyped ==
  ASSUME NEW f \in [RowId -> Row], NEW i, NEW s \in State
  PROVE  [f EXCEPT ![i].state = s] \in [RowId -> Row]
BY DEF Row

\* A write of state and result keeps the type of the queue.
LEMMA RowResultTyped ==
  ASSUME NEW f \in [RowId -> Row], NEW i, NEW s \in State, NEW x \in Result
  PROVE  [f EXCEPT ![i].state = s, ![i].result = x] \in [RowId -> Row]
<1>1. [f EXCEPT ![i].state = s] \in [RowId -> Row]
  BY RowStateTyped
<1>2. ASSUME NEW g \in [RowId -> Row] PROVE [g EXCEPT ![i].result = x] \in [RowId -> Row]
  BY DEF Row
<1> QED
  BY <1>1, <1>2

\* A write of state and count keeps the type of the queue.
LEMMA RowCountTyped ==
  ASSUME NEW f \in [RowId -> Row], NEW i, NEW s \in State, NEW c \in 0..MaxCount
  PROVE  [f EXCEPT ![i].state = s, ![i].count = c] \in [RowId -> Row]
<1>1. [f EXCEPT ![i].state = s] \in [RowId -> Row]
  BY RowStateTyped
<1>2. ASSUME NEW g \in [RowId -> Row] PROVE [g EXCEPT ![i].count = c] \in [RowId -> Row]
  BY DEF Row
<1> QED
  BY <1>1, <1>2

\* The write of vul_recheck keeps the type of the queue.
LEMMA RowPreparedTyped ==
  ASSUME NEW f \in [RowId -> Row], NEW i, NEW s \in State, NEW u \in BOOLEAN
  PROVE  [f EXCEPT ![i].state = s, ![i].prepared = TRUE, ![i].uri = u] \in [RowId -> Row]
<1> DEFINE g == [f EXCEPT ![i].state = s]
           h == [g EXCEPT ![i].prepared = TRUE]
<1>1. g \in [RowId -> Row]
  BY RowStateTyped
<1>2. h \in [RowId -> Row]
  <2> HIDE DEF g
  <2> QED BY <1>1 DEF Row
<1>3. [h EXCEPT ![i].uri = u] \in [RowId -> Row]
  <2> HIDE DEF h
  <2> QED BY <1>2 DEF Row
<1> QED
  BY <1>3

\* A row that create_vul_recheck_task inserts is a row.
LEMMA PendingRowTyped ==
  ASSUME NEW v \in Vul
  PROVE  PendingRow(v) \in Row
BY ReplayAssumption DEF PendingRow, Row, State, Result

\* create_vul_recheck_task inserts a natural number of rows.
LEMMA BatchSizeTyped ==
  ASSUME NEW v \in Vul
  PROVE  BatchSize(v) \in Nat
BY ReplayAssumption DEF BatchSize

\* A bulk update of a heartbeat keeps the type of the queue.
LEMMA MovedTyped ==
  ASSUME queue \in [RowId -> Row], NEW ids, NEW from, NEW to \in State
  PROVE  Moved(ids, from, to) \in [RowId -> Row]
BY DEF Moved, Row

--------------------------------------------------------------------------------
(* Workers keep their type from step to step.                                *)

LEMMA IdleTyped ==
  /\ IdleTask \in TaskType /\ IdleRecheck \in RecheckType
  /\ IdleBeat \in BeatType /\ IdleUpload \in UploadType /\ IdleScan \in ScanType
<1>1. IdleTask \in TaskType
  BY ReplayAssumption DEF IdleTask, TaskType
<1>2. IdleRecheck \in RecheckType
  BY DEF IdleRecheck, RecheckType
<1>3. IdleBeat \in BeatType
  BY DEF IdleBeat, BeatType
<1>4. IdleScan \in ScanType
  BY ReplayAssumption DEF IdleScan, ScanType, Hit
<1>5. IdleUpload \in UploadType
  BY ReplayAssumption DEF IdleUpload, UploadType
<1> QED
  BY <1>1, <1>2, <1>3, <1>4, <1>5

\* A scan of a replay that hits something is in a state of the type.
LEMMA ScanOfTyped ==
  ASSUME NEW r \in RowId, NEW p \in SUBSET Hit
  PROVE  ScanOf(r, p) \in ScanType
BY ReplayAssumption DEF ScanOf, ScanType, Hit, RowId

\* A scan that goes on to its next strategy is in a state of the type.
LEMMA ScanRestTyped ==
  ASSUME scan \in [Replayer -> ScanType], NEW w \in Replayer
  PROVE  ScanRest(w) \in ScanType
<1>1. IdleScan \in ScanType /\ scan[w] \in ScanType
  BY IdleTyped
<1>2. [scan[w] EXCEPT !.pc = "strategy", !.todo = @ \ {scan[w].hit}] \in ScanType
  BY <1>1 DEF ScanType
<1> QED
  BY <1>1, <1>2 DEF ScanRest

\* A scan that moves on with a hit is in a state of the type.
LEMMA ScanStepTyped ==
  ASSUME scan \in [Replayer -> ScanType], NEW w \in Replayer, NEW h \in Hit,
         NEW p \in {"idle", "strategy", "filter", "accept", "discard"}
  PROVE  /\ [scan EXCEPT ![w] = IdleScan] \in [Replayer -> ScanType]
         /\ [scan EXCEPT ![w].pc = p] \in [Replayer -> ScanType]
         /\ [scan EXCEPT ![w].pc = p, ![w].hit = h] \in [Replayer -> ScanType]
         /\ [scan EXCEPT ![w] = ScanRest(w)] \in [Replayer -> ScanType]
<1>1. IdleScan \in ScanType /\ scan[w] \in ScanType
  BY IdleTyped
<1>2. [scan[w] EXCEPT !.pc = p] \in ScanType
  BY <1>1 DEF ScanType
<1>3. [scan[w] EXCEPT !.pc = p, !.hit = h] \in ScanType
  BY <1>1 DEF ScanType
<1>4. ScanRest(w) \in ScanType
  BY ScanRestTyped
<1>5. [scan EXCEPT ![w] = IdleScan] \in [Replayer -> ScanType]
  BY <1>1
<1>6. [scan EXCEPT ![w].pc = p] \in [Replayer -> ScanType]
  BY <1>2
<1>7. [scan EXCEPT ![w].pc = p, ![w].hit = h] \in [Replayer -> ScanType]
  BY <1>3
<1>8. [scan EXCEPT ![w] = ScanRest(w)] \in [Replayer -> ScanType]
  BY <1>4
<1> QED
  BY <1>5, <1>6, <1>7, <1>8

\* An upload that moves on is in a state of the type.
LEMMA UploadMoves ==
  ASSUME upload \in [Uploader -> UploadType], NEW u \in Uploader, NEW p \in {"settle", "send"}
  PROVE  [upload EXCEPT ![u].pc = p] \in [Uploader -> UploadType]
<1>1. [upload[u] EXCEPT !.pc = p] \in UploadType
  BY DEF UploadType
<1> QED
  BY <1>1

\* One more and one less of what a function counts.
LEMMA CountTyped ==
  ASSUME NEW S, NEW f \in [S -> Nat], NEW p
  PROVE  /\ [f EXCEPT ![p] = @ + 1] \in [S -> Nat]
         /\ f[p] > 0 => [f EXCEPT ![p] = @ - 1] \in [S -> Nat]
<1>1. CASE p \in S
  <2>1. f[p] \in Nat /\ f[p] + 1 \in Nat /\ (f[p] > 0 => f[p] - 1 \in Nat)
    BY <1>1
  <2> QED
    BY <2>1
<1>2. CASE p \notin S
  BY <1>2
<1> QED
  BY <1>1, <1>2

\* One message more keeps the type of the messages.
LEMMA MessageTyped ==
  ASSUME scans \in [RowId -> [SUBSET Hit -> Nat]], NEW i, NEW p
  PROVE  [scans EXCEPT ![i][p] = @ + 1] \in [RowId -> [SUBSET Hit -> Nat]]
<1> DEFINE S == SUBSET Hit
<1>1. ASSUME i \in RowId PROVE [scans[i] EXCEPT ![p] = @ + 1] \in [S -> Nat]
  <2>1. scans[i] \in [S -> Nat]
    BY <1>1
  <2> HIDE DEF S
  <2> QED
    BY <2>1, CountTyped
<1> HIDE DEF S
<1>2. scans \in [RowId -> [S -> Nat]]
  BY DEF S
<1>3. [scans EXCEPT ![i][p] = @ + 1] \in [RowId -> [S -> Nat]]
  BY <1>1, <1>2
<1> QED
  BY <1>3 DEF S

--------------------------------------------------------------------------------
(* Type correctness.                                                         *)

LEMMA InitTyped == Init => TypeOK
<1> SUFFICES ASSUME Init PROVE TypeOK
  OBVIOUS
<1>1. queue \in [RowId -> Row]
  BY ReplayAssumption DEF NoRow, Row, State, Result, Init
<1>2. lastId \in 0..MaxRows
  BY ReplayAssumption DEF Init
<1>3. vul \in [Vul -> VulStatus]
  BY DEF VulStatus, Init
<1>4. validation \in BOOLEAN
  BY ReplayAssumption DEF Init
<1>5. task \in [Detector -> TaskType]
  BY ReplayAssumption DEF IdleTask, TaskType, Init
<1>6. recheck \in RecheckType
  BY DEF IdleRecheck, RecheckType, Init
<1>7. beat \in [Agent -> BeatType]
  BY DEF IdleBeat, BeatType, Init
<1>8. selected \in [Agent -> [RowId -> Nat]]
  BY DEF Init
<1>9. inflight \in [RowId -> 0..MaxInflight]
  BY ReplayAssumption DEF Init
<1>10. pool \in [RowId -> SUBSET SUBSET Hit] /\ upload \in [Uploader -> UploadType]
  BY IdleTyped DEF Init
<1>11. scans \in [RowId -> [SUBSET Hit -> Nat]]
  BY DEF Init
<1>12. scan \in [Replayer -> ScanType]
  BY ReplayAssumption DEF IdleScan, ScanType, Hit, Init
<1>13. logged \in [Vul -> SUBSET {"IGNORED", "CONFIRMED"}]
  BY DEF Init
<1>14. crashes \in 0..MaxCrashes
  BY ReplayAssumption DEF Init
<1> QED
  BY <1>1, <1>2, <1>3, <1>4, <1>5, <1>6, <1>7, <1>8, <1>9, <1>10, <1>11, <1>12, <1>13, <1>14 DEF TypeOK

\* Every action keeps the type invariant.
LEMMA StepTyped == TypeOK /\ [Next]_vars => TypeOK'
<1> SUFFICES ASSUME TypeOK, [Next]_vars PROVE TypeOK'
  OBVIOUS
<1>1. ASSUME NEW d \in Detector, NEW v \in Vul, DetectVul(d, v) PROVE TypeOK'
  <2>1. vul' \in [Vul -> VulStatus]
    BY <1>1 DEF DetectVul, TypeOK, VulStatus
  <2>2. task' \in [Detector -> TaskType]
    <3>1. CASE task' = task
      BY <3>1 DEF TypeOK
    <3>2. CASE task' = [task EXCEPT ![d] = [pc |-> "create", vul |-> v, row |-> 0, count |-> 0]]
      <4>1. [pc |-> "create", vul |-> v, row |-> 0, count |-> 0] \in TaskType
        BY ReplayAssumption DEF TaskType
      <4> QED
        BY <3>2, <4>1 DEF TypeOK
    <3>3. ASSUME NEW r \in RowId, queue[r].count < MaxCount,
                 task' = [task EXCEPT ![d] = [pc |-> "requeue", vul |-> v, row |-> r, count |-> queue[r].count]]
          PROVE  task' \in [Detector -> TaskType]
      <4>1. queue[r].count \in 0..MaxCount
        BY DEF TypeOK, Row
      <4>2. queue[r].count \in 0..(MaxCount - 1)
        BY ReplayAssumption, <3>3, <4>1
      <4>3. [pc |-> "requeue", vul |-> v, row |-> r, count |-> queue[r].count] \in TaskType
        BY ReplayAssumption, <4>2 DEF TaskType, RowId
      <4> QED
        BY <3>3, <4>3 DEF TypeOK
    <3> QED
      BY <1>1, <3>1, <3>2, <3>3 DEF DetectVul, RowsOf
  <2>3. UNCHANGED <<queue, lastId, validation, recheck, beat, selected, inflight, upload, pool, scans, scan, logged, crashes>>
    BY <1>1 DEF DetectVul, queueVars, poolVars, agentVars, scanVars
  <2> QED
    BY <2>1, <2>2, <2>3 DEF TypeOK
<1>2. ASSUME NEW d \in Detector, RequeueRow(d) PROVE TypeOK'
  <2>1. queue' \in [RowId -> Row]
    <3>1. task[d] \in TaskType
      BY DEF TypeOK
    <3>2. task[d].count + 1 \in 0..MaxCount
      BY ReplayAssumption, <3>1 DEF TaskType
    <3> QED
      BY <1>2, <3>2, RowCountTyped DEF RequeueRow, TypeOK, State
  <2>2. task' \in [Detector -> TaskType]
    BY <1>2, IdleTyped DEF RequeueRow, TypeOK
  <2>3. UNCHANGED <<lastId, vul, validation, recheck, beat, selected, inflight, upload, pool, scans, scan, logged, crashes>>
    BY <1>2 DEF RequeueRow, agentVars, poolVars, scanVars
  <2> QED
    BY <2>1, <2>2, <2>3 DEF TypeOK
<1>3. ASSUME NEW d \in Detector, CreateRows(d) PROVE TypeOK'
  <2>1. queue' \in [RowId -> Row]
    <3>1. CASE queue' = queue
      BY <3>1 DEF TypeOK
    <3>2. CASE Exists(task[d].vul)
      <4>1. task[d].vul \in Vul
        BY <1>3 DEF CreateRows, TypeOK, TaskType
      <4>2. PendingRow(task[d].vul) \in Row
        BY <4>1, PendingRowTyped
      <4> QED
        BY <1>3, <3>2, <4>2 DEF CreateRows, TypeOK
    <3> QED
      BY <1>3, <3>1, <3>2 DEF CreateRows, queueVars, poolVars
  <2>2. lastId' \in 0..MaxRows
    <3>1. CASE lastId' = lastId
      BY <3>1 DEF TypeOK
    <3>2. CASE Exists(task[d].vul)
      <4>1. task[d].vul \in Vul
        BY <1>3 DEF CreateRows, TypeOK, TaskType
      <4>2. BatchSize(task[d].vul) \in Nat
        BY <4>1, BatchSizeTyped
      <4> QED
        BY <1>3, <3>2, <4>2, ReplayAssumption DEF CreateRows, TypeOK
    <3> QED
      BY <1>3, <3>1, <3>2 DEF CreateRows, queueVars, poolVars
  <2>3. task' \in [Detector -> TaskType]
    BY <1>3, IdleTyped DEF CreateRows, TypeOK
  <2>4. UNCHANGED <<vul, validation, recheck, beat, selected, inflight, upload, pool, scans, scan, logged, crashes>>
    BY <1>3 DEF CreateRows, agentVars, poolVars, scanVars, queueVars
  <2> QED
    BY <2>1, <2>2, <2>3, <2>4 DEF TypeOK
<1>4. ASSUME FetchPending PROVE TypeOK'
  <2>1. recheck' \in RecheckType
    BY <1>4 DEF FetchPending, TypeOK, RecheckType, InState
  <2>2. UNCHANGED <<queue, lastId, vul, validation, task, beat, selected, inflight, upload, pool, scans, scan, logged, crashes>>
    BY <1>4 DEF FetchPending, queueVars, poolVars, agentVars, scanVars
  <2> QED
    BY <2>1, <2>2 DEF TypeOK
<1>5. ASSUME NEW r \in RowId, RecheckRaises(r) PROVE TypeOK'
  <2>1. recheck' \in RecheckType
    BY <1>5 DEF RecheckRaises, TypeOK, RecheckType, IdleRecheck
  <2>2. UNCHANGED <<queue, lastId, vul, validation, task, beat, selected, inflight, upload, pool, scans, scan, logged, crashes>>
    BY <1>5 DEF RecheckRaises, queueVars, poolVars, agentVars, scanVars
  <2> QED
    BY <2>1, <2>2 DEF TypeOK
<1>6. ASSUME NEW r \in RowId, RecheckFails(r) PROVE TypeOK'
  <2>1. queue' \in [RowId -> Row]
    BY <1>6, RowResultTyped DEF RecheckFails, TypeOK, State, Result
  <2>2. recheck' \in RecheckType
    BY <1>6 DEF RecheckFails, TypeOK, RecheckType, IdleRecheck, RecheckRest
  <2>3. UNCHANGED <<lastId, vul, validation, task, beat, selected, inflight, upload, pool, scans, scan, logged, crashes>>
    BY <1>6 DEF RecheckFails, agentVars, poolVars, scanVars
  <2> QED
    BY <2>1, <2>2, <2>3 DEF TypeOK
<1>7. ASSUME NEW r \in RowId, RecheckPrepares(r) PROVE TypeOK'
  <2>1. queue' \in [RowId -> Row]
    <3> DEFINE u == queue[r].vul \notin NoUri
    <3>1. u \in BOOLEAN
      OBVIOUS
    <3>2. queue' = [queue EXCEPT ![r].state = "WAITING", ![r].prepared = TRUE, ![r].uri = u]
      BY <1>7, Zenon DEF RecheckPrepares
    <3>3. queue \in [RowId -> Row] /\ "WAITING" \in State
      BY DEF TypeOK, State
    <3> HIDE DEF u
    <3> QED
      BY <3>1, <3>2, <3>3, RowPreparedTyped, Zenon
  <2>2. recheck' \in RecheckType
    BY <1>7 DEF RecheckPrepares, TypeOK, RecheckType, IdleRecheck, RecheckRest
  <2>3. selected' \in [Agent -> [RowId -> Nat]]
    BY <1>7 DEF RecheckPrepares, TypeOK
  <2>4. UNCHANGED <<lastId, vul, validation, task, beat, inflight, upload, pool, scans, scan, logged, crashes>>
    BY <1>7 DEF RecheckPrepares, poolVars, scanVars
  <2> QED
    BY <2>1, <2>2, <2>3, <2>4 DEF TypeOK
<1>25. ASSUME NEW r \in RowId, RecheckUnparsable(r) PROVE TypeOK'
  <2>1. queue' \in [RowId -> Row]
    BY <1>25, RowResultTyped DEF RecheckUnparsable, TypeOK, State, Result
  <2>2. recheck' \in RecheckType
    BY <1>25 DEF RecheckUnparsable, TypeOK, RecheckType
  <2>3. UNCHANGED <<lastId, vul, validation, task, beat, selected, inflight, upload, pool, scans, scan, logged, crashes>>
    BY <1>25 DEF RecheckUnparsable, agentVars, poolVars, scanVars
  <2> QED
    BY <2>1, <2>2, <2>3 DEF TypeOK
<1>8. ASSUME NEW a \in Agent, HeartbeatQuery(a) PROVE TypeOK'
  <2>1. beat' \in [Agent -> BeatType]
    BY <1>8 DEF HeartbeatQuery, TypeOK, BeatType, InState
  <2>2. selected' \in [Agent -> [RowId -> Nat]]
    BY <1>8 DEF HeartbeatQuery, TypeOK
  <2>3. UNCHANGED <<queue, lastId, vul, validation, task, recheck, inflight, upload, pool, scans, scan, logged, crashes>>
    BY <1>8 DEF HeartbeatQuery, queueVars, poolVars, scanVars
  <2> QED
    BY <2>1, <2>2, <2>3 DEF TypeOK
<1>9. ASSUME NEW a \in Agent, HeartbeatSettle(a) PROVE TypeOK'
  <2>1. queue' \in [RowId -> Row]
    BY <1>9, MovedTyped DEF HeartbeatSettle, TypeOK, State
  <2>2. beat' \in [Agent -> BeatType]
    <3>1. beat[a] \in BeatType
      BY DEF TypeOK
    <3>2. [beat[a] EXCEPT !.pc = "issue"] \in BeatType
      BY <3>1 DEF BeatType
    <3> QED
      BY <1>9, <3>2 DEF HeartbeatSettle, TypeOK
  <2>3. UNCHANGED <<lastId, vul, validation, task, recheck, selected, inflight, upload, pool, scans, scan, logged, crashes>>
    BY <1>9 DEF HeartbeatSettle, scanVars, poolVars
  <2> QED
    BY <2>1, <2>2, <2>3 DEF TypeOK
<1>10. ASSUME NEW a \in Agent, HeartbeatIssue(a) PROVE TypeOK'
  <2>1. queue' \in [RowId -> Row]
    BY <1>10, MovedTyped DEF HeartbeatIssue, TypeOK, State
  <2>2. beat' \in [Agent -> BeatType]
    <3>1. beat[a] \in BeatType
      BY DEF TypeOK
    <3>2. [beat[a] EXCEPT !.pc = "reply"] \in BeatType
      BY <3>1 DEF BeatType
    <3> QED
      BY <1>10, <3>2 DEF HeartbeatIssue, TypeOK
  <2>3. UNCHANGED <<lastId, vul, validation, task, recheck, selected, inflight, upload, pool, scans, scan, logged, crashes>>
    BY <1>10 DEF HeartbeatIssue, scanVars, poolVars
  <2> QED
    BY <2>1, <2>2, <2>3 DEF TypeOK
<1>11. ASSUME NEW a \in Agent, HeartbeatReply(a) PROVE TypeOK'
  <2>1. queue' \in [RowId -> Row]
    BY <1>11, MovedTyped DEF HeartbeatReply, TypeOK, State
  <2>2. beat' \in [Agent -> BeatType]
    BY <1>11 DEF HeartbeatReply, TypeOK, BeatType, IdleBeat
  <2>3. inflight' \in [RowId -> 0..MaxInflight]
    BY <1>11, ReplayAssumption DEF HeartbeatReply, TypeOK
  <2>4. UNCHANGED <<lastId, vul, validation, task, recheck, selected, upload, pool, scans, scan, logged, crashes>>
    BY <1>11 DEF HeartbeatReply, scanVars, poolVars
  <2> QED
    BY <2>1, <2>2, <2>3, <2>4 DEF TypeOK
<1>12. ASSUME NEW r \in RowId, LoseReplay(r) PROVE TypeOK'
  <2>1. inflight' \in [RowId -> 0..MaxInflight]
    BY <1>12, ReplayAssumption DEF LoseReplay, TypeOK
  <2>2. UNCHANGED <<queue, lastId, vul, validation, task, recheck, beat, selected, upload, pool, scans, scan, logged, crashes>>
    BY <1>12 DEF LoseReplay, queueVars, poolVars, scanVars
  <2> QED
    BY <2>1, <2>2 DEF TypeOK
<1>13. ASSUME NEW u \in Uploader, NEW r \in RowId, NEW hits \in Answer, StartUpload(u, r, hits) PROVE TypeOK'
  <2>1. inflight' \in [RowId -> 0..MaxInflight]
    BY <1>13, ReplayAssumption DEF StartUpload, TypeOK
  <2>2. upload' \in [Uploader -> UploadType]
    <3>1. r \in 0..MaxRows /\ hits \in SUBSET Hit /\ pool[r] \subseteq SUBSET Hit
      BY ReplayAssumption DEF RowId, Hit, TypeOK
    <3>2. \A p \in {"store", "settle"}, h \in SUBSET Hit : [pc |-> p, row |-> r, hits |-> h] \in UploadType
      BY <3>1 DEF UploadType
    <3> QED
      BY <1>13, <3>1, <3>2 DEF StartUpload, TypeOK
  <2>3. UNCHANGED <<queue, lastId, vul, validation, task, recheck, beat, selected, pool, scans, scan, logged, crashes>>
    BY <1>13 DEF StartUpload, queueVars, scanVars
  <2> QED
    BY <2>1, <2>2, <2>3 DEF TypeOK
<1>26. ASSUME NEW u \in Uploader, StoreReplay(u) PROVE TypeOK'
  <2>1. pool' \in [RowId -> SUBSET SUBSET Hit]
    <3> DEFINE P == SUBSET Hit
    <3>1. upload[u].hits \in P /\ pool \in [RowId -> SUBSET P]
      BY DEF TypeOK, UploadType
    <3> HIDE DEF P
    <3>2. pool' \in [RowId -> SUBSET P]
      BY <1>26, <3>1 DEF StoreReplay
    <3> QED
      BY <3>2 DEF P
  <2>2. upload' \in [Uploader -> UploadType]
    BY <1>26, UploadMoves DEF StoreReplay, TypeOK
  <2>3. UNCHANGED <<queue, lastId, vul, validation, task, recheck, beat, selected, inflight, scans, scan, logged, crashes>>
    BY <1>26 DEF StoreReplay, queueVars, agentVars, scanVars
  <2> QED
    BY <2>1, <2>2, <2>3 DEF TypeOK
<1>27. ASSUME NEW u \in Uploader, SettleReplay(u) PROVE TypeOK'
  <2>1. queue' \in [RowId -> Row]
    BY <1>27, RowStateTyped DEF SettleReplay, TypeOK, State
  <2>2. upload' \in [Uploader -> UploadType]
    BY <1>27, UploadMoves DEF SettleReplay, TypeOK
  <2>3. UNCHANGED <<lastId, vul, validation, task, recheck, beat, selected, inflight, pool, scans, scan, logged, crashes>>
    BY <1>27 DEF SettleReplay, agentVars, scanVars
  <2> QED
    BY <2>1, <2>2, <2>3 DEF TypeOK
<1>28. ASSUME NEW u \in Uploader, SendReplay(u) PROVE TypeOK'
  <2>1. scans' \in [RowId -> [SUBSET Hit -> Nat]]
    BY <1>28, MessageTyped DEF SendReplay, TypeOK
  <2>2. upload' \in [Uploader -> UploadType]
    BY <1>28, IdleTyped DEF SendReplay, TypeOK
  <2>3. UNCHANGED <<queue, lastId, vul, validation, task, recheck, beat, selected, inflight, pool, scan, logged, crashes>>
    BY <1>28 DEF SendReplay, queueVars, agentVars
  <2> QED
    BY <2>1, <2>2, <2>3 DEF TypeOK
<1>14. ASSUME NEW w \in Replayer, NEW r \in RowId, NEW p \in SUBSET Hit, StartScan(w, r, p) PROVE TypeOK'
  <2>1. scans' \in [RowId -> [SUBSET Hit -> Nat]]
    <3> DEFINE S == SUBSET Hit
    <3>1. scans \in [RowId -> [S -> Nat]] /\ scans[r] \in [S -> Nat]
      BY DEF TypeOK
    <3> HIDE DEF S
    <3>2. scans[r][p] > 0 /\ scans' = [scans EXCEPT ![r] = [scans[r] EXCEPT ![p] = @ - 1]]
      BY <1>14 DEF StartScan
    <3>3. [scans[r] EXCEPT ![p] = @ - 1] \in [S -> Nat]
      BY <3>1, <3>2, CountTyped
    <3>4. scans' \in [RowId -> [S -> Nat]]
      BY <3>1, <3>2, <3>3
    <3> QED
      BY <3>4 DEF S
  <2>2. scan' \in [Replayer -> ScanType]
    BY <1>14, IdleTyped, ScanOfTyped DEF StartScan, TypeOK
  <2>3. UNCHANGED <<queue, lastId, vul, validation, task, recheck, beat, selected, inflight, upload, pool, logged, crashes>>
    BY <1>14 DEF StartScan, queueVars, agentVars, poolVars
  <2> QED
    BY <2>1, <2>2, <2>3 DEF TypeOK
<1>29. ASSUME NEW w \in Replayer, ScanRaises(w) PROVE TypeOK'
  <2>1. scan' \in [Replayer -> ScanType]
    BY <1>29, IdleTyped DEF ScanRaises, TypeOK
  <2>2. UNCHANGED <<queue, lastId, vul, validation, task, recheck, beat, selected, inflight, upload, pool, scans, logged, crashes>>
    BY <1>29 DEF ScanRaises, queueVars, agentVars, poolVars
  <2> QED
    BY <2>1, <2>2 DEF TypeOK
<1>15. ASSUME NEW w \in Replayer, NEW h \in Hit, ScanMarks(w, h) PROVE TypeOK'
  <2>1. queue' \in [RowId -> Row]
    <3>1. CASE queue' = queue
      BY <3>1 DEF TypeOK
    <3>2. CASE queue' = [queue EXCEPT ![scan[w].row].state = "SOLVED", ![scan[w].row].result = "RECHECK_FALSE"]
      BY <3>2, RowResultTyped DEF TypeOK, State, Result
    <3> QED
      BY <1>15, <3>1, <3>2 DEF ScanMarks
  <2>2. scan' \in [Replayer -> ScanType]
    <3>1. CASE scan' = [scan EXCEPT ![w] = IdleScan]
      BY <3>1, IdleTyped DEF TypeOK
    <3>2. CASE scan' = [scan EXCEPT ![w].pc = "filter", ![w].hit = h]
      BY <3>2, ScanStepTyped DEF TypeOK
    <3> QED
      BY <1>15, <3>1, <3>2 DEF ScanMarks
  <2>3. logged' \in [Vul -> SUBSET {"IGNORED", "CONFIRMED"}]
    BY <1>15 DEF ScanMarks, TypeOK
  <2>4. UNCHANGED <<lastId, vul, validation, task, recheck, beat, selected, inflight, upload, pool, scans, crashes>>
    BY <1>15 DEF ScanMarks, agentVars, poolVars
  <2> QED
    BY <2>1, <2>2, <2>3, <2>4 DEF TypeOK
<1>16. ASSUME NEW w \in Replayer, ScanFilters(w) PROVE TypeOK'
  <2>1. scan' \in [Replayer -> ScanType]
    BY <1>16, ScanStepTyped DEF ScanFilters, TypeOK, Hit
  <2>2. UNCHANGED <<queue, lastId, vul, validation, task, recheck, beat, selected, inflight, upload, pool, scans, logged, crashes>>
    BY <1>16 DEF ScanFilters, queueVars, poolVars, agentVars
  <2> QED
    BY <2>1, <2>2 DEF TypeOK
<1>17. ASSUME NEW w \in Replayer, ScanHandles(w) PROVE TypeOK'
  <2>1. vul' \in [Vul -> VulStatus]
    BY <1>17 DEF ScanHandles, TypeOK, VulStatus
  <2>2. scan' \in [Replayer -> ScanType]
    <3>1. CASE scan' = [scan EXCEPT ![w] = IdleScan]
      BY <3>1, IdleTyped DEF TypeOK
    <3>2. CASE scan' = [scan EXCEPT ![w].pc = "accept"]
      BY <3>2, ScanStepTyped DEF TypeOK, Hit
    <3> QED
      BY <1>17, <3>1, <3>2 DEF ScanHandles
  <2>3. UNCHANGED <<queue, lastId, validation, task, recheck, beat, selected, inflight, upload, pool, scans, logged, crashes>>
    BY <1>17 DEF ScanHandles, queueVars, poolVars, agentVars
  <2> QED
    BY <2>1, <2>2, <2>3 DEF TypeOK
<1>18. ASSUME NEW w \in Replayer, ScanAccepts(w) PROVE TypeOK'
  <2>1. queue' \in [RowId -> Row]
    BY <1>18, RowResultTyped DEF ScanAccepts, TypeOK, State, Result
  <2>2. scan' \in [Replayer -> ScanType]
    BY <1>18, ScanStepTyped DEF ScanAccepts, TypeOK, Hit
  <2>3. UNCHANGED <<lastId, vul, validation, task, recheck, beat, selected, inflight, upload, pool, scans, logged, crashes>>
    BY <1>18 DEF ScanAccepts, agentVars, poolVars
  <2> QED
    BY <2>1, <2>2, <2>3 DEF TypeOK
<1>19. ASSUME NEW w \in Replayer, ScanDiscards(w) PROVE TypeOK'
  <2>1. queue' \in [RowId -> Row]
    <3>1. \A q \in RowId : [queue[q] EXCEPT !.state = "DISCARD", !.result = "RECHECK_DISCARD"] \in Row
      BY ZenonT(60) DEF TypeOK, Row, State, Result
    <3> QED
      BY <1>19, <3>1 DEF ScanDiscards, TypeOK
  <2>2. scan' \in [Replayer -> ScanType]
    BY <1>19, ScanStepTyped DEF ScanDiscards, TypeOK, Hit
  <2>3. logged' \in [Vul -> SUBSET {"IGNORED", "CONFIRMED"}]
    BY <1>19 DEF ScanDiscards, TypeOK
  <2>4. UNCHANGED <<lastId, vul, validation, task, recheck, beat, selected, inflight, upload, pool, scans, crashes>>
    BY <1>19 DEF ScanDiscards, agentVars, poolVars
  <2> QED
    BY <2>1, <2>2, <2>3, <2>4 DEF TypeOK
<1>20. ASSUME NEW v \in Vul, DeleteVul(v) PROVE TypeOK'
  <2>1. vul' \in [Vul -> VulStatus]
    BY <1>20 DEF DeleteVul, TypeOK, VulStatus
  <2>2. UNCHANGED <<queue, lastId, validation, task, recheck, beat, selected, inflight, upload, pool, scans, scan, logged, crashes>>
    BY <1>20 DEF DeleteVul, queueVars, poolVars, agentVars, scanVars
  <2> QED
    BY <2>1, <2>2 DEF TypeOK
<1>21. ASSUME NEW v \in Vul, NEW s \in UserStatus, ChangeStatus(v, s) PROVE TypeOK'
  <2>1. vul' \in [Vul -> VulStatus]
    BY <1>21, ReplayAssumption DEF ChangeStatus, TypeOK, VulStatus
  <2>2. UNCHANGED <<queue, lastId, validation, task, recheck, beat, selected, inflight, upload, pool, scans, scan, logged, crashes>>
    BY <1>21 DEF ChangeStatus, queueVars, poolVars, agentVars, scanVars
  <2> QED
    BY <2>1, <2>2 DEF TypeOK
<1>22. ASSUME NEW b \in Validation, SetValidation(b) PROVE TypeOK'
  <2>1. validation' \in BOOLEAN
    BY <1>22, ReplayAssumption DEF SetValidation, TypeOK
  <2>2. UNCHANGED <<queue, lastId, vul, task, recheck, beat, selected, inflight, upload, pool, scans, scan, logged, crashes>>
    BY <1>22 DEF SetValidation, queueVars, poolVars, agentVars, scanVars
  <2> QED
    BY <2>1, <2>2 DEF TypeOK
<1>23. ASSUME Crash PROVE TypeOK'
  <2>1. task' \in [Detector -> TaskType]
    BY <1>23, ReplayAssumption DEF Crash, TypeOK, TaskType, IdleTask
  <2>2. recheck' \in RecheckType
    BY <1>23 DEF Crash, TypeOK, RecheckType, IdleRecheck
  <2>3. beat' \in [Agent -> BeatType]
    BY <1>23, SMTT(30) DEF Crash, TypeOK, BeatType, IdleBeat
  <2>4. scans' \in [RowId -> [SUBSET Hit -> Nat]]
    <3>1. CASE UNCHANGED scans
      BY <3>1 DEF TypeOK
    <3>2. ASSUME NEW w \in Replayer, scans' = [scans EXCEPT ![scan[w].row][scan[w].pool] = @ + 1]
          PROVE  scans' \in [RowId -> [SUBSET Hit -> Nat]]
      BY <3>2, MessageTyped DEF TypeOK
    <3> QED
      BY <1>23, <3>1, <3>2 DEF Crash
  <2>8. upload' \in [Uploader -> UploadType]
    BY <1>23, IdleTyped DEF Crash, TypeOK
  <2>5. scan' \in [Replayer -> ScanType]
    BY <1>23, IdleTyped DEF Crash, TypeOK
  <2>6. crashes' \in 0..MaxCrashes
    BY <1>23, ReplayAssumption DEF Crash, TypeOK
  <2>7. UNCHANGED <<queue, lastId, vul, validation, selected, inflight, pool, logged>>
    BY <1>23 DEF Crash, queueVars
  <2> QED
    BY <2>1, <2>2, <2>3, <2>4, <2>5, <2>6, <2>7, <2>8 DEF TypeOK
<1>24. CASE UNCHANGED vars
  BY <1>24 DEF vars, TypeOK
<1> QED
  BY <1>1, <1>2, <1>3, <1>4, <1>5, <1>6, <1>7, <1>8, <1>9, <1>10, <1>11, <1>12, <1>13, <1>14, <1>15, <1>16, <1>17, <1>18, <1>19, <1>20, <1>21, <1>22, <1>23, <1>24, <1>25, <1>26, <1>27, <1>28, <1>29
     DEF Next, VulRecheck, Heartbeat, ReplayScan

\* Init and every step keep the columns and the workers within their types.
THEOREM TypeCorrect == Spec => []TypeOK
BY InitTyped, StepTyped, PTL DEF Spec

--------------------------------------------------------------------------------
(* Which actions write which variable.                                       *)

QueueWriters ==
  \/ \E d \in Detector : RequeueRow(d)
  \/ \E d \in Detector : CreateRows(d)
  \/ \E r \in RowId : RecheckFails(r)
  \/ \E r \in RowId : RecheckUnparsable(r)
  \/ \E r \in RowId : RecheckPrepares(r)
  \/ \E a \in Agent : HeartbeatSettle(a)
  \/ \E a \in Agent : HeartbeatIssue(a)
  \/ \E a \in Agent : HeartbeatReply(a)
  \/ \E u \in Uploader : SettleReplay(u)
  \/ \E w \in Replayer, h \in Hit : ScanMarks(w, h)
  \/ \E w \in Replayer : ScanAccepts(w)
  \/ \E w \in Replayer : ScanDiscards(w)

LastIdWriters ==
  \/ \E d \in Detector : CreateRows(d)

VulWriters ==
  \/ \E d \in Detector, v \in Vul : DetectVul(d, v)
  \/ \E w \in Replayer : ScanHandles(w)
  \/ \E v \in Vul : DeleteVul(v)
  \/ \E v \in Vul, s \in UserStatus : ChangeStatus(v, s)

TaskWriters ==
  \/ \E d \in Detector, v \in Vul : DetectVul(d, v)
  \/ \E d \in Detector : RequeueRow(d)
  \/ \E d \in Detector : CreateRows(d)
  \/ Crash

RecheckWriters ==
  \/ FetchPending
  \/ \E r \in RowId : RecheckRaises(r)
  \/ \E r \in RowId : RecheckFails(r)
  \/ \E r \in RowId : RecheckUnparsable(r)
  \/ \E r \in RowId : RecheckPrepares(r)
  \/ Crash

BeatWriters ==
  \/ \E a \in Agent : HeartbeatQuery(a)
  \/ \E a \in Agent : HeartbeatSettle(a)
  \/ \E a \in Agent : HeartbeatIssue(a)
  \/ \E a \in Agent : HeartbeatReply(a)
  \/ Crash

InflightWriters ==
  \/ \E a \in Agent : HeartbeatReply(a)
  \/ \E r \in RowId : LoseReplay(r)
  \/ \E u \in Uploader, r \in RowId, hits \in Answer : StartUpload(u, r, hits)

UploadWriters ==
  \/ \E u \in Uploader, r \in RowId, hits \in Answer : StartUpload(u, r, hits)
  \/ \E u \in Uploader : StoreReplay(u)
  \/ \E u \in Uploader : SettleReplay(u)
  \/ \E u \in Uploader : SendReplay(u)
  \/ Crash

PoolWriters ==
  \/ \E u \in Uploader : StoreReplay(u)

ScansWriters ==
  \/ \E u \in Uploader : SendReplay(u)
  \/ \E w \in Replayer, r \in RowId, p \in SUBSET Hit : StartScan(w, r, p)
  \/ Crash

ScanWriters ==
  \/ \E w \in Replayer, r \in RowId, p \in SUBSET Hit : StartScan(w, r, p)
  \/ \E w \in Replayer, h \in Hit : ScanMarks(w, h)
  \/ \E w \in Replayer : ScanRaises(w)
  \/ \E w \in Replayer : ScanFilters(w)
  \/ \E w \in Replayer : ScanHandles(w)
  \/ \E w \in Replayer : ScanAccepts(w)
  \/ \E w \in Replayer : ScanDiscards(w)
  \/ Crash

LoggedWriters ==
  \/ \E w \in Replayer, h \in Hit : ScanMarks(w, h)
  \/ \E w \in Replayer : ScanDiscards(w)

\* Which actions write which table or local variable.
LEMMA Writers ==
  ASSUME [Next]_vars
  PROVE  /\ UNCHANGED queue \/ QueueWriters
         /\ UNCHANGED lastId \/ LastIdWriters
         /\ UNCHANGED vul \/ VulWriters
         /\ UNCHANGED task \/ TaskWriters
         /\ UNCHANGED recheck \/ RecheckWriters
         /\ UNCHANGED beat \/ BeatWriters
         /\ UNCHANGED inflight \/ InflightWriters
         /\ UNCHANGED upload \/ UploadWriters
         /\ UNCHANGED pool \/ PoolWriters
         /\ UNCHANGED scans \/ ScansWriters
         /\ UNCHANGED scan \/ ScanWriters
         /\ UNCHANGED logged \/ LoggedWriters
<1>1. ASSUME NEW d \in Detector, NEW v \in Vul, DetectVul(d, v)
      PROVE  UNCHANGED <<queue, lastId, recheck, beat, inflight, upload, pool, scans, scan, logged>>
  BY <1>1 DEF DetectVul, queueVars, poolVars, agentVars, scanVars
<1>2. ASSUME NEW d \in Detector, RequeueRow(d)
      PROVE  UNCHANGED <<lastId, vul, recheck, beat, inflight, upload, pool, scans, scan, logged>>
  BY <1>2 DEF RequeueRow, queueVars, poolVars, agentVars, scanVars
<1>3. ASSUME NEW d \in Detector, CreateRows(d)
      PROVE  UNCHANGED <<vul, recheck, beat, inflight, upload, pool, scans, scan, logged>>
  BY <1>3 DEF CreateRows, queueVars, poolVars, agentVars, scanVars
<1>4. ASSUME FetchPending
      PROVE  UNCHANGED <<queue, lastId, vul, task, beat, inflight, upload, pool, scans, scan, logged>>
  BY <1>4 DEF FetchPending, queueVars, poolVars, agentVars, scanVars
<1>5. ASSUME NEW r \in RowId, RecheckRaises(r)
      PROVE  UNCHANGED <<queue, lastId, vul, task, beat, inflight, upload, pool, scans, scan, logged>>
  BY <1>5 DEF RecheckRaises, queueVars, poolVars, agentVars, scanVars
<1>6. ASSUME NEW r \in RowId, RecheckFails(r)
      PROVE  UNCHANGED <<lastId, vul, task, beat, inflight, upload, pool, scans, scan, logged>>
  BY <1>6 DEF RecheckFails, queueVars, poolVars, agentVars, scanVars
<1>7. ASSUME NEW r \in RowId, RecheckPrepares(r)
      PROVE  UNCHANGED <<lastId, vul, task, beat, inflight, upload, pool, scans, scan, logged>>
  BY <1>7 DEF RecheckPrepares, queueVars, poolVars, agentVars, scanVars
<1>8. ASSUME NEW a \in Agent, HeartbeatQuery(a)
      PROVE  UNCHANGED <<queue, lastId, vul, task, recheck, inflight, upload, pool, scans, scan, logged>>
  BY <1>8 DEF HeartbeatQuery, queueVars, poolVars, agentVars, scanVars
<1>9. ASSUME NEW a \in Agent, HeartbeatSettle(a)
      PROVE  UNCHANGED <<lastId, vul, task, recheck, inflight, upload, pool, scans, scan, logged>>
  BY <1>9 DEF HeartbeatSettle, queueVars, poolVars, agentVars, scanVars
<1>10. ASSUME NEW a \in Agent, HeartbeatIssue(a)
      PROVE  UNCHANGED <<lastId, vul, task, recheck, inflight, upload, pool, scans, scan, logged>>
  BY <1>10 DEF HeartbeatIssue, queueVars, poolVars, agentVars, scanVars
<1>11. ASSUME NEW a \in Agent, HeartbeatReply(a)
      PROVE  UNCHANGED <<lastId, vul, task, recheck, upload, pool, scans, scan, logged>>
  BY <1>11 DEF HeartbeatReply, queueVars, poolVars, agentVars, scanVars
<1>12. ASSUME NEW r \in RowId, LoseReplay(r)
      PROVE  UNCHANGED <<queue, lastId, vul, task, recheck, beat, upload, pool, scans, scan, logged>>
  BY <1>12 DEF LoseReplay, queueVars, poolVars, agentVars, scanVars
<1>36. ASSUME NEW r \in RowId, RecheckUnparsable(r)
      PROVE  UNCHANGED <<lastId, vul, task, beat, inflight, upload, pool, scans, scan, logged>>
  BY <1>36 DEF RecheckUnparsable, agentVars, poolVars, scanVars
<1>13. ASSUME NEW u \in Uploader, NEW r \in RowId, NEW hits \in Answer, StartUpload(u, r, hits)
      PROVE  UNCHANGED <<queue, lastId, vul, task, recheck, beat, pool, scans, scan, logged>>
  BY <1>13 DEF StartUpload, queueVars, scanVars
<1>37. ASSUME NEW u \in Uploader, StoreReplay(u)
      PROVE  UNCHANGED <<queue, lastId, vul, task, recheck, beat, inflight, scans, scan, logged>>
  BY <1>37 DEF StoreReplay, queueVars, agentVars, scanVars
<1>38. ASSUME NEW u \in Uploader, SettleReplay(u)
      PROVE  UNCHANGED <<lastId, vul, task, recheck, beat, inflight, pool, scans, scan, logged>>
  BY <1>38 DEF SettleReplay, agentVars, scanVars
<1>39. ASSUME NEW u \in Uploader, SendReplay(u)
      PROVE  UNCHANGED <<queue, lastId, vul, task, recheck, beat, inflight, pool, scan, logged>>
  BY <1>39 DEF SendReplay, queueVars, agentVars
<1>14. ASSUME NEW w \in Replayer, NEW r \in RowId, NEW p \in SUBSET Hit, StartScan(w, r, p)
      PROVE  UNCHANGED <<queue, lastId, vul, task, recheck, beat, inflight, upload, pool, logged>>
  BY <1>14 DEF StartScan, queueVars, agentVars, poolVars
<1>40. ASSUME NEW w \in Replayer, ScanRaises(w)
      PROVE  UNCHANGED <<queue, lastId, vul, task, recheck, beat, inflight, upload, pool, scans, logged>>
  BY <1>40 DEF ScanRaises, queueVars, agentVars, poolVars
<1>15. ASSUME NEW w \in Replayer, NEW h \in Hit, ScanMarks(w, h)
      PROVE  UNCHANGED <<lastId, vul, task, recheck, beat, inflight, upload, pool, scans>>
  BY <1>15 DEF ScanMarks, queueVars, poolVars, agentVars, scanVars
<1>16. ASSUME NEW w \in Replayer, ScanFilters(w)
      PROVE  UNCHANGED <<queue, lastId, vul, task, recheck, beat, inflight, upload, pool, scans, logged>>
  BY <1>16 DEF ScanFilters, queueVars, poolVars, agentVars, scanVars
<1>17. ASSUME NEW w \in Replayer, ScanHandles(w)
      PROVE  UNCHANGED <<queue, lastId, task, recheck, beat, inflight, upload, pool, scans, logged>>
  BY <1>17 DEF ScanHandles, queueVars, poolVars, agentVars, scanVars
<1>18. ASSUME NEW w \in Replayer, ScanAccepts(w)
      PROVE  UNCHANGED <<lastId, vul, task, recheck, beat, inflight, upload, pool, scans, logged>>
  BY <1>18 DEF ScanAccepts, queueVars, poolVars, agentVars, scanVars
<1>19. ASSUME NEW w \in Replayer, ScanDiscards(w)
      PROVE  UNCHANGED <<lastId, vul, task, recheck, beat, inflight, upload, pool, scans>>
  BY <1>19 DEF ScanDiscards, queueVars, poolVars, agentVars, scanVars
<1>20. ASSUME NEW v \in Vul, DeleteVul(v)
      PROVE  UNCHANGED <<queue, lastId, task, recheck, beat, inflight, upload, pool, scans, scan, logged>>
  BY <1>20 DEF DeleteVul, queueVars, poolVars, agentVars, scanVars
<1>21. ASSUME NEW v \in Vul, NEW s \in UserStatus, ChangeStatus(v, s)
      PROVE  UNCHANGED <<queue, lastId, task, recheck, beat, inflight, upload, pool, scans, scan, logged>>
  BY <1>21 DEF ChangeStatus, queueVars, poolVars, agentVars, scanVars
<1>22. ASSUME NEW b \in Validation, SetValidation(b)
      PROVE  UNCHANGED <<queue, lastId, vul, task, recheck, beat, inflight, upload, pool, scans, scan, logged>>
  BY <1>22 DEF SetValidation, queueVars, poolVars, agentVars, scanVars
<1>23. ASSUME Crash
      PROVE  UNCHANGED <<queue, lastId, vul, inflight, pool, logged>>
  BY <1>23 DEF Crash, queueVars, poolVars, agentVars, scanVars
<1>24. CASE UNCHANGED vars
  BY <1>24 DEF vars
<1>25. UNCHANGED queue \/ QueueWriters
  BY <1>1, <1>4, <1>5, <1>8, <1>12, <1>13, <1>37, <1>39, <1>14, <1>40, <1>16, <1>17, <1>20, <1>21, <1>22, <1>23, <1>24
     DEF Next, VulRecheck, Heartbeat, ReplayScan, QueueWriters
<1>26. UNCHANGED lastId \/ LastIdWriters
  BY <1>1, <1>2, <1>4, <1>5, <1>6, <1>7, <1>8, <1>9, <1>10, <1>11, <1>12, <1>36, <1>13, <1>37, <1>38, <1>39, <1>14, <1>40, <1>15, <1>16, <1>17, <1>18, <1>19, <1>20, <1>21, <1>22, <1>23, <1>24
     DEF Next, VulRecheck, Heartbeat, ReplayScan, LastIdWriters
<1>27. UNCHANGED vul \/ VulWriters
  BY <1>2, <1>3, <1>4, <1>5, <1>6, <1>7, <1>8, <1>9, <1>10, <1>11, <1>12, <1>36, <1>13, <1>37, <1>38, <1>39, <1>14, <1>40, <1>15, <1>16, <1>18, <1>19, <1>22, <1>23, <1>24
     DEF Next, VulRecheck, Heartbeat, ReplayScan, VulWriters
<1>28. UNCHANGED task \/ TaskWriters
  BY <1>4, <1>5, <1>6, <1>7, <1>8, <1>9, <1>10, <1>11, <1>12, <1>36, <1>13, <1>37, <1>38, <1>39, <1>14, <1>40, <1>15, <1>16, <1>17, <1>18, <1>19, <1>20, <1>21, <1>22, <1>24
     DEF Next, VulRecheck, Heartbeat, ReplayScan, TaskWriters
<1>29. UNCHANGED recheck \/ RecheckWriters
  BY <1>1, <1>2, <1>3, <1>8, <1>9, <1>10, <1>11, <1>12, <1>13, <1>37, <1>38, <1>39, <1>14, <1>40, <1>15, <1>16, <1>17, <1>18, <1>19, <1>20, <1>21, <1>22, <1>24
     DEF Next, VulRecheck, Heartbeat, ReplayScan, RecheckWriters
<1>30. UNCHANGED beat \/ BeatWriters
  BY <1>1, <1>2, <1>3, <1>4, <1>5, <1>6, <1>7, <1>12, <1>36, <1>13, <1>37, <1>38, <1>39, <1>14, <1>40, <1>15, <1>16, <1>17, <1>18, <1>19, <1>20, <1>21, <1>22, <1>24
     DEF Next, VulRecheck, Heartbeat, ReplayScan, BeatWriters
<1>31. UNCHANGED inflight \/ InflightWriters
  BY <1>1, <1>2, <1>3, <1>4, <1>5, <1>6, <1>7, <1>8, <1>9, <1>10, <1>36, <1>37, <1>38, <1>39, <1>14, <1>40, <1>15, <1>16, <1>17, <1>18, <1>19, <1>20, <1>21, <1>22, <1>23, <1>24
     DEF Next, VulRecheck, Heartbeat, ReplayScan, InflightWriters
<1>41. UNCHANGED upload \/ UploadWriters
  BY <1>1, <1>2, <1>3, <1>4, <1>5, <1>6, <1>7, <1>8, <1>9, <1>10, <1>11, <1>12, <1>36, <1>14, <1>40, <1>15, <1>16, <1>17, <1>18, <1>19, <1>20, <1>21, <1>22, <1>24
     DEF Next, VulRecheck, Heartbeat, ReplayScan, UploadWriters
<1>32. UNCHANGED pool \/ PoolWriters
  BY <1>1, <1>2, <1>3, <1>4, <1>5, <1>6, <1>7, <1>8, <1>9, <1>10, <1>11, <1>12, <1>36, <1>13, <1>38, <1>39, <1>14, <1>40, <1>15, <1>16, <1>17, <1>18, <1>19, <1>20, <1>21, <1>22, <1>23, <1>24
     DEF Next, VulRecheck, Heartbeat, ReplayScan, PoolWriters
<1>33. UNCHANGED scans \/ ScansWriters
  BY <1>1, <1>2, <1>3, <1>4, <1>5, <1>6, <1>7, <1>8, <1>9, <1>10, <1>11, <1>12, <1>36, <1>13, <1>37, <1>38, <1>40, <1>15, <1>16, <1>17, <1>18, <1>19, <1>20, <1>21, <1>22, <1>24
     DEF Next, VulRecheck, Heartbeat, ReplayScan, ScansWriters
<1>34. UNCHANGED scan \/ ScanWriters
  BY <1>1, <1>2, <1>3, <1>4, <1>5, <1>6, <1>7, <1>8, <1>9, <1>10, <1>11, <1>12, <1>36, <1>13, <1>37, <1>38, <1>39, <1>20, <1>21, <1>22, <1>24
     DEF Next, VulRecheck, Heartbeat, ReplayScan, ScanWriters
<1>35. UNCHANGED logged \/ LoggedWriters
  BY <1>1, <1>2, <1>3, <1>4, <1>5, <1>6, <1>7, <1>8, <1>9, <1>10, <1>11, <1>12, <1>36, <1>13, <1>37, <1>38, <1>39, <1>14, <1>40, <1>16, <1>17, <1>18, <1>20, <1>21, <1>22, <1>23, <1>24
     DEF Next, VulRecheck, Heartbeat, ReplayScan, LoggedWriters
<1> QED
  BY <1>25, <1>26, <1>27, <1>28, <1>29, <1>30, <1>31, <1>32, <1>33, <1>34, <1>35, <1>41

--------------------------------------------------------------------------------
(* What no step takes back.                                                  *)

LEMMA MovedKeeps ==
  ASSUME queue \in [RowId -> Row], NEW ids, NEW from, NEW to, NEW q \in RowId
  PROVE  /\ Moved(ids, from, to)[q].vul = queue[q].vul
         /\ Moved(ids, from, to)[q].result = queue[q].result
         /\ q \notin ids => Moved(ids, from, to)[q] = queue[q]
BY DEF Moved, Row

LEMMA StateKeeps ==
  ASSUME queue \in [RowId -> Row], NEW i, NEW st, queue' = [queue EXCEPT ![i].state = st],
         NEW q \in RowId
  PROVE  /\ queue'[q].vul = queue[q].vul
         /\ queue'[q].result = queue[q].result
         /\ q # i => queue'[q] = queue[q]
BY DEF Row

VulKeeps == \A v \in Vul : /\ vul[v] # "ABSENT" => vul'[v] # "ABSENT"
                           /\ vul[v] = "DELETED" => vul'[v] = "DELETED"

\* A stored vulnerability is never absent again, a deleted one stays deleted.
LEMMA VulKept ==
  ASSUME TypeOK, WorkBacked, [Next]_vars
  PROVE  VulKeeps
<1>1. ASSUME NEW d \in Detector, NEW v \in Vul, DetectVul(d, v) PROVE VulKeeps
  BY <1>1, ReplayAssumption DEF DetectVul, TypeOK, Exists, VulKeeps
<1>2. ASSUME NEW w \in Replayer, ScanHandles(w) PROVE VulKeeps
  BY <1>2, ReplayAssumption DEF ScanHandles, TypeOK, Exists, VulKeeps
<1>3. ASSUME NEW v \in Vul, DeleteVul(v) PROVE VulKeeps
  BY <1>3, ReplayAssumption DEF DeleteVul, TypeOK, Exists, VulKeeps
<1>4. ASSUME NEW v \in Vul, NEW s \in UserStatus, ChangeStatus(v, s) PROVE VulKeeps
  BY <1>4, ReplayAssumption DEF ChangeStatus, TypeOK, Exists, VulKeeps
<1>5. CASE UNCHANGED <<vul>>
  BY <1>5 DEF VulKeeps
<1> QED
  BY <1>1, <1>2, <1>3, <1>4, <1>5, Writers
     DEF VulWriters

LinkKeeps == \A q \in RowId : q <= lastId => queue'[q].vul = queue[q].vul

\* The rows that exist keep their vulnerability.
LEMMA LinkKept ==
  ASSUME TypeOK, WorkBacked, [Next]_vars
  PROVE  LinkKeeps
<1>1. ASSUME NEW d \in Detector, RequeueRow(d) PROVE LinkKeeps
  BY <1>1 DEF RequeueRow, TypeOK, Row, LinkKeeps
<1>2. ASSUME NEW d \in Detector, CreateRows(d) PROVE LinkKeeps
  BY <1>2 DEF CreateRows, TypeOK, LinkKeeps, queueVars, poolVars
<1>3. ASSUME NEW r \in RowId, RecheckFails(r) PROVE LinkKeeps
  BY <1>3 DEF RecheckFails, TypeOK, Row, LinkKeeps
<1>4. ASSUME NEW r \in RowId, RecheckPrepares(r) PROVE LinkKeeps
  BY <1>4 DEF RecheckPrepares, TypeOK, Row, LinkKeeps
<1>5. ASSUME NEW a \in Agent, HeartbeatSettle(a) PROVE LinkKeeps
  BY <1>5, MovedKeeps DEF HeartbeatSettle, TypeOK, LinkKeeps
<1>6. ASSUME NEW a \in Agent, HeartbeatIssue(a) PROVE LinkKeeps
  BY <1>6, MovedKeeps DEF HeartbeatIssue, TypeOK, LinkKeeps
<1>7. ASSUME NEW a \in Agent, HeartbeatReply(a) PROVE LinkKeeps
  BY <1>7, MovedKeeps DEF HeartbeatReply, TypeOK, LinkKeeps
<1>8. ASSUME NEW u \in Uploader, SettleReplay(u) PROVE LinkKeeps
  <2>1. queue \in [RowId -> Row] /\ queue' = [queue EXCEPT ![upload[u].row].state = "SOLVED"]
    BY <1>8 DEF SettleReplay, TypeOK
  <2> QED
    BY <2>1, StateKeeps DEF LinkKeeps
<1>13. ASSUME NEW r \in RowId, RecheckUnparsable(r) PROVE LinkKeeps
  BY <1>13 DEF RecheckUnparsable, TypeOK, Row, LinkKeeps
<1>9. ASSUME NEW w \in Replayer, NEW h \in Hit, ScanMarks(w, h) PROVE LinkKeeps
  <2>1. queue \in [RowId -> Row]
    BY DEF TypeOK
  <2>2. CASE queue' = queue
    BY <2>2 DEF LinkKeeps
  <2>3. CASE queue' = [queue EXCEPT ![scan[w].row].state = "SOLVED", ![scan[w].row].result = "RECHECK_FALSE"]
    BY <2>1, <2>3 DEF LinkKeeps, Row
  <2> QED
    BY <1>9, <2>2, <2>3 DEF ScanMarks
<1>10. ASSUME NEW w \in Replayer, ScanAccepts(w) PROVE LinkKeeps
  BY <1>10 DEF ScanAccepts, TypeOK, Row, LinkKeeps
<1>11. ASSUME NEW w \in Replayer, ScanDiscards(w) PROVE LinkKeeps
  BY <1>11 DEF ScanDiscards, TypeOK, Row, LinkKeeps
<1>12. CASE UNCHANGED <<queue>>
  BY <1>12 DEF LinkKeeps
<1> QED
  BY <1>1, <1>2, <1>3, <1>4, <1>5, <1>6, <1>7, <1>8, <1>9, <1>10, <1>11, <1>12, <1>13, Writers
     DEF QueueWriters

Stable ==
  /\ lastId <= lastId'
  /\ \A v \in Vul : /\ vul[v] # "ABSENT" => vul'[v] # "ABSENT"
                    /\ vul[v] = "DELETED" => vul'[v] = "DELETED"
  /\ \A r \in RowId : r <= lastId => queue'[r].vul = queue[r].vul
  /\ \A r \in RowId : pool[r] \subseteq pool'[r]

\* Rows are only added, and a stored replay is never replaced.
LEMMA StepStable ==
  ASSUME TypeOK, WorkBacked, [Next]_vars
  PROVE  Stable
<1>1. lastId <= lastId'
  <2>1. ASSUME NEW d \in Detector, CreateRows(d) PROVE lastId <= lastId'
    <3>1. CASE Exists(task[d].vul)
      <4>1. task[d].vul \in Vul
        BY <2>1 DEF CreateRows, TypeOK, TaskType
      <4>2. BatchSize(task[d].vul) \in Nat
        BY <4>1, BatchSizeTyped
      <4> QED
        BY <2>1, <3>1, <4>2 DEF CreateRows, TypeOK
    <3>2. CASE ~Exists(task[d].vul)
      BY <2>1, <3>2 DEF CreateRows, TypeOK, queueVars, poolVars
    <3> QED
      BY <3>1, <3>2
  <2>2. CASE UNCHANGED lastId
    BY <2>2 DEF TypeOK
  <2> QED
    BY <2>1, <2>2, Writers DEF LastIdWriters
<1>2. \A r \in RowId : pool[r] \subseteq pool'[r]
  <2>1. ASSUME NEW u \in Uploader, StoreReplay(u)
        PROVE  \A q \in RowId : pool[q] \subseteq pool'[q]
    BY <2>1 DEF StoreReplay, TypeOK
  <2> QED
    BY <2>1, Writers DEF PoolWriters
<1> QED
  BY <1>1, <1>2, VulKept, LinkKept DEF Stable, VulKeeps, LinkKeeps

\* The last id is a number, and only grows.
LEMMA IdsGrow ==
  ASSUME TypeOK, WorkBacked, [Next]_vars
  PROVE  lastId <= lastId' /\ lastId \in Nat /\ lastId' \in Nat
<1>1. Stable /\ TypeOK'
  BY StepStable, StepTyped
<1>2. lastId \in 0..MaxRows
  BY DEF TypeOK
<1>3. lastId' \in 0..MaxRows
  BY <1>1 DEF TypeOK
<1> QED
  BY <1>1, <1>2, <1>3 DEF Stable

--------------------------------------------------------------------------------
(* Each part of WorkBacked survives a step.                                  *)

\* A busy replay scan works on an existing row and the replay stored for it.
LEMMA ScanAtRow ==
  ASSUME TypeOK, WorkBacked, NEW w \in Replayer, scan[w].pc # "idle"
  PROVE  /\ scan[w].row \in RowId /\ scan[w].row <= lastId
         /\ queue[scan[w].row].vul \in Vul
         /\ Hits(scan[w].row) # {}
         /\ scan[w].pc \in {"accept", "discard"} => "own" \in Hits(scan[w].row)
<1>1. scan[w].row \in 1..lastId
  BY DEF WorkBacked, ScanKnown
<1>2. scan[w].row \in RowId /\ scan[w].row <= lastId
  BY <1>1, ReplayAssumption DEF TypeOK, RowId
<1>3. queue[scan[w].row].vul \in Vul
  BY <1>2 DEF WorkBacked, RowsKnown
<1>4. Hits(scan[w].row) # {}
  BY DEF WorkBacked, ScanKnown, Hits
<1>5. scan[w].pc \in {"accept", "discard"} => "own" \in Hits(scan[w].row)
  BY DEF WorkBacked, ScanKnown, Hits
<1> QED
  BY <1>2, <1>3, <1>4, <1>5

FreshQueue == \A q \in RowId : q > lastId' => queue'[q] = NoRow

\* Beyond the last id the table stays empty.
LEMMA FreshQueueStep ==
  ASSUME TypeOK, WorkBacked, [Next]_vars
  PROVE  FreshQueue
<1> lastId <= lastId' /\ lastId \in Nat /\ lastId' \in Nat
  BY IdsGrow
<1> \A q \in RowId : q > lastId' => ~(q <= lastId) /\ queue[q] = NoRow
  BY DEF WorkBacked, RowsKnown, RowId
<1>1. ASSUME NEW d \in Detector, RequeueRow(d) PROVE FreshQueue
  <2>1. task[d].row <= lastId
    BY <1>1 DEF RequeueRow, WorkBacked, TaskKnown
  <2> QED
    BY <1>1, <2>1 DEF RequeueRow, TypeOK, FreshQueue
<1>2. ASSUME NEW d \in Detector, CreateRows(d) PROVE FreshQueue
  BY <1>2 DEF CreateRows, TypeOK, FreshQueue, queueVars, poolVars
<1>3. ASSUME NEW r \in RowId, RecheckFails(r) PROVE FreshQueue
  <2>1. r <= lastId
    BY <1>3 DEF RecheckFails, WorkBacked, RecheckKnown, NextRow
  <2> QED
    BY <1>3, <2>1 DEF RecheckFails, TypeOK, FreshQueue
<1>4. ASSUME NEW r \in RowId, RecheckPrepares(r) PROVE FreshQueue
  <2>1. r <= lastId
    BY <1>4 DEF RecheckPrepares, WorkBacked, RecheckKnown, NextRow
  <2> QED
    BY <1>4, <2>1 DEF RecheckPrepares, TypeOK, FreshQueue
<1>5. ASSUME NEW a \in Agent, HeartbeatSettle(a) PROVE FreshQueue
  <2>1. \A q \in beat[a].success : q <= lastId
    BY DEF WorkBacked, BeatKnown
  <2> QED
    BY <1>5, <2>1, MovedKeeps DEF HeartbeatSettle, TypeOK, FreshQueue
<1>6. ASSUME NEW a \in Agent, HeartbeatIssue(a) PROVE FreshQueue
  <2>1. \A q \in beat[a].success : q <= lastId
    BY DEF WorkBacked, BeatKnown
  <2> QED
    BY <1>6, <2>1, MovedKeeps DEF HeartbeatIssue, TypeOK, FreshQueue
<1>7. ASSUME NEW a \in Agent, HeartbeatReply(a) PROVE FreshQueue
  <2>1. \A q \in beat[a].failure : q <= lastId
    BY DEF WorkBacked, BeatKnown
  <2> QED
    BY <1>7, <2>1, MovedKeeps DEF HeartbeatReply, TypeOK, FreshQueue
<1>8. ASSUME NEW u \in Uploader, SettleReplay(u) PROVE FreshQueue
  <2>1. upload[u].row <= lastId
    BY <1>8 DEF SettleReplay, WorkBacked, UploadKnown
  <2> QED
    BY <1>8, <2>1 DEF SettleReplay, TypeOK, FreshQueue
<1>13. ASSUME NEW r \in RowId, RecheckUnparsable(r) PROVE FreshQueue
  <2>1. r <= lastId
    BY <1>13 DEF RecheckUnparsable, WorkBacked, RecheckKnown, NextRow
  <2> QED
    BY <1>13, <2>1 DEF RecheckUnparsable, TypeOK, FreshQueue
<1>9. ASSUME NEW w \in Replayer, NEW h \in Hit, ScanMarks(w, h) PROVE FreshQueue
  <2>1. scan[w].row <= lastId
    BY <1>9 DEF ScanMarks, WorkBacked, ScanKnown
  <2>2. CASE queue' = queue
    BY <2>2 DEF FreshQueue
  <2>3. CASE queue' = [queue EXCEPT ![scan[w].row].state = "SOLVED", ![scan[w].row].result = "RECHECK_FALSE"]
    BY <2>1, <2>3 DEF TypeOK, FreshQueue
  <2> QED
    BY <1>9, <2>2, <2>3 DEF ScanMarks
<1>10. ASSUME NEW w \in Replayer, ScanAccepts(w) PROVE FreshQueue
  <2>1. scan[w].row <= lastId
    BY <1>10 DEF ScanAccepts, WorkBacked, ScanKnown
  <2> QED
    BY <1>10, <2>1 DEF ScanAccepts, TypeOK, FreshQueue
<1>11. ASSUME NEW w \in Replayer, ScanDiscards(w) PROVE FreshQueue
  <2>1. scan[w].row <= lastId /\ queue[scan[w].row].vul \in Vul
    BY <1>11, ScanAtRow DEF ScanDiscards
  <2>2. \A q \in RowId : q > lastId' => q \notin RowsOf(queue[scan[w].row].vul)
    BY <2>1, ReplayAssumption DEF RowsOf, NoRow
  <2> QED
    BY <1>11, <2>2 DEF ScanDiscards, TypeOK, FreshQueue
<1>12. CASE UNCHANGED <<queue>>
  BY <1>12 DEF FreshQueue
<1> QED
  BY <1>1, <1>2, <1>3, <1>4, <1>5, <1>6, <1>7, <1>8, <1>9, <1>10, <1>11, <1>12, <1>13, Writers
     DEF QueueWriters

FreshRest == \A q \in RowId : q > lastId' =>
  inflight'[q] = 0 /\ pool'[q] = {} /\ \A p \in SUBSET Hit : scans'[q][p] = 0

\* Nothing is held, stored or sent for rows beyond the last id.
LEMMA FreshRestStep ==
  ASSUME TypeOK, WorkBacked, [Next]_vars
  PROVE  FreshRest
<1> lastId <= lastId' /\ lastId \in Nat /\ lastId' \in Nat
  BY IdsGrow
<1>0. ASSUME NEW q \in RowId, q > lastId'
      PROVE  /\ ~(q <= lastId) /\ inflight[q] = 0 /\ pool[q] = {}
             /\ \A p \in SUBSET Hit : scans[q][p] = 0
  BY <1>0 DEF WorkBacked, RowsKnown, RowId
<1>1. ASSUME NEW q \in RowId, q > lastId' PROVE inflight'[q] = 0
  <2>1. ASSUME NEW a \in Agent, HeartbeatReply(a) PROVE inflight'[q] = 0
    <3>1. q \notin beat[a].success
      BY <1>0, <1>1 DEF WorkBacked, BeatKnown
    <3> QED
      BY <1>0, <1>1, <2>1, <3>1 DEF HeartbeatReply, TypeOK
  <2>2. ASSUME NEW r \in RowId, LoseReplay(r) PROVE inflight'[q] = 0
    BY <1>0, <1>1, <2>2 DEF LoseReplay, TypeOK
  <2>3. ASSUME NEW u \in Uploader, NEW r \in RowId, NEW hits \in Answer, StartUpload(u, r, hits)
        PROVE  inflight'[q] = 0
    BY <1>0, <1>1, <2>3 DEF StartUpload, TypeOK
  <2> QED
    BY <1>0, <1>1, <2>1, <2>2, <2>3, Writers DEF InflightWriters
<1>2. ASSUME NEW q \in RowId, q > lastId' PROVE pool'[q] = {}
  <2>1. ASSUME NEW u \in Uploader, StoreReplay(u) PROVE pool'[q] = {}
    <3>1. upload[u].row # q
      BY <1>0, <1>2, <2>1 DEF StoreReplay, WorkBacked, UploadKnown
    <3> QED
      BY <1>0, <1>2, <2>1, <3>1 DEF StoreReplay, TypeOK
  <2> QED
    BY <1>0, <1>2, <2>1, Writers DEF PoolWriters
<1>3. ASSUME NEW q \in RowId, q > lastId' PROVE \A p \in SUBSET Hit : scans'[q][p] = 0
  <2>1. CASE scans'[q] = scans[q]
    BY <1>0, <1>3, <2>1
  <2>2. ASSUME NEW r, r # q, NEW p, NEW n, scans' = [scans EXCEPT ![r][p] = n] PROVE scans'[q] = scans[q]
    BY <2>2 DEF TypeOK
  <2>3. ASSUME NEW u \in Uploader, SendReplay(u) PROVE scans'[q] = scans[q]
    <3>1. upload[u].row # q
      BY <1>0, <1>3, <2>3 DEF SendReplay, WorkBacked, UploadKnown
    <3> QED
      BY <2>3, <3>1 DEF SendReplay, TypeOK
  <2>4. ASSUME NEW w \in Replayer, NEW r \in RowId, NEW p \in SUBSET Hit, StartScan(w, r, p)
        PROVE  scans'[q] = scans[q]
    <3>1. r # q
      BY <1>0, <1>3, <2>4 DEF StartScan
    <3> QED
      BY <2>4, <3>1 DEF StartScan, TypeOK
  <2>5. ASSUME Crash PROVE scans'[q] = scans[q]
    <3>1. ASSUME NEW w \in Replayer, scan[w].pc # "idle",
                 scans' = [scans EXCEPT ![scan[w].row][scan[w].pool] = @ + 1]
          PROVE  scans'[q] = scans[q]
      <4>1. scan[w].row # q
        BY <1>0, <1>3, <3>1 DEF WorkBacked, ScanKnown
      <4> QED
        BY <3>1, <4>1 DEF TypeOK
    <3> QED
      BY <2>5, <3>1 DEF Crash
  <2> QED
    BY <2>1, <2>3, <2>4, <2>5, Writers DEF ScansWriters
<1> QED
  BY <1>1, <1>2, <1>3 DEF FreshRest

\* Rows stay numbered without gaps and linked to their vulnerabilities.
LEMMA RowsKnownStep ==
  ASSUME TypeOK, WorkBacked, [Next]_vars
  PROVE  RowsKnown'
<1>1. Stable /\ TypeOK'
  BY StepStable, StepTyped
<1>2. ASSUME NEW r \in RowId, r <= lastId
      PROVE  queue'[r].vul \in Vul /\ vul'[queue'[r].vul] # "ABSENT"
  BY <1>1, <1>2 DEF Stable, WorkBacked, RowsKnown
<1>3. ASSUME NEW r \in RowId, r > lastId, r <= lastId'
      PROVE  queue'[r].vul \in Vul /\ vul'[queue'[r].vul] # "ABSENT"
  <2>1. lastId' # lastId
    BY <1>1, <1>3 DEF TypeOK, RowId
  <2>2. PICK d \in Detector : CreateRows(d)
    BY <2>1, Writers DEF LastIdWriters
  <2>3. Exists(task[d].vul) /\ task[d].vul \in Vul
    BY <2>1, <2>2 DEF CreateRows, queueVars, poolVars, TypeOK, TaskType
  <2>4. BatchSize(task[d].vul) \in Nat
    BY <2>3, BatchSizeTyped
  <2>5. queue'[r] = PendingRow(task[d].vul)
    BY <1>3, <2>2, <2>3, <2>4, <2>1 DEF CreateRows, TypeOK, RowId, queueVars, poolVars
  <2>6. queue'[r].vul = task[d].vul /\ vul' = vul
    BY <2>2, <2>5 DEF PendingRow, CreateRows
  <2> QED
    BY <2>3, <2>6 DEF Exists
<1>4. \A r \in RowId : r > lastId => ~(r <= lastId)
  BY DEF TypeOK, RowId
<1>5. \A r \in RowId : r <= lastId \/ r > lastId
  BY DEF TypeOK, RowId
<1> QED
  BY <1>2, <1>3, <1>5, FreshQueueStep, FreshRestStep DEF RowsKnown, FreshQueue, FreshRest

\* A task that queues a row again remembers a row that exists.
LEMMA TaskKnownStep ==
  ASSUME TypeOK, WorkBacked, [Next]_vars
  PROVE  TaskKnown'
<1> Stable /\ TypeOK'
  BY StepStable, StepTyped
<1>1. ASSUME NEW d \in Detector, NEW v \in Vul, DetectVul(d, v) PROVE TaskKnown'
  <2>1. CASE task' = task
    BY <2>1 DEF WorkBacked, TaskKnown, Stable, TypeOK
  <2>2. CASE task' = [task EXCEPT ![d] = [pc |-> "create", vul |-> v, row |-> 0, count |-> 0]]
    BY <2>2 DEF WorkBacked, TaskKnown, Stable, TypeOK
  <2>3. ASSUME NEW r \in RowsOf(v),
               task' = [task EXCEPT ![d] = [pc |-> "requeue", vul |-> v, row |-> r, count |-> queue[r].count]]
        PROVE  TaskKnown'
    <3>1. r \in 1..lastId
      BY <2>3, ReplayAssumption DEF WorkBacked, RowsKnown, RowsOf, NoRow, RowId, TypeOK
    <3> QED
      BY <2>3, <3>1 DEF WorkBacked, TaskKnown, Stable, TypeOK
  <2> QED
    BY <1>1, <2>1, <2>2, <2>3 DEF DetectVul
<1>2. ASSUME NEW d \in Detector, RequeueRow(d) PROVE TaskKnown'
  BY <1>2 DEF RequeueRow, IdleTask, WorkBacked, TaskKnown, Stable, TypeOK
<1>3. ASSUME NEW d \in Detector, CreateRows(d) PROVE TaskKnown'
  BY <1>3 DEF CreateRows, IdleTask, WorkBacked, TaskKnown, Stable, TypeOK
<1>4. ASSUME Crash PROVE TaskKnown'
  <2>1. CASE UNCHANGED task
    BY <2>1 DEF WorkBacked, TaskKnown, Stable, TypeOK
  <2>2. ASSUME NEW d \in Detector, task' = [task EXCEPT ![d] = IdleTask] PROVE TaskKnown'
    BY <2>2 DEF IdleTask, WorkBacked, TaskKnown, Stable, TypeOK
  <2> QED
    BY <1>4, <2>1, <2>2 DEF Crash
<1>5. CASE UNCHANGED <<task>>
  BY <1>5 DEF WorkBacked, TaskKnown, Stable, TypeOK
<1> QED
  BY <1>1, <1>2, <1>3, <1>4, <1>5, Writers
     DEF TaskWriters

\* The batch of vul_recheck stays within the table, and lacks only deleted vulnerabilities.
LEMMA RecheckKnownStep ==
  ASSUME TypeOK, WorkBacked, [Next]_vars
  PROVE  RecheckKnown'
<1> Stable /\ TypeOK'
  BY StepStable, StepTyped
<1>a. ASSUME NEW r \in RowId, r <= lastId, NEW D, queue[r].vul \in D \/ ~Exists(queue[r].vul)
      PROVE  r <= lastId' /\ (queue'[r].vul \in D \/ ~Exists(queue[r].vul)')
  BY <1>a DEF WorkBacked, RowsKnown, Stable, Exists, TypeOK, RowId
<1>1. ASSUME FetchPending PROVE RecheckKnown'
  <2> DEFINE D == recheck'.data
  <2>1. recheck'.todo \subseteq InState({"PENDING"})
    BY <1>1 DEF FetchPending
  <2>2. ASSUME NEW r \in recheck'.todo PROVE r \in RowId /\ r <= lastId
    BY <2>1 DEF WorkBacked, RowsKnown, InState, NoRow, RowId, TypeOK
  <2>3. ASSUME NEW r \in recheck'.todo PROVE queue[r].vul \in D \/ ~Exists(queue[r].vul)
    BY <1>1, <2>2 DEF FetchPending, WorkBacked, RowsKnown
  <2> QED
    BY <1>a, <2>2, <2>3 DEF RecheckKnown
<1>2. ASSUME NEW r \in RowId, RecheckRaises(r) PROVE RecheckKnown'
  <2>1. recheck'.todo \subseteq recheck.todo
    BY <1>2 DEF RecheckRaises, IdleRecheck, RecheckRest, TypeOK, RecheckType
  <2>2. recheck'.todo = {} \/ recheck'.data = recheck.data
    BY <1>2 DEF RecheckRaises, IdleRecheck, RecheckRest, TypeOK, RecheckType
  <2> QED
    BY <1>a, <2>1, <2>2 DEF WorkBacked, RecheckKnown, TypeOK, RecheckType
<1>3. ASSUME NEW r \in RowId, RecheckFails(r) PROVE RecheckKnown'
  <2>1. recheck'.todo \subseteq recheck.todo
    BY <1>3 DEF RecheckFails, IdleRecheck, RecheckRest, TypeOK, RecheckType
  <2>2. recheck'.todo = {} \/ recheck'.data = recheck.data
    BY <1>3 DEF RecheckFails, IdleRecheck, RecheckRest, TypeOK, RecheckType
  <2> QED
    BY <1>a, <2>1, <2>2 DEF WorkBacked, RecheckKnown, TypeOK, RecheckType
<1>4. ASSUME NEW r \in RowId, RecheckPrepares(r) PROVE RecheckKnown'
  <2>1. recheck'.todo \subseteq recheck.todo
    BY <1>4 DEF RecheckPrepares, IdleRecheck, RecheckRest, TypeOK, RecheckType
  <2>2. recheck'.todo = {} \/ recheck'.data = recheck.data
    BY <1>4 DEF RecheckPrepares, IdleRecheck, RecheckRest, TypeOK, RecheckType
  <2> QED
    BY <1>a, <2>1, <2>2 DEF WorkBacked, RecheckKnown, TypeOK, RecheckType
<1>7. ASSUME NEW r \in RowId, RecheckUnparsable(r) PROVE RecheckKnown'
  <2>1. recheck'.todo = recheck.todo /\ recheck'.data = recheck.data
    BY <1>7 DEF RecheckUnparsable, TypeOK, RecheckType
  <2> QED
    BY <1>a, <2>1 DEF WorkBacked, RecheckKnown, TypeOK, RecheckType
<1>5. ASSUME Crash PROVE RecheckKnown'
  <2>1. recheck' = recheck \/ recheck' = IdleRecheck
    BY <1>5 DEF Crash
  <2>2. CASE recheck' = recheck
    BY <1>a, <2>2 DEF WorkBacked, RecheckKnown, TypeOK, RecheckType
  <2>3. CASE recheck' = IdleRecheck
    BY <2>3 DEF IdleRecheck, RecheckKnown
  <2> QED
    BY <2>1, <2>2, <2>3
<1>6. CASE UNCHANGED <<recheck>>
  BY <1>a, <1>6 DEF WorkBacked, RecheckKnown, TypeOK, RecheckType
<1> QED
  BY <1>1, <1>2, <1>3, <1>4, <1>5, <1>6, <1>7, Writers
     DEF RecheckWriters

\* A heartbeat remembers rows that exist.
LEMMA BeatKnownStep ==
  ASSUME TypeOK, WorkBacked, [Next]_vars
  PROVE  BeatKnown'
<1> Stable /\ TypeOK'
  BY StepStable, StepTyped
<1>1. ASSUME NEW a \in Agent, HeartbeatQuery(a) PROVE BeatKnown'
  <2>1. \A r \in InState({"WAITING", "SOLVING"}) : r <= lastId
    BY DEF WorkBacked, RowsKnown, InState, NoRow, RowId, TypeOK
  <2> QED
    BY <1>1, <2>1 DEF HeartbeatQuery, WorkBacked, BeatKnown, Stable, TypeOK, BeatType, InState, RowId
<1>2. ASSUME NEW a \in Agent, HeartbeatSettle(a) PROVE BeatKnown'
  BY <1>2 DEF HeartbeatSettle, IdleBeat, WorkBacked, BeatKnown, Stable, TypeOK, BeatType, RowId
<1>3. ASSUME NEW a \in Agent, HeartbeatIssue(a) PROVE BeatKnown'
  BY <1>3 DEF HeartbeatIssue, IdleBeat, WorkBacked, BeatKnown, Stable, TypeOK, BeatType, RowId
<1>4. ASSUME NEW a \in Agent, HeartbeatReply(a) PROVE BeatKnown'
  BY <1>4 DEF HeartbeatReply, IdleBeat, WorkBacked, BeatKnown, Stable, TypeOK, BeatType, RowId
<1>5. ASSUME Crash PROVE BeatKnown'
  BY <1>5 DEF Crash, IdleBeat, WorkBacked, BeatKnown, Stable, TypeOK, BeatType, RowId
<1>6. CASE UNCHANGED <<beat>>
  BY <1>6 DEF WorkBacked, BeatKnown, Stable, TypeOK, BeatType, RowId
<1> QED
  BY <1>1, <1>2, <1>3, <1>4, <1>5, <1>6, Writers
     DEF BeatWriters

\* An upload remembers a row that exists, and a replay that is stored once it settles.
LEMMA UploadKnownStep ==
  ASSUME TypeOK, WorkBacked, [Next]_vars
  PROVE  UploadKnown'
<1> DEFINE Known(x) == /\ x.pc # "idle" => x.row \in 1..lastId'
                       /\ x.pc \in {"settle", "send"} => x.hits \in pool'[x.row]
<1>0. Stable /\ TypeOK' /\ lastId <= lastId' /\ lastId \in Nat /\ lastId' \in Nat
  BY StepStable, StepTyped, IdsGrow
<1>1. ASSUME NEW u \in Uploader, upload'[u] = upload[u] PROVE Known(upload'[u])
  <2>1. upload[u].pc # "idle" => upload[u].row \in 1..lastId /\ upload[u].row \in RowId
    BY ReplayAssumption DEF WorkBacked, UploadKnown, TypeOK, RowId
  <2>2. upload[u].pc # "idle" => upload[u].row \in 1..lastId'
    BY <1>0, <2>1 DEF Stable
  <2>3. upload[u].pc \in {"settle", "send"} => upload[u].hits \in pool'[upload[u].row]
    BY <1>0, <2>1 DEF Stable, WorkBacked, UploadKnown
  <2> QED
    BY <1>1, <2>2, <2>3
<1>2. ASSUME NEW u \in Uploader, upload'[u] = IdleUpload PROVE Known(upload'[u])
  BY <1>2 DEF IdleUpload
<1>3. ASSUME NEW u \in Uploader, NEW r \in RowId, NEW hits \in Answer, StartUpload(u, r, hits)
      PROVE  \A x \in Uploader : Known(upload'[x])
  <2>1. r \in 1..lastId'
    <3>1. inflight[r] > 0 /\ 0 \in Nat
      BY <1>3 DEF StartUpload
    <3>2. ~(r > lastId)
      BY <3>1 DEF WorkBacked, RowsKnown
    <3> QED
      BY <1>0, <3>2 DEF RowId
  <2>2. pool' = pool
    BY <1>3 DEF StartUpload
  <2>3. \A x \in Uploader : x # u => upload'[x] = upload[x]
    BY <1>3 DEF StartUpload, TypeOK
  <2>4. \/ upload'[u] = [pc |-> "store", row |-> r, hits |-> hits]
        \/ \E p \in pool[r] : upload'[u] = [pc |-> "settle", row |-> r, hits |-> p]
    BY <1>3 DEF StartUpload, TypeOK
  <2>5. Known(upload'[u])
    <3>1. CASE upload'[u] = [pc |-> "store", row |-> r, hits |-> hits]
      BY <2>1, <3>1
    <3>2. ASSUME NEW p \in pool[r], upload'[u] = [pc |-> "settle", row |-> r, hits |-> p]
          PROVE  Known(upload'[u])
      BY <2>1, <2>2, <3>2
    <3> QED
      BY <2>4, <3>1, <3>2
  <2> HIDE DEF Known
  <2> QED
    BY <1>1, <2>3, <2>5
<1>4. ASSUME NEW u \in Uploader, NEW p \in {"settle", "send"}, upload[u].pc # "idle",
             upload' = [upload EXCEPT ![u].pc = p], upload[u].hits \in pool'[upload[u].row]
      PROVE  \A x \in Uploader : Known(upload'[x])
  <2>1. \A x \in Uploader : x # u => upload'[x] = upload[x]
    BY <1>4 DEF TypeOK
  <2>2. upload'[u].row = upload[u].row /\ upload'[u].hits = upload[u].hits
    BY <1>4 DEF TypeOK, UploadType
  <2>3. upload[u].row \in 1..lastId'
    BY <1>0, <1>4 DEF WorkBacked, UploadKnown, Stable
  <2>4. Known(upload'[u])
    BY <1>4, <2>2, <2>3
  <2> HIDE DEF Known
  <2> QED
    BY <1>1, <2>1, <2>4
<1>5. ASSUME NEW u \in Uploader, StoreReplay(u) PROVE \A x \in Uploader : Known(upload'[x])
  <2>1. upload[u].row \in RowId
    BY <1>5, ReplayAssumption DEF StoreReplay, WorkBacked, UploadKnown, TypeOK, RowId
  <2>2. upload[u].hits \in pool'[upload[u].row]
    BY <1>5, <2>1 DEF StoreReplay, TypeOK
  <2> HIDE DEF Known
  <2> QED
    BY <1>4, <1>5, <2>2 DEF StoreReplay
<1>6. ASSUME NEW u \in Uploader, SettleReplay(u) PROVE \A x \in Uploader : Known(upload'[x])
  <2>1. upload[u].hits \in pool'[upload[u].row]
    BY <1>6 DEF SettleReplay, WorkBacked, UploadKnown
  <2> HIDE DEF Known
  <2> QED
    BY <1>4, <1>6, <2>1 DEF SettleReplay
<1>7. ASSUME (\E u \in Uploader : SendReplay(u)) \/ Crash \/ UNCHANGED upload
      PROVE  \A x \in Uploader : Known(upload'[x])
  <2>1. \A x \in Uploader : upload'[x] = upload[x] \/ upload'[x] = IdleUpload
    BY <1>7 DEF SendReplay, Crash, TypeOK
  <2> HIDE DEF Known
  <2> QED
    BY <1>1, <1>2, <2>1
<1>8. \A x \in Uploader : Known(upload'[x])
  <2> HIDE DEF Known
  <2> QED
    BY <1>3, <1>5, <1>6, <1>7, Writers DEF UploadWriters
<1> QED
  BY <1>8 DEF UploadKnown

\* What ScanKnown says of one replayer.
ScanOk(s) ==
  /\ s.pc # "idle" => /\ s.row \in 1..lastId
                      /\ s.pool \in pool[s.row] /\ s.pool # {}
                      /\ s.todo \subseteq s.pool
  /\ s.pc \in {"filter", "accept", "discard"} => s.hit \in s.pool
  /\ s.pc \in {"accept", "discard"} => s.hit = "own"

\* One replayer moved to s, the others did not move.
LEMMA ScanMoved ==
  ASSUME TypeOK, WorkBacked, [Next]_vars, NEW w \in Replayer, NEW s \in ScanType,
         scan' = [scan EXCEPT ![w] = s], ScanOk(s)
  PROVE  ScanKnown'
<1>1. Stable /\ TypeOK'
  BY StepStable, StepTyped
<1>2. \A x \in Replayer : scan'[x] \in ScanType /\ ScanOk(scan'[x])
  BY DEF WorkBacked, ScanKnown, ScanOk, TypeOK
<1>3. ASSUME NEW x \in Replayer, NEW t, t = scan'[x]
      PROVE  /\ t.pc # "idle" => /\ t.row \in 1..lastId'
                                 /\ t.pool \in pool'[t.row] /\ t.pool # {}
                                 /\ t.todo \subseteq t.pool
             /\ t.pc \in {"filter", "accept", "discard"} => t.hit \in t.pool
             /\ t.pc \in {"accept", "discard"} => t.hit = "own"
  <2>1. t \in ScanType /\ ScanOk(t)
    BY <1>2, <1>3
  <2>2. t.pc # "idle" => /\ t.row \in 1..lastId' /\ t.row \in RowId
                         /\ pool[t.row] \subseteq pool'[t.row]
    BY <1>1, <2>1, ReplayAssumption DEF ScanOk, Stable, TypeOK, RowId
  <2> QED
    BY <2>1, <2>2 DEF ScanOk
<1> QED
  BY <1>3 DEF ScanKnown

\* A replay scan that moves on is in a state of the type.
LEMMA ScanTyped ==
  ASSUME TypeOK, NEW w \in Replayer, NEW h \in Hit
  PROVE  /\ [scan[w] EXCEPT !.pc = "filter", !.hit = h] \in ScanType
         /\ [scan[w] EXCEPT !.pc = "accept"] \in ScanType
         /\ [scan[w] EXCEPT !.pc = "discard"] \in ScanType
<1>1. scan[w] \in ScanType
  BY DEF TypeOK
<1> QED
  BY <1>1 DEF ScanType

\* A replay scan works on the replay stored for its row.
LEMMA ScanKnownStep ==
  ASSUME TypeOK, WorkBacked, [Next]_vars
  PROVE  ScanKnown'
<1> Stable /\ TypeOK'
  BY StepStable, StepTyped
<1>1. ASSUME NEW w \in Replayer, NEW r \in RowId, NEW p \in SUBSET Hit, StartScan(w, r, p) PROVE ScanKnown'
  <2>1. CASE scan' = [scan EXCEPT ![w] = IdleScan]
    <3>1. ScanOk(IdleScan)
      BY DEF ScanOk, IdleScan
    <3> QED
      BY <2>1, <3>1, IdleTyped, ScanMoved
  <2>2. CASE p \in pool[r] /\ p # {}
    <3>1. r \in 1..lastId
      BY <2>2 DEF WorkBacked, RowsKnown, RowId, TypeOK
    <3>2. ScanOk(ScanOf(r, p))
      BY <2>2, <3>1 DEF ScanOk, ScanOf
    <3>3. scan' = [scan EXCEPT ![w] = ScanOf(r, p)]
      BY <1>1, <2>2 DEF StartScan
    <3> QED
      BY <3>2, <3>3, ScanOfTyped, ScanMoved
  <2> QED
    BY <1>1, <2>1, <2>2 DEF StartScan
<1>9. ASSUME NEW w \in Replayer, ScanRaises(w) PROVE ScanKnown'
  <2>1. ScanOk(IdleScan)
    BY DEF ScanOk, IdleScan
  <2> QED
    BY <1>9, <2>1, IdleTyped, ScanMoved DEF ScanRaises
<1>2. ASSUME NEW w \in Replayer, NEW h \in Hit, ScanMarks(w, h) PROVE ScanKnown'
  <2>1. CASE scan' = [scan EXCEPT ![w] = IdleScan]
    <3>1. ScanOk(IdleScan)
      BY DEF ScanOk, IdleScan
    <3> QED
      BY <2>1, <3>1, IdleTyped, ScanMoved
  <2>2. CASE scan' = [scan EXCEPT ![w].pc = "filter", ![w].hit = h]
    <3> DEFINE s == [scan[w] EXCEPT !.pc = "filter", !.hit = h]
    <3>1. s \in ScanType
      BY ScanTyped
    <3>2. ScanOk(s)
      BY <1>2 DEF ScanMarks, WorkBacked, ScanKnown, ScanOk, TypeOK, ScanType
    <3>3. scan' = [scan EXCEPT ![w] = s]
      BY <2>2 DEF TypeOK
    <3> HIDE DEF s
    <3> QED
      BY <3>1, <3>2, <3>3, ScanMoved
  <2> QED
    BY <1>2, <2>1, <2>2 DEF ScanMarks
<1>3. ASSUME NEW w \in Replayer, ScanFilters(w) PROVE ScanKnown'
  <2>1. ScanRest(w) \in ScanType
    BY ScanRestTyped DEF TypeOK
  <2>2. ScanOk(ScanRest(w))
    <3>1. ScanOk(scan[w]) /\ scan[w] \in ScanType /\ scan[w].pc # "idle"
      BY <1>3 DEF ScanFilters, WorkBacked, ScanKnown, ScanOk, TypeOK
    <3> QED
      BY <3>1 DEF ScanRest, ScanOk, IdleScan, ScanType
  <2>3. scan' = [scan EXCEPT ![w] = ScanRest(w)]
    BY <1>3 DEF ScanFilters
  <2> QED
    BY <2>1, <2>2, <2>3, ScanMoved
<1>4. ASSUME NEW w \in Replayer, ScanHandles(w) PROVE ScanKnown'
  <2>1. CASE scan' = [scan EXCEPT ![w] = IdleScan]
    <3>1. ScanOk(IdleScan)
      BY DEF ScanOk, IdleScan
    <3> QED
      BY <2>1, <3>1, IdleTyped, ScanMoved
  <2>2. CASE scan[w].hit = "own" /\ scan' = [scan EXCEPT ![w].pc = "accept"]
    <3> DEFINE s == [scan[w] EXCEPT !.pc = "accept"]
    <3>1. s \in ScanType
      BY ScanTyped DEF Hit
    <3>2. ScanOk(s)
      <4>1. scan[w] \in ScanType /\ ScanOk(scan[w]) /\ scan[w].pc = "filter"
        BY <1>4 DEF ScanHandles, WorkBacked, ScanKnown, ScanOk, TypeOK
      <4> QED
        BY <2>2, <4>1 DEF ScanOk, ScanType
    <3>3. scan' = [scan EXCEPT ![w] = s]
      BY <2>2 DEF TypeOK
    <3> HIDE DEF s
    <3> QED
      BY <3>1, <3>2, <3>3, ScanMoved
  <2> QED
    BY <1>4, <2>1, <2>2 DEF ScanHandles
<1>5. ASSUME NEW w \in Replayer, ScanAccepts(w) PROVE ScanKnown'
  <2> DEFINE s == [scan[w] EXCEPT !.pc = "discard"]
  <2>1. s \in ScanType
    BY ScanTyped DEF Hit
  <2>2. ScanOk(s)
    BY <1>5 DEF ScanAccepts, WorkBacked, ScanKnown, ScanOk, TypeOK, ScanType
  <2>3. scan' = [scan EXCEPT ![w] = s]
    BY <1>5 DEF ScanAccepts, TypeOK
  <2> HIDE DEF s
  <2> QED
    BY <2>1, <2>2, <2>3, ScanMoved
<1>6. ASSUME NEW w \in Replayer, ScanDiscards(w) PROVE ScanKnown'
  <2>1. ScanRest(w) \in ScanType
    BY ScanRestTyped DEF TypeOK
  <2>2. ScanOk(ScanRest(w))
    <3>1. ScanOk(scan[w]) /\ scan[w] \in ScanType /\ scan[w].pc # "idle"
      BY <1>6 DEF ScanDiscards, WorkBacked, ScanKnown, ScanOk, TypeOK
    <3> QED
      BY <3>1 DEF ScanRest, ScanOk, IdleScan, ScanType
  <2>3. scan' = [scan EXCEPT ![w] = ScanRest(w)]
    BY <1>6 DEF ScanDiscards
  <2> QED
    BY <2>1, <2>2, <2>3, ScanMoved
<1>7. ASSUME Crash PROVE ScanKnown'
  <2>1. CASE UNCHANGED scan
    BY <2>1 DEF WorkBacked, ScanKnown, Stable, TypeOK, ScanType, RowId
  <2>2. ASSUME NEW w \in Replayer, scan' = [scan EXCEPT ![w] = IdleScan] PROVE ScanKnown'
    <3>1. ScanOk(IdleScan)
      BY DEF ScanOk, IdleScan
    <3> QED
      BY <2>2, <3>1, IdleTyped, ScanMoved
  <2> QED
    BY <1>7, <2>1, <2>2 DEF Crash
<1>8. CASE UNCHANGED <<scan>>
  BY <1>8 DEF WorkBacked, ScanKnown, Stable, TypeOK, ScanType, RowId
<1> QED
  BY <1>1, <1>2, <1>3, <1>4, <1>5, <1>6, <1>7, <1>8, <1>9, Writers
     DEF ScanWriters

--------------------------------------------------------------------------------
(* Verdicts and confirmations keep their evidence.                           *)

\* A row whose result did not change keeps its evidence, and so does a new row.
LEMMA EvidenceKept ==
  ASSUME TypeOK, WorkBacked, VerdictJustified, [Next]_vars, NEW q \in RowId,
         queue'[q].result = queue[q].result \/ queue'[q].result = "NULL"
  PROVE  Justified(q)'
<1>1. Stable /\ TypeOK' /\ Justified(q)
  BY StepStable, StepTyped DEF VerdictJustified
<1>2. CASE queue'[q].result = "NULL"
  BY <1>2 DEF Justified
<1>3. CASE queue'[q].result = queue[q].result /\ queue[q].result # "NULL"
  <2>1. q <= lastId /\ queue[q].vul \in Vul /\ vul[queue[q].vul] # "ABSENT"
    BY <1>3 DEF WorkBacked, RowsKnown, NoRow, TypeOK, RowId
  <2>2. queue'[q].vul = queue[q].vul
    BY <1>1, <2>1 DEF Stable
  <2>3. ASSUME NEW p \in RowId, Reproduced(p) PROVE Reproduced(p)'
    BY <1>1, <2>3 DEF Reproduced, Hits, Stable
  <2>4. ASSUME NEW p \in RowsOf(queue[q].vul) \ {q} PROVE p \in RowsOf(queue[q].vul)'
    <3>1. p \in RowId /\ p <= lastId
      BY <2>1, <2>4, ReplayAssumption DEF WorkBacked, RowsKnown, RowsOf, NoRow, RowId, TypeOK
    <3> QED
      BY <1>1, <2>2, <2>4, <3>1 DEF Stable, RowsOf
  <2>5. ~Exists(queue[q].vul) => ~Exists(queue[q].vul)'
    BY <1>1, <2>1, <2>2 DEF Exists, Stable
  <2>6. Hits(q) # {} => Hits(q)' # {}
    BY <1>1 DEF Stable, Hits
  <2>7. CASE queue[q].result = "RECHECK_TRUE"
    BY <1>1, <1>3, <2>3, <2>7 DEF Justified
  <2>8. CASE queue[q].result = "RECHECK_FALSE"
    BY <1>1, <1>3, <2>6, <2>8 DEF Justified
  <2>9. CASE queue[q].result = "RECHECK_DISCARD"
    <3>1. PICK p \in RowsOf(queue[q].vul) \ {q} : Reproduced(p)
      BY <1>1, <2>9 DEF Justified
    <3>2. p \in RowId /\ Reproduced(p)' /\ p \in RowsOf(queue[q].vul)' \ {q}
      BY <3>1, <2>3, <2>4 DEF RowsOf
    <3> QED
      BY <1>3, <2>9, <3>2 DEF Justified
  <2>10. CASE queue[q].result = "RECHECK_ERROR"
    BY <1>1, <1>3, <2>2, <2>5, <2>10 DEF Justified
  <2>11. queue[q].result \in Result
    BY DEF TypeOK, Row
  <2> QED
    BY <1>3, <2>7, <2>8, <2>9, <2>10, <2>11 DEF Result
<1> QED
  BY <1>2, <1>3

\* Every step that writes a verdict has the evidence at hand.
LEMMA VerdictStep ==
  ASSUME TypeOK, WorkBacked, VerdictJustified, [Next]_vars
  PROVE  VerdictJustified'
<1>1. ASSUME NEW d \in Detector, RequeueRow(d) PROVE VerdictJustified'
  <2>1. \A q \in RowId : queue'[q].result = queue[q].result
    BY <1>1, MovedKeeps DEF RequeueRow, TypeOK, Row
  <2> QED
    BY <2>1, EvidenceKept DEF VerdictJustified
<1>2. ASSUME NEW d \in Detector, CreateRows(d) PROVE VerdictJustified'
  <2>1. \A q \in RowId : queue'[q].result = queue[q].result \/ queue'[q].result = "NULL"
    BY <1>2 DEF CreateRows, TypeOK, PendingRow, queueVars, poolVars
  <2> QED
    BY <2>1, EvidenceKept DEF VerdictJustified
<1>3. ASSUME NEW r \in RowId, RecheckFails(r) PROVE VerdictJustified'
  <2>1. \A q \in RowId \ {r} : queue'[q].result = queue[q].result
    BY <1>3 DEF RecheckFails, TypeOK, Row
  <2>2. queue'[r].result = "RECHECK_ERROR" /\ queue'[r].vul = queue[r].vul
    BY <1>3 DEF RecheckFails, TypeOK, Row
  <2>3. ~Exists(queue[r].vul)
    BY <1>3 DEF RecheckFails, NextRow, WorkBacked, RecheckKnown
  <2>4. vul' = vul
    BY <1>3 DEF RecheckFails
  <2>5. Justified(r)'
    BY <2>2, <2>3, <2>4 DEF Justified, Exists
  <2> QED
    BY <2>1, <2>5, EvidenceKept DEF VerdictJustified
<1>4. ASSUME NEW r \in RowId, RecheckPrepares(r) PROVE VerdictJustified'
  <2>1. \A q \in RowId : queue'[q].result = queue[q].result
    BY <1>4 DEF RecheckPrepares, TypeOK, Row
  <2> QED
    BY <2>1, EvidenceKept DEF VerdictJustified
<1>5. ASSUME NEW a \in Agent, HeartbeatSettle(a) PROVE VerdictJustified'
  <2>1. \A q \in RowId : queue'[q].result = queue[q].result
    BY <1>5, MovedKeeps DEF HeartbeatSettle, TypeOK, Row
  <2> QED
    BY <2>1, EvidenceKept DEF VerdictJustified
<1>6. ASSUME NEW a \in Agent, HeartbeatIssue(a) PROVE VerdictJustified'
  <2>1. \A q \in RowId : queue'[q].result = queue[q].result
    BY <1>6, MovedKeeps DEF HeartbeatIssue, TypeOK, Row
  <2> QED
    BY <2>1, EvidenceKept DEF VerdictJustified
<1>7. ASSUME NEW a \in Agent, HeartbeatReply(a) PROVE VerdictJustified'
  <2>1. \A q \in RowId : queue'[q].result = queue[q].result
    BY <1>7, MovedKeeps DEF HeartbeatReply, TypeOK, Row
  <2> QED
    BY <2>1, EvidenceKept DEF VerdictJustified
<1>8. ASSUME NEW u \in Uploader, SettleReplay(u) PROVE VerdictJustified'
  <2>1. \A q \in RowId : queue'[q].result = queue[q].result
    BY <1>8, MovedKeeps DEF SettleReplay, TypeOK, Row
  <2> QED
    BY <2>1, EvidenceKept DEF VerdictJustified
<1>13. ASSUME NEW r \in RowId, RecheckUnparsable(r) PROVE VerdictJustified'
  <2>1. \A q \in RowId \ {r} : queue'[q].result = queue[q].result
    BY <1>13 DEF RecheckUnparsable, TypeOK, Row
  <2>2. queue'[r].result = "RECHECK_ERROR" /\ queue'[r].vul \in Unparsable
    BY <1>13 DEF RecheckUnparsable, TypeOK, Row
  <2>3. Justified(r)'
    BY <2>2 DEF Justified
  <2> QED
    BY <2>1, <2>3, EvidenceKept DEF VerdictJustified
<1>9. ASSUME NEW w \in Replayer, NEW h \in Hit, ScanMarks(w, h) PROVE VerdictJustified'
  <2>1. CASE queue' = queue
    BY <2>1, EvidenceKept DEF VerdictJustified
  <2>2. CASE queue' = [queue EXCEPT ![scan[w].row].state = "SOLVED", ![scan[w].row].result = "RECHECK_FALSE"]
    <3>1. \A q \in RowId \ {scan[w].row} : queue'[q].result = queue[q].result
      BY <2>2 DEF TypeOK, Row
    <3>2. scan[w].row \in RowId /\ Hits(scan[w].row) # {}
      BY <1>9, ScanAtRow DEF ScanMarks
    <3>3. queue'[scan[w].row].result = "RECHECK_FALSE" /\ pool' = pool
      BY <1>9, <2>2, <3>2 DEF ScanMarks, TypeOK, Row, poolVars
    <3>4. ASSUME NEW q \in RowId, q = scan[w].row PROVE Justified(q)'
      BY <3>2, <3>3, <3>4 DEF Justified, Hits
    <3> QED
      BY <3>1, <3>4, EvidenceKept DEF VerdictJustified
  <2> QED
    BY <1>9, <2>1, <2>2 DEF ScanMarks
<1>10. ASSUME NEW w \in Replayer, ScanAccepts(w) PROVE VerdictJustified'
  <2>1. \A q \in RowId \ {scan[w].row} : queue'[q].result = queue[q].result
    BY <1>10 DEF ScanAccepts, TypeOK, Row
  <2>2. scan[w].row \in RowId /\ "own" \in Hits(scan[w].row)
    BY <1>10, ScanAtRow DEF ScanAccepts
  <2>3. queue'[scan[w].row].result = "RECHECK_TRUE" /\ pool' = pool
    BY <1>10, <2>2 DEF ScanAccepts, TypeOK, Row, poolVars
  <2>4. ASSUME NEW q \in RowId, q = scan[w].row PROVE Justified(q)'
    BY <2>2, <2>3, <2>4 DEF Justified, Reproduced, Hits
  <2> QED
    BY <2>1, <2>4, EvidenceKept DEF VerdictJustified
<1>11. ASSUME NEW w \in Replayer, ScanDiscards(w) PROVE VerdictJustified'
  <2> DEFINE v == queue[scan[w].row].vul
             others == {r \in RowsOf(v) : r # scan[w].row /\ queue[r].state # "SOLVED"}
  <2>1. \A q \in RowId \ others : queue'[q].result = queue[q].result
    BY <1>11 DEF ScanDiscards, TypeOK, Row
  <2>2. scan[w].row \in RowId /\ "own" \in Hits(scan[w].row)
    BY <1>11, ScanAtRow DEF ScanDiscards
  <2>3. \A q \in RowId : queue'[q].vul = queue[q].vul
    BY <1>11 DEF ScanDiscards, TypeOK, Row
  <2>4. ASSUME NEW q \in others PROVE Justified(q)'
    <3>1. q \in RowId /\ queue[q].vul = v /\ q # scan[w].row
      BY DEF RowsOf
    <3>2. queue'[q].result = "RECHECK_DISCARD" /\ pool' = pool
      BY <1>11, <3>1 DEF ScanDiscards, TypeOK, Row, poolVars
    <3>3. scan[w].row \in RowsOf(queue[q].vul)' \ {q}
      BY <2>2, <2>3, <3>1 DEF RowsOf
    <3>4. \E p \in RowsOf(queue[q].vul)' \ {q} : "own" \in Hits(p)'
      BY <2>2, <3>2, <3>3 DEF Hits
    <3> QED
      BY <3>2, <3>4 DEF Justified, Reproduced
  <2> HIDE DEF others
  <2> QED
    BY <2>1, <2>4, EvidenceKept DEF VerdictJustified
<1>12. CASE UNCHANGED <<queue>>
  BY <1>12, EvidenceKept DEF VerdictJustified
<1> QED
  BY <1>1, <1>2, <1>3, <1>4, <1>5, <1>6, <1>7, <1>8, <1>9, <1>10, <1>11, <1>12, <1>13, Writers
     DEF QueueWriters

\* A confirmation is logged by the scan that holds its evidence.
LEMMA ConfirmationStep ==
  ASSUME TypeOK, WorkBacked, ConfirmationJustified, [Next]_vars
  PROVE  ConfirmationJustified'
<1>k. ASSUME \A v \in Vul : "CONFIRMED" \in logged'[v] => \E r \in RowsOf(v) : Reproduced(r)
      PROVE  ConfirmationJustified'
  <2>1. Stable
    BY StepStable
  <2>2. ASSUME NEW v \in Vul, NEW r \in RowsOf(v), Reproduced(r)
        PROVE  r \in RowsOf(v)' /\ Reproduced(r)'
    <3>1. r \in RowId /\ r <= lastId /\ queue[r].vul = v
      BY <2>2, ReplayAssumption DEF WorkBacked, RowsKnown, RowsOf, NoRow, RowId, TypeOK
    <3> QED
      BY <2>1, <2>2, <3>1 DEF Stable, RowsOf, Reproduced, Hits
  <2> QED
    BY <1>k, <2>2 DEF ConfirmationJustified
<1>1. ASSUME NEW w \in Replayer, NEW h \in Hit, ScanMarks(w, h) PROVE ConfirmationJustified'
  <2>1. \A v \in Vul : "CONFIRMED" \in logged'[v] => "CONFIRMED" \in logged[v]
    <3> DEFINE u == queue[scan[w].row].vul
    <3>1. logged' = logged \/ logged' = [logged EXCEPT ![u] = @ \cup {"IGNORED"}]
      BY <1>1 DEF ScanMarks
    <3>2. logged \in [Vul -> SUBSET {"IGNORED", "CONFIRMED"}]
      BY DEF TypeOK
    <3> HIDE DEF u
    <3> QED
      BY <3>1, <3>2
  <2> QED
    BY <2>1, <1>k DEF ConfirmationJustified
<1>2. ASSUME NEW w \in Replayer, ScanDiscards(w) PROVE ConfirmationJustified'
  <2> DEFINE u == queue[scan[w].row].vul
  <2>1. scan[w].row \in RowId /\ "own" \in Hits(scan[w].row) /\ u \in Vul
    BY <1>2, ScanAtRow DEF ScanDiscards
  <2>2. \A v \in Vul : "CONFIRMED" \in logged'[v] => "CONFIRMED" \in logged[v] \/ v = u
    BY <1>2 DEF ScanDiscards, TypeOK
  <2>3. \E r \in RowsOf(u) : Reproduced(r)
    BY <2>1 DEF RowsOf, Reproduced
  <2> HIDE DEF u
  <2> QED
    BY <2>1, <2>2, <2>3, <1>k DEF ConfirmationJustified
<1>3. CASE UNCHANGED <<logged>>
  BY <1>3, <1>k DEF ConfirmationJustified
<1> QED
  BY <1>1, <1>2, <1>3, Writers
     DEF LoggedWriters

--------------------------------------------------------------------------------
(* The inductive invariant.                                                  *)

IInv == TypeOK /\ WorkBacked /\ VerdictJustified /\ ConfirmationJustified

\* The inductive invariant holds at the start.
LEMMA InitIInv == Init => IInv
<1> SUFFICES ASSUME Init PROVE IInv
  OBVIOUS
<1>1. TypeOK
  BY InitTyped
<1>2. RowsKnown
  BY ReplayAssumption DEF Init, RowsKnown, RowId
<1>3. TaskKnown /\ RecheckKnown /\ BeatKnown /\ UploadKnown /\ ScanKnown
  BY DEF Init, TaskKnown, RecheckKnown, BeatKnown, UploadKnown, ScanKnown, IdleTask, IdleRecheck, IdleBeat,
         IdleUpload, IdleScan
<1>4. VerdictJustified
  BY DEF Init, VerdictJustified, Justified, NoRow
<1>5. ConfirmationJustified
  BY DEF Init, ConfirmationJustified
<1> QED
  BY <1>1, <1>2, <1>3, <1>4, <1>5 DEF IInv, WorkBacked

\* Every step keeps the inductive invariant.
LEMMA StepIInv == IInv /\ [Next]_vars => IInv'
<1> SUFFICES ASSUME IInv, [Next]_vars PROVE IInv'
  OBVIOUS
<1>1. TypeOK /\ WorkBacked /\ VerdictJustified /\ ConfirmationJustified
  BY DEF IInv
<1>2. TypeOK'
  BY <1>1, StepTyped
<1>3. WorkBacked'
  BY <1>1, RowsKnownStep, TaskKnownStep, RecheckKnownStep, BeatKnownStep, UploadKnownStep,
     ScanKnownStep DEF WorkBacked
<1> QED
  BY <1>1, <1>2, <1>3, VerdictStep, ConfirmationStep DEF IInv

\* Workers only ever hold rows, requests and replays that are stored
\* (vul_handler.py, tasks.py, heartbeat_handler.py).
THEOREM WorkAlwaysBacked == Spec => []WorkBacked
<1>1. IInv => WorkBacked
  BY DEF IInv
<1> QED
  BY <1>1, InitIInv, StepIInv, PTL DEF Spec

\* No interleaving leaves a verdict in iast_replay_queue without its evidence.
THEOREM VerdictAlwaysJustified == Spec => []VerdictJustified
<1>1. IInv => VerdictJustified
  BY DEF IInv
<1> QED
  BY <1>1, InitIInv, StepIInv, PTL DEF Spec

\* A confirmation is only logged for a vulnerability one of whose own rows was reproduced.
THEOREM ConfirmationAlwaysJustified == Spec => []ConfirmationJustified
<1>1. IInv => ConfirmationJustified
  BY DEF IInv
<1> QED
  BY <1>1, InitIInv, StepIInv, PTL DEF Spec

--------------------------------------------------------------------------------
(* Requests that agents get are built.                                       *)

\* What a step may do to row q: keep its request, build it, or insert the row.
RowStep(q) ==
  \/ /\ queue'[q].vul = queue[q].vul /\ queue'[q].prepared = queue[q].prepared /\ queue'[q].uri = queue[q].uri
     /\ queue'[q].state \in {"WAITING", "SOLVING"} => queue[q].state \in {"WAITING", "SOLVING"}
  \/ /\ queue'[q].vul = queue[q].vul /\ queue'[q].prepared
     /\ queue'[q].uri <=> queue[q].vul \notin NoUri
  \/ queue[q] = NoRow /\ \E v \in Vul : queue'[q] = PendingRow(v)

\* A bulk update of a heartbeat leaves requests alone, and offers no other row.
LEMMA MovedOffers ==
  ASSUME queue \in [RowId -> Row], NEW ids, NEW from, NEW to, NEW q \in RowId,
         to \in {"WAITING", "SOLVING"} => from \subseteq {"WAITING", "SOLVING"}
  PROVE  /\ Moved(ids, from, to)[q].vul = queue[q].vul
         /\ Moved(ids, from, to)[q].prepared = queue[q].prepared
         /\ Moved(ids, from, to)[q].uri = queue[q].uri
         /\ Moved(ids, from, to)[q].state \in {"WAITING", "SOLVING"} => queue[q].state \in {"WAITING", "SOLVING"}
BY DEF Moved, Row

\* Every step does one of these to each row.
LEMMA RowSteps ==
  ASSUME TypeOK, WorkBacked, [Next]_vars, NEW q \in RowId
  PROVE  RowStep(q)
<1> queue \in [RowId -> Row] /\ queue[q] \in Row
  BY DEF TypeOK
<1>1. ASSUME NEW d \in Detector, RequeueRow(d) PROVE RowStep(q)
  BY <1>1 DEF RequeueRow, Row, RowStep
<1>2. ASSUME NEW d \in Detector, CreateRows(d) PROVE RowStep(q)
  <2>1. CASE queue'[q] = queue[q]
    BY <2>1 DEF RowStep
  <2>2. CASE queue'[q] # queue[q]
    <3>1. task[d].vul \in Vul /\ BatchSize(task[d].vul) \in Nat /\ lastId \in Nat
      BY <1>2, BatchSizeTyped DEF CreateRows, TypeOK, TaskType
    <3>2. q \in (lastId + 1)..(lastId + BatchSize(task[d].vul)) /\ queue'[q] = PendingRow(task[d].vul)
      BY <1>2, <2>2 DEF CreateRows, queueVars, poolVars
    <3>3. q > lastId
      BY <3>1, <3>2 DEF RowId
    <3> QED
      BY <3>1, <3>2, <3>3 DEF WorkBacked, RowsKnown, RowStep
  <2> QED
    BY <2>1, <2>2
<1>3. ASSUME NEW r \in RowId, RecheckFails(r) PROVE RowStep(q)
  BY <1>3 DEF RecheckFails, Row, RowStep
<1>4. ASSUME NEW r \in RowId, RecheckPrepares(r) PROVE RowStep(q)
  <2>1. CASE q # r
    BY <1>4, <2>1 DEF RecheckPrepares, RowStep
  <2>2. CASE q = r
    <3>1. PICK u : u = (queue[q].vul \notin NoUri)
      OBVIOUS
    <3>2. queue' = [queue EXCEPT ![q].state = "WAITING", ![q].prepared = TRUE, ![q].uri = u]
      BY <1>4, <2>2, <3>1, Zenon DEF RecheckPrepares
    <3>3. queue'[q].vul = queue[q].vul /\ queue'[q].prepared = TRUE /\ queue'[q].uri = u
      BY <3>2 DEF Row
    <3> QED
      BY <3>1, <3>3, Zenon DEF RowStep
  <2> QED
    BY <2>1, <2>2
<1>5. ASSUME NEW a \in Agent, HeartbeatSettle(a) PROVE RowStep(q)
  BY <1>5, MovedOffers DEF HeartbeatSettle, RowStep
<1>6. ASSUME NEW a \in Agent, HeartbeatIssue(a) PROVE RowStep(q)
  BY <1>6, MovedOffers DEF HeartbeatIssue, RowStep
<1>7. ASSUME NEW a \in Agent, HeartbeatReply(a) PROVE RowStep(q)
  BY <1>7, MovedOffers DEF HeartbeatReply, RowStep
<1>8. ASSUME NEW u \in Uploader, SettleReplay(u) PROVE RowStep(q)
  BY <1>8 DEF SettleReplay, Row, RowStep
<1>13. ASSUME NEW r \in RowId, RecheckUnparsable(r) PROVE RowStep(q)
  BY <1>13 DEF RecheckUnparsable, Row, RowStep
<1>9. ASSUME NEW w \in Replayer, NEW h \in Hit, ScanMarks(w, h) PROVE RowStep(q)
  BY <1>9 DEF ScanMarks, Row, RowStep
<1>10. ASSUME NEW w \in Replayer, ScanAccepts(w) PROVE RowStep(q)
  BY <1>10 DEF ScanAccepts, Row, RowStep
<1>11. ASSUME NEW w \in Replayer, ScanDiscards(w) PROVE RowStep(q)
  BY <1>11 DEF ScanDiscards, Row, RowStep
<1>12. CASE UNCHANGED queue
  BY <1>12 DEF RowStep
<1> QED
  BY <1>1, <1>2, <1>3, <1>4, <1>5, <1>6, <1>7, <1>8, <1>9, <1>10, <1>11, <1>12, <1>13, Writers
     DEF QueueWriters

\* A request is built once and for all: whether it has a uri is decided by the vulnerability.
Ready(r) == queue[r].prepared /\ queue[r].uri

Built == \A r \in RowId :
  /\ queue[r].state \in {"WAITING", "SOLVING"} => queue[r].prepared
  /\ Ready(r) => queue[r].vul \notin NoUri
  /\ queue[r].uri => queue[r].prepared
  /\ inflight[r] > 0 \/ pool[r] # {} => Ready(r)
  /\ \A u \in Uploader : upload[u].pc # "idle" /\ upload[u].row = r => Ready(r)
  /\ \A a \in Agent : r \in beat[a].success => Ready(r)

\* A request that is built stays built.
LEMMA ReadyStays ==
  ASSUME TypeOK, WorkBacked, Built, [Next]_vars, NEW r \in RowId, Ready(r)
  PROVE  Ready(r)'
<1>1. queue[r] # NoRow
  <2>1. NoRow.prepared = FALSE
    BY DEF NoRow
  <2> QED
    BY <2>1, Zenon DEF Ready
<1> QED
  BY <1>1, RowSteps, Zenon DEF RowStep, Ready, Built

\* Every step keeps built what agents hold.
LEMMA BuiltStep ==
  ASSUME TypeOK, WorkBacked, Built, [Next]_vars
  PROVE  Built'
<1>1. ASSUME NEW r \in RowId
      PROVE  /\ queue'[r].state \in {"WAITING", "SOLVING"} => queue'[r].prepared
             /\ Ready(r)' => queue'[r].vul \notin NoUri
             /\ queue'[r].uri => queue'[r].prepared
  <2>1. CASE queue[r] = NoRow /\ \E v \in Vul : queue'[r] = PendingRow(v)
    BY <2>1 DEF PendingRow, Ready
  <2>2. CASE ~(queue[r] = NoRow /\ \E v \in Vul : queue'[r] = PendingRow(v))
    BY <2>2, RowSteps, Zenon DEF RowStep, Built, Ready
  <2> QED
    BY <2>1, <2>2
<1>2. ASSUME NEW r \in RowId PROVE inflight'[r] > 0 \/ pool'[r] # {} => Ready(r)'
  <2>1. Ready(r) => Ready(r)'
    BY ReadyStays
  <2>2. inflight[r] \in Nat
    BY ReplayAssumption DEF TypeOK
  <2>3. ASSUME NEW a \in Agent, HeartbeatReply(a) PROVE inflight'[r] > 0 => inflight[r] > 0 \/ r \in beat[a].success
    BY <2>2, <2>3 DEF HeartbeatReply, TypeOK
  <2>4. ASSUME NEW q \in RowId, LoseReplay(q) PROVE inflight'[r] > 0 => inflight[r] > 0
    BY <2>2, <2>4 DEF LoseReplay, TypeOK
  <2>5. ASSUME NEW u \in Uploader, NEW q \in RowId, NEW hits \in Answer, StartUpload(u, q, hits)
        PROVE  inflight'[r] > 0 => inflight[r] > 0
    BY <2>2, <2>5 DEF StartUpload, TypeOK
  <2>6. ASSUME NEW u \in Uploader, StoreReplay(u) PROVE pool'[r] # {} => pool[r] # {} \/ upload[u].row = r
    BY <2>6 DEF StoreReplay, TypeOK
  <2>7. ASSUME NEW u \in Uploader, StoreReplay(u), upload[u].row = r PROVE Ready(r)
    BY <2>7 DEF StoreReplay, Built
  <2> QED
    BY <2>1, <2>3, <2>4, <2>5, <2>6, <2>7, Writers DEF InflightWriters, PoolWriters, Built
<1>4. ASSUME NEW r \in RowId, NEW u \in Uploader PROVE upload'[u].pc # "idle" /\ upload'[u].row = r => Ready(r)'
  <2>1. Ready(r) => Ready(r)'
    BY ReadyStays
  <2>2. upload \in [Uploader -> UploadType]
    BY DEF TypeOK
  <2>3. ASSUME NEW x \in Uploader, NEW q \in RowId, NEW hits \in Answer, StartUpload(x, q, hits)
        PROVE  \/ upload'[u].row = q /\ inflight[q] > 0
               \/ upload'[u] = upload[u]
    BY <2>2, <2>3 DEF StartUpload
  <2>4. ASSUME NEW x \in Uploader, StoreReplay(x) \/ SettleReplay(x)
        PROVE  upload[x].pc # "idle" /\ upload'[u].row = upload[u].row /\ (u # x => upload'[u] = upload[u])
    BY <2>2, <2>4 DEF StoreReplay, SettleReplay, UploadType
  <2>5. ASSUME (\E x \in Uploader : SendReplay(x)) \/ Crash
        PROVE  upload'[u] = upload[u] \/ upload'[u].pc = "idle"
    <3>1. ASSUME NEW x \in Uploader, upload' = [upload EXCEPT ![x] = IdleUpload]
          PROVE  upload'[u] = upload[u] \/ upload'[u].pc = "idle"
      BY <2>2, <3>1 DEF IdleUpload
    <3> QED
      BY <2>5, <3>1 DEF SendReplay, Crash
  <2> QED
    BY <2>1, <2>3, <2>4, <2>5, Writers DEF UploadWriters, Built
<1>3. ASSUME NEW r \in RowId, NEW a \in Agent PROVE r \in beat'[a].success => Ready(r)'
  <2>1. Ready(r) => Ready(r)'
    BY ReadyStays
  <2>2. beat[a] \in BeatType
    BY DEF TypeOK
  <2>3. ASSUME NEW b \in Agent, HeartbeatQuery(b) PROVE r \in beat'[a].success => Ready(r)
    BY <2>2, <2>3 DEF HeartbeatQuery, TypeOK, InState, Ready, Built
  <2>4. ASSUME NEW b \in Agent, HeartbeatSettle(b) \/ HeartbeatIssue(b) \/ HeartbeatReply(b) \/ Crash
        PROVE  r \in beat'[a].success => r \in beat[a].success
    <3>1. beat \in [Agent -> BeatType]
      BY DEF TypeOK
    <3>2. CASE \E c \in Agent, p \in {"issue", "reply"} : beat' = [beat EXCEPT ![c].pc = p]
      BY <2>2, <3>1, <3>2 DEF BeatType
    <3>3. CASE \E c \in Agent : beat' = [beat EXCEPT ![c] = IdleBeat]
      BY <3>1, <3>3 DEF IdleBeat
    <3> QED
      BY <2>4, <3>2, <3>3 DEF HeartbeatSettle, HeartbeatIssue, HeartbeatReply, Crash
  <2> QED
    BY <2>1, <2>3, <2>4, Writers DEF BeatWriters, Built
<1> QED
  BY <1>1, <1>2, <1>3, <1>4 DEF Built, Ready

(* RequestPrepared: only requests that vul_recheck has built are offered to heartbeats,
   held by agents and answered, whatever is queued again meanwhile (tasks.py 303-480,
   heartbeat_handler.py 92-174).                                             *)
THEOREM RequestAlwaysPrepared == Spec => []RequestPrepared
<1>1. Init => Built
  BY ReplayAssumption DEF Init, Built, Ready, NoRow, IdleBeat, IdleUpload
<1>2. IInv /\ Built /\ [Next]_vars => Built'
  BY BuiltStep DEF IInv
<1>3. Built => RequestPrepared
  BY DEF Built, RequestPrepared, Ready
<1> QED
  BY <1>1, <1>2, <1>3, InitIInv, StepIInv, PTL DEF Spec

--------------------------------------------------------------------------------
(* How often an agent is given a row.                                        *)

\* A row is WAITING until an agent that was given it issues it, and SOLVING until one
\* that is given it again settles it.
Offered(a, r) ==
  /\ selected[a][r] <= 2 + crashes
  /\ queue[r].state = "WAITING" =>
       \/ selected[a][r] <= crashes
       \/ selected[a][r] <= 1 + crashes /\ beat[a].pc \in {"settle", "issue"} /\ r \in beat[a].success
  /\ queue[r].state = "SOLVING" =>
       selected[a][r] <= 1 + crashes \/ (beat[a].pc = "settle" /\ r \in beat[a].success)

Offers == \A a \in Agent, r \in RowId : Offered(a, r)

\* Whatever else happens puts no row on offer.
LEMMA OffersKept ==
  ASSUME TypeOK, Offers, UNCHANGED <<selected, beat, crashes>>,
         \A r \in RowId : queue'[r].state \in {"WAITING", "SOLVING"} => queue'[r].state = queue[r].state
  PROVE  Offers'
BY DEF Offers, Offered

\* Every step keeps the bounds.
LEMMA OffersStep ==
  ASSUME TypeOK, WorkBacked, Offers, [Next]_vars
  PROVE  Offers'
<1>. /\ queue \in [RowId -> Row] /\ beat \in [Agent -> BeatType] /\ crashes \in Nat
     /\ \A a \in Agent, r \in RowId : selected[a][r] \in Nat
  BY ReplayAssumption DEF TypeOK
<1>1. ASSUME NEW d \in Detector, RequeueRow(d) PROVE Offers'
  BY <1>1, OffersKept DEF RequeueRow, agentVars, poolVars, Row
<1>2. ASSUME NEW d \in Detector, CreateRows(d) PROVE Offers'
  BY <1>2, OffersKept DEF CreateRows, agentVars, poolVars, queueVars, PendingRow
<1>3. ASSUME NEW r \in RowId, RecheckFails(r) PROVE Offers'
  BY <1>3, OffersKept DEF RecheckFails, agentVars, poolVars, Row
<1>4. ASSUME NEW r \in RowId, RecheckPrepares(r) PROVE Offers'
  <2>1. UNCHANGED <<beat, crashes>> /\ selected' = [a \in Agent |-> [selected[a] EXCEPT ![r] = 0]]
    BY <1>4 DEF RecheckPrepares
  <2>2. \A q \in RowId : q # r => queue'[q] = queue[q]
    BY <1>4 DEF RecheckPrepares
  <2>3. ASSUME NEW a \in Agent, NEW q \in RowId PROVE Offered(a, q)'
    <3>1. CASE q = r
      <4>1. selected'[a][q] = 0
        BY <2>1, <3>1 DEF TypeOK
      <4> QED
        BY <2>1, <4>1 DEF Offered
    <3>2. CASE q # r
      <4>1. selected'[a][q] = selected[a][q]
        BY <2>1, <3>2 DEF TypeOK
      <4> QED
        BY <2>1, <2>2, <3>2, <4>1 DEF Offers, Offered
    <3> QED
      BY <3>1, <3>2
  <2> QED
    BY <2>3 DEF Offers
<1>5. ASSUME NEW a \in Agent, HeartbeatQuery(a) PROVE Offers'
  <2>1. PICK S \in SUBSET RowId : /\ S = {r \in InState({"WAITING", "SOLVING"}) : queue[r].uri}
                                  /\ beat'[a].pc = "settle" /\ beat'[a].success = S
    BY <1>5 DEF HeartbeatQuery, InState
  <2>2. /\ UNCHANGED <<queue, crashes>> /\ beat[a].pc = "idle"
        /\ \A b \in Agent : b # a => beat'[b] = beat[b] /\ selected'[b] = selected[b]
    BY <1>5 DEF HeartbeatQuery, queueVars, poolVars, TypeOK
  <2>3. \A r \in RowId : selected'[a][r] = IF r \in S /\ selected[a][r] < 3 + MaxCrashes
                                             THEN selected[a][r] + 1 ELSE selected[a][r]
    BY <1>5, <2>1 DEF HeartbeatQuery, TypeOK
  <2>4. ASSUME NEW b \in Agent, NEW r \in RowId PROVE Offered(b, r)'
    <3>1. CASE b # a
      BY <2>2, <3>1 DEF Offers, Offered
    <3>2. CASE b = a /\ r \notin S
      BY <2>2, <2>3, <3>2 DEF Offers, Offered
    <3>3. CASE b = a /\ r \in S
      <4>1. queue[r].state \in {"WAITING", "SOLVING"}
        BY <2>1, <3>3 DEF InState
      <4>2. selected[a][r] <= 1 + crashes /\ (queue[r].state = "WAITING" => selected[a][r] <= crashes)
        BY <2>2, <4>1 DEF Offers, Offered
      <4>3. selected'[a][r] <= selected[a][r] + 1
        BY <2>3
      <4>4. selected'[a][r] \in Nat
        BY <2>3
      <4> QED
        BY <2>1, <2>2, <3>3, <4>2, <4>3, <4>4 DEF Offered
    <3> QED
      BY <3>1, <3>2, <3>3
  <2> QED
    BY <2>4 DEF Offers
<1>6. ASSUME NEW a \in Agent, HeartbeatSettle(a) PROVE Offers'
  <2>1. /\ UNCHANGED <<selected, crashes>> /\ beat[a].pc = "settle"
        /\ beat' = [beat EXCEPT ![a].pc = "issue"] /\ queue' = Moved(beat[a].success, {"SOLVING"}, "SOLVED")
    BY <1>6 DEF HeartbeatSettle
  <2>2. /\ beat'[a].pc = "issue" /\ beat'[a].success = beat[a].success
        /\ \A b \in Agent : b # a => beat'[b] = beat[b]
    BY <2>1 DEF BeatType
  <2>3. \A r \in RowId : /\ queue'[r].state \in {"WAITING", "SOLVING"} => queue'[r].state = queue[r].state
                         /\ queue'[r].state = "SOLVING" => r \notin beat[a].success
    BY <2>1 DEF Moved, Row
  <2>4. ASSUME NEW b \in Agent, NEW r \in RowId PROVE Offered(b, r)'
    <3>1. CASE b # a
      BY <2>1, <2>2, <2>3, <3>1 DEF Offers, Offered
    <3>2. CASE b = a
      BY <2>1, <2>2, <2>3, <3>2 DEF Offers, Offered
    <3> QED
      BY <3>1, <3>2
  <2> QED
    BY <2>4 DEF Offers
<1>7. ASSUME NEW a \in Agent, HeartbeatIssue(a) PROVE Offers'
  <2>1. /\ UNCHANGED <<selected, crashes>> /\ beat[a].pc = "issue"
        /\ beat' = [beat EXCEPT ![a].pc = "reply"] /\ queue' = Moved(beat[a].success, {"WAITING"}, "SOLVING")
    BY <1>7 DEF HeartbeatIssue
  <2>2. /\ beat'[a].pc = "reply" /\ \A b \in Agent : b # a => beat'[b] = beat[b]
    BY <2>1 DEF BeatType
  <2>3. \A r \in RowId : \/ queue'[r].state = queue[r].state
                            /\ (queue[r].state = "WAITING" => r \notin beat[a].success)
                         \/ queue[r].state = "WAITING" /\ queue'[r].state = "SOLVING"
    BY <2>1 DEF Moved, Row
  <2>4. ASSUME NEW b \in Agent, NEW r \in RowId PROVE Offered(b, r)'
    <3>1. CASE queue'[r].state = queue[r].state /\ (queue[r].state = "WAITING" => r \notin beat[a].success)
      BY <2>1, <2>2, <3>1 DEF Offers, Offered
    <3>2. CASE queue[r].state = "WAITING" /\ queue'[r].state = "SOLVING"
      BY <2>1, <2>2, <3>2 DEF Offers, Offered
    <3> QED
      BY <2>3, <3>1, <3>2
  <2> QED
    BY <2>4 DEF Offers
<1>8. ASSUME NEW a \in Agent, HeartbeatReply(a) PROVE Offers'
  <2>1. /\ UNCHANGED <<selected, crashes>> /\ beat[a].pc = "reply"
        /\ beat' = [beat EXCEPT ![a] = IdleBeat] /\ queue' = Moved(beat[a].failure, State, "SOLVED")
    BY <1>8 DEF HeartbeatReply
  <2>2. \A b \in Agent : b # a => beat'[b] = beat[b]
    BY <2>1
  <2>3. \A r \in RowId : queue'[r].state \in {"WAITING", "SOLVING"} => queue'[r].state = queue[r].state
    BY <2>1 DEF Moved, Row
  <2>4. ASSUME NEW b \in Agent, NEW r \in RowId PROVE Offered(b, r)'
    <3>1. CASE b # a
      BY <2>1, <2>2, <2>3, <3>1 DEF Offers, Offered
    <3>2. CASE b = a
      BY <2>1, <2>3, <3>2 DEF Offers, Offered
    <3> QED
      BY <3>1, <3>2
  <2> QED
    BY <2>4 DEF Offers
<1>9. ASSUME NEW u \in Uploader, SettleReplay(u) PROVE Offers'
  BY <1>9, OffersKept DEF SettleReplay, agentVars, Row
<1>16. ASSUME NEW r \in RowId, RecheckUnparsable(r) PROVE Offers'
  BY <1>16, OffersKept DEF RecheckUnparsable, agentVars, Row
<1>10. ASSUME NEW w \in Replayer, NEW h \in Hit, ScanMarks(w, h) PROVE Offers'
  BY <1>10, OffersKept DEF ScanMarks, agentVars, poolVars, Row
<1>11. ASSUME NEW w \in Replayer, ScanAccepts(w) PROVE Offers'
  BY <1>11, OffersKept DEF ScanAccepts, agentVars, poolVars, Row
<1>12. ASSUME NEW w \in Replayer, ScanDiscards(w) PROVE Offers'
  BY <1>12, OffersKept DEF ScanDiscards, agentVars, poolVars, Row
<1>13. CASE Crash
  <2>1. UNCHANGED <<queue, selected>> /\ crashes' = crashes + 1
    BY <1>13 DEF Crash, queueVars, poolVars
  <2>2. ASSUME NEW b \in Agent, NEW r \in RowId PROVE Offered(b, r)'
    <3>1. /\ selected'[b][r] <= 2 + crashes'
          /\ queue'[r].state \in {"WAITING", "SOLVING"} => selected[b][r] <= 2 + crashes
          /\ queue'[r].state = "WAITING" => selected[b][r] <= 1 + crashes
      BY <2>1 DEF Offers, Offered
    <3> QED
      BY <2>1, <3>1 DEF Offered
  <2> QED
    BY <2>2 DEF Offers
<1>14. CASE UNCHANGED <<queue, beat, selected, crashes>>
  BY <1>14, OffersKept
<1>15. \/ UNCHANGED <<queue, beat, selected, crashes>> \/ QueueWriters
       \/ (\E a \in Agent : HeartbeatQuery(a)) \/ Crash
  <2>1. UNCHANGED selected \/ (\E r \in RowId : RecheckPrepares(r)) \/ (\E a \in Agent : HeartbeatQuery(a))
    BY DEF Next, vars, VulRecheck, Heartbeat, ReplayScan, DetectVul, RequeueRow, CreateRows, FetchPending,
           RecheckRaises, RecheckFails, RecheckUnparsable, HeartbeatSettle, HeartbeatIssue, HeartbeatReply, LoseReplay, StartUpload, StoreReplay, SettleReplay, SendReplay,
           StartScan, ScanMarks, ScanRaises, ScanFilters, ScanHandles, ScanAccepts, ScanDiscards, DeleteVul, ChangeStatus,
           SetValidation, Crash, agentVars
  <2>2. UNCHANGED crashes \/ Crash
    BY DEF Next, vars, VulRecheck, Heartbeat, ReplayScan, DetectVul, RequeueRow, CreateRows, FetchPending,
           RecheckRaises, RecheckFails, RecheckUnparsable, RecheckPrepares, HeartbeatQuery, HeartbeatSettle, HeartbeatIssue,
           HeartbeatReply, LoseReplay, StartUpload, StoreReplay, SettleReplay, SendReplay, StartScan, ScanMarks, ScanRaises, ScanFilters, ScanHandles, ScanAccepts,
           ScanDiscards, DeleteVul, ChangeStatus, SetValidation
  <2> QED
    BY <2>1, <2>2, Writers DEF QueueWriters, BeatWriters
<1> QED
  BY <1>1, <1>2, <1>3, <1>4, <1>5, <1>6, <1>7, <1>8, <1>9, <1>10, <1>11, <1>12, <1>13, <1>14, <1>15, <1>16
     DEF QueueWriters

(* ResentOnce: an agent is given the same request twice at most, and once more for each
   crash, however many agents share it (heartbeat_handler.py 92-174).        *)
THEOREM ResentAtMostOnce == Spec => []ResentOnce
<1>1. Init => Offers
  BY ReplayAssumption DEF Init, Offers, Offered, NoRow
<1>2. IInv /\ Offers /\ [Next]_vars => Offers'
  BY OffersStep DEF IInv
<1>3. Offers => ResentOnce
  BY DEF Offers, Offered, ResentOnce
<1> QED
  BY <1>1, <1>2, <1>3, InitIInv, StepIInv, PTL DEF Spec

--------------------------------------------------------------------------------
(* How many rows a vulnerability gets.                                       *)

\* The detectors that are about to insert the rows of v: each saw none.
Creators(v) == {d \in Detector : task[d].pc = "create" /\ task[d].vul = v}

RowsCounted ==
  \A v \in Vul : Cardinality(RowsOf(v)) + BatchSize(v) * Cardinality(Creators(v))
                   <= Cardinality(Detector) * BatchSize(v)

\* Rows and detectors can be counted.
LEMMA CountsTyped ==
  ASSUME NEW v \in Vul, NEW D \in SUBSET Detector, NEW R \in SUBSET RowId
  PROVE  /\ IsFiniteSet(R) /\ Cardinality(R) \in Nat
         /\ IsFiniteSet(D) /\ Cardinality(D) \in Nat /\ Cardinality(D) <= Cardinality(Detector)
         /\ Cardinality(Detector) \in Nat
         /\ BatchSize(v) \in Nat
<1>1. IsFiniteSet(RowId)
  BY FS_Interval, ReplayAssumption DEF RowId
<1>2. IsFiniteSet(Detector)
  BY ReplayAssumption
<1> QED
  BY <1>1, <1>2, FS_Subset, FS_CardinalityType, BatchSizeTyped

\* While no row is inserted every row keeps its vulnerability, or has none.
LEMMA RowsOfKept ==
  ASSUME TypeOK, WorkBacked, [Next]_vars, lastId' = lastId
  PROVE  \A v \in Vul : RowsOf(v)' = RowsOf(v)
<1>1. ASSUME NEW r \in RowId PROVE queue'[r].vul = queue[r].vul
  <2>1. r <= lastId \/ r > lastId
    BY DEF TypeOK, RowId
  <2>2. CASE r <= lastId
    BY <2>2, LinkKept DEF LinkKeeps
  <2>3. CASE r > lastId
    BY <2>3, FreshQueueStep DEF FreshQueue, WorkBacked, RowsKnown
  <2> QED
    BY <2>1, <2>2, <2>3
<1> QED
  BY <1>1 DEF RowsOf

\* A detector that is not about to insert changes nothing, and fewer of them do not hurt.
LEMMA CountsFall ==
  ASSUME RowsCounted, NEW v \in Vul, RowsOf(v)' = RowsOf(v), Creators(v)' \subseteq Creators(v)
  PROVE  Cardinality(RowsOf(v)') + BatchSize(v) * Cardinality(Creators(v)') <= Cardinality(Detector) * BatchSize(v)
<1>1. Creators(v) \in SUBSET Detector /\ RowsOf(v) \in SUBSET RowId /\ Creators(v)' \in SUBSET Creators(v)
  BY DEF Creators, RowsOf
<1>2. Cardinality(Creators(v)') <= Cardinality(Creators(v)) /\ Cardinality(Creators(v)') \in Nat
  BY <1>1, CountsTyped, FS_Subset, FS_CardinalityType
<1>3. PICK B, c, d, R, T : /\ B = BatchSize(v) /\ c = Cardinality(Creators(v)') /\ d = Cardinality(Creators(v))
                           /\ R = Cardinality(RowsOf(v)) /\ T = Cardinality(Detector) * BatchSize(v)
  OBVIOUS
<1>4. B \in Nat /\ c \in Nat /\ d \in Nat /\ R \in Nat /\ c <= d /\ R + B * d <= T /\ T \in Int
  BY <1>1, <1>2, <1>3, CountsTyped DEF RowsCounted
<1>5. R + B * c <= T
  <2>1. B * c <= B * d
    BY <1>4
  <2>2. B * c \in Int /\ B * d \in Int
    BY <1>4
  <2> QED
    BY <1>4, <2>1, <2>2
<1> QED
  BY <1>3, <1>5

\* Every step keeps the count.
LEMMA RowsCountedStep ==
  ASSUME TypeOK, WorkBacked, RowsCounted, [Next]_vars
  PROVE  RowsCounted'
<1>1. ASSUME NEW d \in Detector, NEW u \in Vul, DetectVul(d, u) PROVE RowsCounted'
  <2>1. lastId' = lastId /\ queue' = queue /\ task[d].pc = "idle"
    BY <1>1 DEF DetectVul, queueVars, poolVars
  <2>2. ASSUME NEW v \in Vul
        PROVE  Cardinality(RowsOf(v)') + BatchSize(v) * Cardinality(Creators(v)') <= Cardinality(Detector) * BatchSize(v)
    <3>1. RowsOf(v)' = RowsOf(v)
      BY <2>1 DEF RowsOf
    <3>2. CASE RowsOf(v) = {}
      <4>1. Creators(v)' \in SUBSET Detector /\ RowsOf(v) \in SUBSET RowId
        BY DEF Creators, RowsOf
      <4>2. PICK B, c, n : B = BatchSize(v) /\ c = Cardinality(Creators(v)') /\ n = Cardinality(Detector)
        OBVIOUS
      <4>3. B \in Nat /\ c \in Nat /\ n \in Nat /\ c <= n
        BY <4>1, <4>2, CountsTyped
      <4>4. B * c <= n * B
        BY <4>3
      <4>5. Cardinality(RowsOf(v)') = 0 /\ B * c \in Int
        BY <3>1, <3>2, <4>3, FS_EmptySet
      <4> QED
        BY <4>2, <4>3, <4>4, <4>5
    <3>3. CASE RowsOf(v) # {}
      <4>1. \/ task' = task
            \/ \E r : task' = [task EXCEPT ![d] = [pc |-> "requeue", vul |-> u, row |-> r, count |-> queue[r].count]]
            \/ RowsOf(u) = {} /\ task' = [task EXCEPT ![d] = [pc |-> "create", vul |-> u, row |-> 0, count |-> 0]]
        BY <1>1 DEF DetectVul
      <4>2. Creators(v)' \subseteq Creators(v)
        BY <3>3, <4>1 DEF Creators, TypeOK
      <4> QED
        BY <3>1, <4>2, CountsFall
    <3> QED
      BY <3>2, <3>3
  <2>3. \A v : BatchSize(v)' = BatchSize(v)
    BY DEF BatchSize
  <2> QED
    BY <2>2 DEF RowsCounted
<1>2. ASSUME NEW d \in Detector, CreateRows(d), lastId' # lastId PROVE RowsCounted'
  <2>1. PICK u \in Vul : u = task[d].vul
    BY <1>2 DEF CreateRows, TypeOK, TaskType
  <2>2. PICK B \in Nat : B = BatchSize(u)
    BY BatchSizeTyped
  <2>3. PICK I : I = (lastId + 1)..(lastId + B)
    OBVIOUS
  <2>4. /\ task[d].pc = "create" /\ task' = [task EXCEPT ![d] = IdleTask]
        /\ queue' = [r \in RowId |-> IF r \in I THEN PendingRow(u) ELSE queue[r]]
    BY <1>2, <2>1, <2>2, <2>3 DEF CreateRows, queueVars, poolVars
  <2>5. ASSUME NEW v \in Vul
        PROVE  Cardinality(RowsOf(v)') + BatchSize(v) * Cardinality(Creators(v)') <= Cardinality(Detector) * BatchSize(v)
    <3>1. CASE v # u
      <4>1. RowsOf(v)' = RowsOf(v)
        <5>1. \A r \in I \cap RowId : r > lastId
          BY <2>2, <2>3 DEF TypeOK, RowId
        <5>2. \A r \in I \cap RowId : queue[r].vul = NoVul /\ PendingRow(u).vul = u
          BY <5>1 DEF WorkBacked, RowsKnown, NoRow, PendingRow
        <5> QED
          BY <2>4, <3>1, <5>2, ReplayAssumption DEF RowsOf
      <4>2. Creators(v)' \subseteq Creators(v)
        BY <2>4 DEF Creators, TypeOK, IdleTask
      <4> QED
        BY <4>1, <4>2, CountsFall
    <3>2. CASE v = u
      <4>1. Creators(u) \in SUBSET Detector /\ RowsOf(u) \in SUBSET RowId /\ d \in Creators(u)
        BY <2>1, <2>4 DEF Creators, RowsOf
      <4>2. Creators(u)' = Creators(u) \ {d}
        BY <2>4 DEF Creators, TypeOK, IdleTask
      <4>3. RowsOf(u)' \subseteq RowsOf(u) \cup I
        BY <2>4 DEF RowsOf
      <4>4. IsFiniteSet(I) /\ Cardinality(I) = B
        <5>1. lastId \in Nat
          BY DEF TypeOK
        <5>2. lastId + 1 \in Int /\ lastId + B \in Int
          BY <5>1
        <5>3. (lastId + 1 > lastId + B => B = 0) /\ lastId + B - (lastId + 1) + 1 = B
          BY <5>1
        <5>4. PICK a, b : a = lastId + 1 /\ b = lastId + B
          OBVIOUS
        <5>5. /\ IsFiniteSet(a..b)
              /\ Cardinality(a..b) = IF a > b THEN 0 ELSE b - a + 1
          BY <5>2, <5>4, FS_Interval
        <5>6. I = a..b
          BY <2>3, <5>4
        <5> QED
          BY <5>1, <5>3, <5>4, <5>5, <5>6
      <4>5. IsFiniteSet(RowsOf(u)) /\ IsFiniteSet(RowsOf(u)')
        <5>1. RowsOf(u)' \in SUBSET RowId
          BY DEF RowsOf
        <5> QED
          BY <4>1, <5>1, CountsTyped
      <4>6. Cardinality(RowsOf(u)') <= Cardinality(RowsOf(u)) + B /\ Cardinality(RowsOf(u)') \in Nat
        <5>1. PICK U : U = RowsOf(u) \cup I
          OBVIOUS
        <5>2. /\ IsFiniteSet(U) /\ Cardinality(U) = Cardinality(RowsOf(u)) + Cardinality(I) - Cardinality(RowsOf(u) \cap I)
          BY <4>4, <4>5, <5>1, FS_Union
        <5>3. IsFiniteSet(RowsOf(u) \cap I)
          BY <4>5, FS_Intersection
        <5>4. Cardinality(RowsOf(u) \cap I) \in Nat /\ Cardinality(RowsOf(u)) \in Nat
          BY <4>5, <5>3, FS_CardinalityType
        <5>5. Cardinality(RowsOf(u)') <= Cardinality(U) /\ Cardinality(RowsOf(u)') \in Nat
          BY <4>3, <4>5, <5>1, <5>2, FS_Subset, FS_CardinalityType
        <5> QED
          BY <4>4, <5>2, <5>4, <5>5
      <4>7. Cardinality(Creators(u)') = Cardinality(Creators(u)) - 1
        BY <4>1, <4>2, CountsTyped, FS_RemoveElement
      <4>8. PICK c, R, S, T : /\ c = Cardinality(Creators(u)) /\ R = Cardinality(RowsOf(u))
                              /\ S = Cardinality(RowsOf(u)') /\ T = Cardinality(Detector) * BatchSize(u)
        OBVIOUS
      <4>9. c \in Nat /\ R \in Nat /\ S \in Nat /\ T \in Int /\ S <= R + B /\ R + B * c <= T
        BY <2>2, <4>1, <4>6, <4>8, CountsTyped DEF RowsCounted
      <4>10. S + B * (c - 1) <= T
        <5>1. B * (c - 1) = B * c - B /\ B * c \in Int
          BY <4>9
        <5> QED
          BY <4>9, <5>1
      <4> QED
        BY <2>2, <3>2, <4>7, <4>8, <4>10
    <3> QED
      BY <3>1, <3>2
  <2> QED
    BY <2>5 DEF RowsCounted, BatchSize
<1>3. ASSUME lastId' = lastId, \A v \in Vul : Creators(v)' \subseteq Creators(v) PROVE RowsCounted'
  BY <1>3, RowsOfKept, CountsFall DEF RowsCounted, BatchSize
<1>4. ASSUME UNCHANGED task \/ Crash \/ \E d \in Detector : RequeueRow(d) \/ CreateRows(d)
      PROVE  \A v \in Vul : Creators(v)' \subseteq Creators(v)
  <2>1. UNCHANGED task \/ \E d \in Detector : task' = [task EXCEPT ![d] = IdleTask]
    BY <1>4 DEF Crash, RequeueRow, CreateRows
  <2> QED
    BY <2>1 DEF Creators, IdleTask, TypeOK
<1>5. lastId' = lastId \/ \E d \in Detector : CreateRows(d)
  BY Writers DEF LastIdWriters
<1>6. \/ UNCHANGED task \/ Crash \/ \E d \in Detector : RequeueRow(d) \/ CreateRows(d)
      \/ \E d \in Detector, v \in Vul : DetectVul(d, v)
  BY Writers DEF TaskWriters
<1> QED
  BY <1>1, <1>2, <1>3, <1>4, <1>5, <1>6

(* RowsPerVul: concurrent detections insert one set of rows for each detector at most;
   one that starts later queues the rows that are there (create_vul_recheck_task in
   vul_handler.py).                                                          *)
THEOREM RowsAlwaysBounded == Spec => []RowsPerVul
<1>1. ASSUME Init PROVE RowsCounted
  <2>1. ASSUME NEW v \in Vul PROVE RowsOf(v) = {} /\ Creators(v) = {}
    BY <1>1, ReplayAssumption DEF Init, RowsOf, NoRow, Creators, IdleTask
  <2>2. ASSUME NEW v \in Vul PROVE BatchSize(v) * 0 = 0 /\ 0 <= Cardinality(Detector) * BatchSize(v)
    <3>1. BatchSize(v) \in Nat /\ Cardinality(Detector) \in Nat
      BY CountsTyped
    <3> QED
      BY <3>1
  <2> QED
    BY <2>1, <2>2, FS_EmptySet DEF RowsCounted
<1>2. IInv /\ RowsCounted /\ [Next]_vars => RowsCounted'
  BY RowsCountedStep DEF IInv
<1>3. RowsCounted => RowsPerVul
  <2>1. ASSUME RowsCounted, NEW v \in Vul PROVE Cardinality(RowsOf(v)) <= Cardinality(Detector) * BatchSize(v)
    <3>1. Creators(v) \in SUBSET Detector /\ RowsOf(v) \in SUBSET RowId
      BY DEF Creators, RowsOf
    <3>2. PICK B, c, R, n : /\ B = BatchSize(v) /\ c = Cardinality(Creators(v))
                            /\ R = Cardinality(RowsOf(v)) /\ n = Cardinality(Detector)
      OBVIOUS
    <3>3. B \in Nat /\ c \in Nat /\ R \in Nat /\ n \in Nat /\ R + B * c <= n * B
      BY <2>1, <3>1, <3>2, CountsTyped DEF RowsCounted
    <3>4. B * c \in Nat /\ n * B \in Nat
      BY <3>3
    <3> QED
      BY <3>2, <3>3, <3>4
  <2> QED
    BY <2>1 DEF RowsPerVul, BatchSize
<1> QED
  BY <1>1, <1>2, <1>3, InitIInv, StepIInv, PTL DEF Spec

\* What agents hold of the queue, how often they are given it and how long it gets is
\* bounded, whatever the agents, detectors and workers do (heartbeat_handler.py,
\* create_vul_recheck_task).
THEOREM QueueAlwaysBounded == Spec => []QueueBounded
<1>1. RequestPrepared /\ ResentOnce /\ RowsPerVul => QueueBounded
  BY DEF QueueBounded
<1> QED
  BY <1>1, RequestAlwaysPrepared, ResentAtMostOnce, RowsAlwaysBounded, PTL
================================================================================
