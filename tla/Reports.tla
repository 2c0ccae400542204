-------------------------------- MODULE Reports --------------------------------
(***************************************************************************)
(* The components that handle vulnerabilities as agents and scanners report *)
(* them: the taint search, the position of a taint, direct findings, the log *)
(* of a vulnerability, its list and search index, its DAST findings, the     *)
(* pages of method pools, and the queue of replays.  They share no state     *)
(* here: a behaviour is one of one of them, and the variables of the others  *)
(* rest.                                                                     *)
(***************************************************************************)
EXTENDS Naturals, Sequences, FiniteSets

CONSTANTS
  None,
  Handler, Weakness, MaxReports,         \* DirectFindings
  LoggedVul, Writer, UserStatus,         \* VulLog
  ListedVul, Project, Reader, ListStatus, Sees, ProjectOf, PageSize, MaxQueued, \* VulSearch
  BoundVul, Dast, Mark, Pushes, Settings, \* DastBinding
  PoolReader, Agent, AgentsOf, PoolPage, Block, MaxPools, MaxTime, \* PoolSearch
  Word, Templates, Value, Special, Hole, Whole, NoName, \* TaintPosition; Word: the words of templates
  Hash, Calls, MaxCalls,                 \* TaintSearch
  ReplayedVul, Detector, Uploader, Replayer, PayloadCount, NoUri, Unparsable, ReplayStatus, Answer,
  Validation, RecheckBatch, MaxRows, MaxCount, MaxInflight, MaxCrashes \* ReplayQueue

\* The row of a method pool.
PoolRow == [agent: Agent, hit: BOOLEAN, time: Nat]

\* Blocks hold a pool, and None is no pool.
ASSUME PagesAssumption ==
  /\ PoolPage \in Nat /\ Block \in Nat \ {0} /\ MaxPools \in Nat /\ MaxTime \in Nat
  /\ None \notin PoolRow

\* Requests whose words are encoded twice at most, what the parsers decode.
Encoded == [word: Word, times: 0..2]
Items == Seq([name: Encoded, value: Seq(Encoded) \ {<<>>}])
Requests == [path: Seq(Encoded), query: Items, body: [kind: {"form", "object", "list", "value"}, items: Items],
             header: Items, cookie: Items, locations: SUBSET {"GET", "POST", "HEADER", "PATH", "COOKIE"}]

\* A client encodes a name of the parameters in one way.
NamesAlike(I) == \A i, j \in DOMAIN I : I[i].name.word = I[j].name.word => I[i].name = I[j].name

\* The values sent are no words of a template, and NoName is no name.
ASSUME RequestsAssumption ==
  /\ Templates \subseteq Requests /\ \A t \in Templates : NamesAlike(t.query) /\ NamesAlike(t.body.items)
  /\ Hole \in Word /\ Value \cap Word = {} /\ NoName \notin Encoded

(* Ids are numbers from 1 on, vulnerabilities are found as "pending", "manully" is
   no mark of a request, and None is no row, status, build, push or scan.     *)
ASSUME ReportsAssumption ==
  /\ MaxReports \in Nat
  /\ IsFiniteSet(ListedVul)
  /\ "pending" \in ListStatus /\ None \notin ListStatus
  /\ None \notin [status: ListStatus, is_del: BOOLEAN]
  /\ None \notin [docs: [ListedVul -> ListStatus \cup {None}], late: Nat]
  /\ Sees \in [Reader -> SUBSET Project]
  /\ PageSize \in Nat /\ MaxQueued \in Nat
  /\ \A p \in Pushes : p.dast \in Dast /\ p.fits \subseteq BoundVul /\ p.marks \subseteq Mark
  /\ "manully" \notin Mark
  /\ None \notin [push: Pushes, left: SUBSET Mark, known: BOOLEAN]
  /\ None \notin [vul: BoundVul, mark: Mark, setting: Settings \cup {None}, marked: BOOLEAN]

\* Payloads are counted, vulnerabilities have statuses of the UI, and None is none of them.
ASSUME QueueAssumption ==
  /\ PayloadCount \in [ReplayedVul -> Nat]
  /\ NoUri \subseteq ReplayedVul /\ Unparsable \subseteq ReplayedVul
  /\ ReplayStatus \subseteq {"PENDING", "VERIFYING", "CONFIRMED", "SOLVED", "FIXED", "IGNORE"}
  /\ Answer \subseteq SUBSET {"own", "other"}
  /\ Validation \subseteq BOOLEAN /\ Validation # {}
  /\ None \notin ReplayedVul /\ IsFiniteSet(Detector)
  /\ MaxRows \in Nat /\ MaxCount \in Nat \ {0} /\ MaxInflight \in Nat /\ MaxCrashes \in Nat
  /\ RecheckBatch \in Nat \ {0}

VARIABLES
  part, \* the component at work
  rows, headers, logged, worker, reports, removed,                     \* DirectFindings
  status, deleted, given, log, job, lost,                              \* VulLog
  listed, index, lock, queued, running,                                \* VulSearch
  fits, vulMarks, dastMarks, rels, setting, hook, scan, apart,         \* DastBinding
  pools, uploaded, now, client,                                        \* PoolSearch
  template, found,                                                     \* TaintPosition
  pool, searched, reported,                                            \* TaintSearch
  queue, lastId, vul, validation, task, recheck, beat, selected,       \* ReplayQueue
  inflight, upload, replays, scans, replayScan, verdicts, crashes

findingVars == <<rows, headers, logged, worker, reports, removed>>
logVars == <<status, deleted, given, log, job, lost>>
searchVars == <<listed, index, lock, queued, running>>
dastVars == <<fits, vulMarks, dastMarks, rels, setting, hook, scan, apart>>
poolVars == <<pools, uploaded, now, client>>
positionVars == <<template, found>>
taintVars == <<pool, searched, reported>>
queueVars == <<queue, lastId, vul, validation, task, recheck, beat, selected,
               inflight, upload, replays, scans, replayScan, verdicts, crashes>>
vars == <<part, findingVars, logVars, searchVars, dastVars, poolVars, positionVars, taintVars, queueVars>>

direct == INSTANCE DirectFindings WITH Worker <- Handler, Key <- Weakness

vullog == INSTANCE VulLog WITH Vul <- LoggedVul, Worker <- Writer

search == INSTANCE VulSearch WITH
  Vul <- ListedVul, User <- Reader, Status <- ListStatus, rows <- listed

dast == INSTANCE DastBinding WITH Vul <- BoundVul

paging == INSTANCE PoolSearch WITH User <- PoolReader, PageSize <- PoolPage, given <- uploaded

position == INSTANCE TaintPosition

taint == INSTANCE TaintSearch

verification == INSTANCE ReplayQueue WITH
  Vul <- ReplayedVul, UserStatus <- ReplayStatus, NoVul <- None, pool <- replays,
  scan <- replayScan, logged <- verdicts

ASSUME TaintAssumption == Calls \subseteq taint!Call /\ MaxCalls \in Nat

--------------------------------------------------------------------------------
NoFindings == rows = None /\ headers = None /\ logged = None /\ worker = None /\ reports = None /\ removed = None
NoLog == status = None /\ deleted = None /\ given = None /\ log = None /\ job = None /\ lost = None
NoSearch == listed = None /\ index = None /\ lock = None /\ queued = None /\ running = None
NoDast == /\ fits = None /\ vulMarks = None /\ dastMarks = None /\ rels = None
          /\ setting = None /\ hook = None /\ scan = None /\ apart = None

NoPools == pools = None /\ uploaded = None /\ now = None /\ client = None
NoPosition == template = None /\ found = None
NoTaint == pool = None /\ searched = None /\ reported = None
NoQueue == /\ queue = None /\ lastId = None /\ vul = None /\ validation = None /\ task = None
           /\ recheck = None /\ beat = None /\ selected = None /\ inflight = None /\ upload = None /\ replays = None
           /\ scans = None /\ replayScan = None /\ verdicts = None /\ crashes = None

Init ==
  \/ part = "direct" /\ direct!Init /\ NoLog /\ NoSearch /\ NoDast /\ NoPools /\ NoPosition /\ NoTaint /\ NoQueue
  \/ part = "vullog" /\ vullog!Init /\ NoFindings /\ NoSearch /\ NoDast /\ NoPools /\ NoPosition /\ NoTaint /\ NoQueue
  \/ part = "search" /\ search!Init /\ NoFindings /\ NoLog /\ NoDast /\ NoPools /\ NoPosition /\ NoTaint /\ NoQueue
  \/ part = "dast" /\ dast!Init /\ NoFindings /\ NoLog /\ NoSearch /\ NoPools /\ NoPosition /\ NoTaint /\ NoQueue
  \/ part = "pools" /\ paging!Init /\ NoFindings /\ NoLog /\ NoSearch /\ NoDast /\ NoPosition /\ NoTaint /\ NoQueue
  \/ part = "position" /\ position!Init /\ NoFindings /\ NoLog /\ NoSearch /\ NoDast /\ NoPools /\ NoTaint /\ NoQueue
  \/ part = "taint" /\ taint!Init /\ NoFindings /\ NoLog /\ NoSearch /\ NoDast /\ NoPools /\ NoPosition /\ NoQueue
  \/ part = "queue" /\ verification!Init /\ NoFindings /\ NoLog /\ NoSearch /\ NoDast /\ NoPools /\ NoPosition /\ NoTaint

Next ==
  \/ /\ part = "direct" /\ direct!Next
     /\ UNCHANGED <<part, logVars, searchVars, dastVars, poolVars, positionVars, taintVars, queueVars>>
  \/ /\ part = "vullog" /\ vullog!Next
     /\ UNCHANGED <<part, findingVars, searchVars, dastVars, poolVars, positionVars, taintVars, queueVars>>
  \/ /\ part = "search" /\ search!Next
     /\ UNCHANGED <<part, findingVars, logVars, dastVars, poolVars, positionVars, taintVars, queueVars>>
  \/ /\ part = "dast" /\ dast!Next
     /\ UNCHANGED <<part, findingVars, logVars, searchVars, poolVars, positionVars, taintVars, queueVars>>
  \/ /\ part = "pools" /\ paging!Next
     /\ UNCHANGED <<part, findingVars, logVars, searchVars, dastVars, positionVars, taintVars, queueVars>>
  \/ /\ part = "position" /\ position!Next
     /\ UNCHANGED <<part, findingVars, logVars, searchVars, dastVars, poolVars, taintVars, queueVars>>
  \/ /\ part = "taint" /\ taint!Next
     /\ UNCHANGED <<part, findingVars, logVars, searchVars, dastVars, poolVars, positionVars, queueVars>>
  \/ /\ part = "queue" /\ verification!Next
     /\ UNCHANGED <<part, findingVars, logVars, searchVars, dastVars, poolVars, positionVars, taintVars>>

Spec == Init /\ [][Next]_vars

--------------------------------------------------------------------------------
(* A reported vulnerability that no user deletes keeps a row, however reports of
   it interleave (narmal_vul_handler.py and hardencode_vul_handler.py).        *)
FindingKept == [][part = "direct" => direct!FindingStep]_vars

(* The log tells of the changes users made, and explains the status that a
   vulnerability has (vul_log.py and its callers).                             *)
LogTells == part = "vullog" => vullog!LogTells

(* List, search, summary and index of the vulnerabilities agree
   (app_vul_list.py, vul_list_by_elastic_search.py, tasks.py).                 *)
ViewsAgree == part = "search" => search!ViewsAgree

(* Scan and push bind the same vulnerabilities and findings, whichever comes
   first (dast/webhook.py, vul_handler.py).                                    *)
RelationsAgree == part = "dast" => dast!RelationsAgree

(* A sequence of pages neither repeats a pool nor misses one, but for the last
   row of each block (engine_method_pool_search.py, method_pool_detail.py).    *)
PagesComplete == [][part = "pools" => paging!PagesStep]_vars

(* A weakness has one key and its parameter is found, whichever value uncovered
   it (parse_taint_position, get_original_url).                                *)
KeysStable == part = "position" => position!KeysStable

(* The stacks that the taint search reports are flows, all sources that taint a
   sink are in one, and users are shown their steps (vul_engine.py).           *)
StacksReported == part = "taint" => taint!StacksReported

(* What agents hold of the replay queue is prepared, no agent is given it more
   than twice but for crashes, and each detector adds one set of rows at most
   (heartbeat_handler.py, create_vul_recheck_task).                            *)
QueueBounded == part = "queue" => verification!QueueBounded
================================================================================
