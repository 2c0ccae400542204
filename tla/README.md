# DongTai IAST server: TLA+ models, model checking and proofs

DongTai is an IAST (interactive application security testing) server. Agents
inside the tested applications upload *method pools* (one traced request each),
the server looks for tainted flows in them, stores vulnerabilities, and can have
the agents *replay* requests to verify what it found. It is a Django application
(web workers) plus celery workers, MySQL, and a redis cache. Almost no code
runs in a transaction: every ORM statement is its own, and handlers interleave
with each other between any two of them. That is what the models are about.

Contents: 1 the system, 2 the modules, 3 the runs, 4 the proofs, 5 limits and known
deviations, 6 the plan.

## 1 The system

| part | state it keeps | operations | talks to |
|---|---|---|---|
| active verification (`dongtai_engine/tasks.py`, `signals/handlers/vul_handler.py`, `heartbeat_handler.py`, `saas_method_pool_handler.py`) | `iast_replay_queue` rows of type VUL_REPLAY, `iast_agent_method_pool_replay`, status of `iast_vulnerability` | detection queues rows, `vul_recheck` builds the requests, heartbeats dispatch them, uploads answer them, the replay scan decides | agents, vulnerability storage, vulnerability log |
| request replay by users (`vul_request_replay.py`) | rows of type REQUEST_REPLAY and API_REPLAY in the same table | post a request, poll for its result | the same heartbeats and uploads |
| vulnerability storage (`save_vul`, `strategy_headers.py`, deletion views) | `iast_vulnerability`, a cache key per vulnerability | find or create, count again, ignore, soft and hard delete | scan workers, users |
| method pool upload and scan (`saas_method_pool_handler.py`, `tasks.py`) | `iast_agent_method_pool`, celery messages | deduplicate by signature, store, queue the scan, retry it | engine, storage, verification |
| taint engine (`dongtai_common/engine`) | none (pure) | search a method pool for a path from a source to a sink | scans |
| agent lifecycle (`agent_register.py`, `heartbeat_handler.py`, `update_agent_status`, start and stop views) | `iast_agent`: actual and expected status; cached agents | register, heartbeat, sweep to offline, start/stop/delete by users | agents, projects |
| other vulnerability handlers (`narmal_vul_handler.py`, `hardencode_vul_handler.py`, `strategy_sensitive.py`) | the same vulnerability table | find or create without the cache key | reports |
| cache layer (`common/utils`, `preheat.py`) | redis entries with random TTL | cached call, invalidation, preheat | everything |
| data retention (`data_clean.py`) | profile `data_clean`, method pool tables | delete by date in chunks of ids | celery beat, administrators |
| projects and versions (`project_*.py`) | `iast_project`, `iast_project_version.current_version`, agents' project | add, edit, switch current version, delete | registration, storage |
| API routes (`api_route*_handler.py`, `add_new_api_route`) | `iast_api_route*` | upsert of reported and of observed routes | uploads |
| DAST integration (`dast/webhook.py`, `handler_vul`) | DAST findings, dt_mark relations | bind a finding to vulnerabilities, from either side | storage |
| hook rules and strategies (`engine_hook_rule_*`, `hook_profiles*`, `strategy_*`) | rule types, rules, strategies, scan templates | enable, disable, delete in cascade; hand the profile to agents | agents, engine |
| agent configuration (`agent_config*.py`) | configurations with priority | choose the one that matches an agent | agents |
| lists, search index, statistics, users, messages, downloads | read models and account data | CRUD and queries | users |

Every part, modelled or not, has an entry under `components` in `PROJECT.json`.

### What is hard in it

* **Interleavings without locks.** `create_vul_recheck_task`, `save_vul`, the
  heartbeat's three updates, `vul_recheck`'s read-batch-then-save, version
  switching and agent status all read, decide, and write in separate statements.
* **Stale objects.** `obj.save()` writes every column of an object read earlier.
* **Agents are unreliable.** A response or an upload may be lost, late or
  duplicated; a request is handed out again when nothing came back.
* **Redelivery.** Celery tasks are acknowledged late (`dongtai_conf/celery.py:80`):
  a worker killed half-way leaves effects behind and the task runs again.
* **Periodic tasks** sweep rows while handlers change them, and one exception
  in a loop ends the whole sweep.
* **Time.** Locks and answers expire (300 s cache keys, a 5 minute replay limit, the
  521 s agent cache, the agent sweep).

### What makes each part correct

* Verification: a verdict has its evidence; an agent only gets a request that was
  built; requests are not handed out for ever; every pending row is dealt with;
  a decision a user took is not undone.
* Request replay: a user sees the answer to the request that was posted, not to an
  earlier one; a posted request ends.
* Storage: one row per vulnerability of a project version, nothing stored for an
  ignored one, no sighting blocked for longer than the key lives.
* Agents: an agent that sends heartbeats is shown running; one that does not is
  swept; a user's start or stop is not lost.
* Projects: the current version is one of the project's own; agents belong to a project
  that exists; users see projects of their tenant only.
* Rules: what users edit is what agents hook and scans look for, once caches have expired;
  a release is installed and users' rules survive it.
* Retention: what expired is deleted, and of what is newer only what the ranges of ids take with it.
* Cache: a value served is not older than its TTL, an invalidation takes effect.
* Engine: a vulnerability is reported exactly when a tainted flow reaches the sink.

## 2 The modules

| module | models | promises that a run checks |
|---|---|---|
| `ReplayQueue` | active verification | evidence of verdicts, no starvation, bounded resending |
| `VulStore` | `save_vul` and the users' saves | one row per flow, ignored stays ignored, nothing lost |
| `RequestReplay`, `ReplayService` | manual replay and its abstract specification | refinement, fresh answers, dialogues end |
| `AgentStatus` | heartbeats, sweep, start and stop, refusal of reports | deleted stays deleted, lists follow agents, running agents are heard |
| `Intake` | upload, dispatch and order of a scan, coverage of routes | scans are not lost, coverage is earned, kept and reached |
| `RuleBase` | strategies, hook rules, templates, what scans load through caches | the engine catches up with the last edit |
| `Accounts`, `Projects` | tenants, departments, users; projects, versions, registration | users see their own tenant only |
| `DirectFindings` | normal and hard-coded vulnerability reports | a finding keeps a row |
| `TaintSearch` | `VulEngine.search` | flows are reported and are flows |
| `TaintPosition` | `parse_taint_position`, `get_original_url` | one key per weakness |
| `VulLog` | the vulnerability log and its writers | the log tells what users did |
| `VulSearch` | list, keyword search, summary, index task | the views agree |
| `DastBinding` | binding of scanner findings | either side finds the other |
| `PoolSearch` | paged searches of method pools | pages complete |
| `ApiSchema` | parameters of reported API schemas | rows are a forest with every field |
| `SensitiveRules`, `HookRelease`, `StrategyRelease` | rules of a release, as processes load and users edit them | loads keep users' rules and install the release |
| `AgentConfig` | choice of a circuit-breaking configuration | one edit is atomic for the reader |
| `ResultCache` | `cached_decorator`, `disable_cache`, `function_flush` | answers have a bounded age |
| `Retention` | `data_cleanup` | what expired goes; what is fresh goes only among or near what expired |
| `Reports` | side by side: `DirectFindings`, `VulLog`, `VulSearch`, `DastBinding`, `PoolSearch`, `TaintPosition`, `TaintSearch`, `ReplayQueue` | the properties of each |
| `Management` | side by side: `Projects`, `SensitiveRules`, `HookRelease`, `StrategyRelease`, `AgentConfig`, `ResultCache`, `Retention` | the properties of each |

`Projects` extends `Accounts`; `RequestReplay` implements `ReplayService` (`INSTANCE ...
WITH`, a refinement mapping from stored rows to the answers kept for a pool). A module
`MC<X>` gives `<X>` its values for TLC. `Reports` and `Management` put the smaller
components together, with the assumptions on their constants; `MCManagement` extends `Management` by
`ApiSchema` (section 3). The modules `<X>_proofs` hold the proofs (section 4).

### ReplayQueue: active verification

One variable per table or worker pool; one action per group of statements that no
other handler can split.

| variable | stands for |
|---|---|
| `queue`, `lastId` | `iast_replay_queue` (replay_type VUL_REPLAY) by auto-increment id; `prepared` and `uri` abstract the request text `vul_recheck` stores: whether it was built, whether its uri is non-empty; `payload` whether `payload_id` is set |
| `vul` | `status_id` of each vulnerability, ABSENT before it is found and DELETED after `vul_delete.py` |
| `validation` | `vul_recheck_state`: the project's switch, or the global one |
| `task[d]` | the local variables of one `create_vul_recheck_task` |
| `recheck` | the batch of the running `vul_recheck` |
| `beat[a]` | the id lists one heartbeat handler has computed |
| `inflight[r]` | requests of row r that agents have received and not answered |
| `upload[u]` | the local variables of one `SaasMethodPoolHandler.save` for a replay |
| `pool[r]` | the stored `IastAgentMethodPoolReplay` rows of row r, each by the strategies the engine hits in it; several uploads that look at once store several |
| `scans[r][p]`, `scan[w]` | celery messages of `search_vul_from_replay_method_pool` for replay p of row r, and the running ones |
| `selected`, `logged`, `crashes` | history: responses an agent was given a row in, verdicts written to the vulnerability log, worker crashes so far |

| actions | code |
|---|---|
| `DetectVul`, `RequeueRow`, `CreateRows` | `handler_vul`, `create_vul_recheck_task` (vul_handler.py 436-626): the read of the first row, then either the update of that row or the insert of one row per payload |
| `FetchPending`, `RecheckRaises`, `RecheckFails`, `RecheckUnparsable`, `RecheckPrepares` | `vul_recheck` (tasks.py 303-480): the batch is read once, rows are walked from the newest, and each is saved on its own; `RecheckUnparsable` is the save of `replay_failed`, after which the same row is prepared in a second save |
| `HeartbeatQuery`, `HeartbeatSettle`, `HeartbeatIssue`, `HeartbeatReply` | `HeartBeatHandler.get_result` (heartbeat_handler.py 92-174): the select and the three updates |
| `StartUpload`, `StoreReplay`, `SettleReplay`, `SendReplay`, `LoseReplay` | the look for a stored replay, the insert, the update of the row and the task sent, four statements of `SaasMethodPoolHandler.save` (121-174); an agent or the network that drops a request |
| `StartScan`, `ScanMarks`, `ScanRaises`, `ScanFilters`, `ScanHandles`, `ScanAccepts`, `ScanDiscards` | `search_vul_from_replay_method_pool`, `search_and_save_vul`, `handler_replay_vul` |
| `ChangeStatus`, `DeleteVul`, `SetValidation` | the users |
| `Crash` | a killed worker: a web worker forgets the request (a heartbeat or an upload between two statements), a celery message comes back |

Four consequences of the code that the model keeps although they look like
mistakes: an upload for a row that already has a stored replay leaves the stored
one alone and scans that one again (the code updates a dict, saas_method_pool_handler.py:120); the hit of
a strategy other than the row's own runs into `save_vul`, which writes a vulnerability and then raises on
a replay pool (the replay model has no `req_header_fs`), and that ends the scan (`VulStore` models what it
writes); a strategy whose sink is in the pool without a flow to it raises, too (tasks.py:119, `ScanRaises`);
and an unparsable `param_name` first fails the row and then offers it all the same.

### VulStore: storage of vulnerabilities

| variable | stands for |
|---|---|
| `rows`, `lastId` | `iast_vulnerability` by auto-increment id: which vulnerability, `status_id`, `counts`, `is_del`, and the pool the row was last written from |
| `pools[r]` | `VulMethodPool` of a tainted flow (one, replaced), or the urls in `IastHeaderVulnerability` (one per sighting) |
| `cache[l]` | the redis key `vul_save-...`: free, held by a worker's uuid, or left by a worker that went away |
| `messages[s]` | celery messages of `search_vul_from_method_pool` for pool s |
| `worker[w]`, `user[u]` | the local variables of one `save_vul` and of one request that saves a whole object |
| `crashes` | worker crashes so far |

`Vul` is what a row lookup tells apart (strategy, pattern uri, method, parameters,
project *version*), `Identity` what the check for ignored rows tells apart (the
same with the *project*), `Lock` the cache keys. How sightings map to the three is
a parameter, so that the runs can choose the interesting collisions. `Replayed` says which sightings
are pools uploaded for a replay, which reach `save_vul` through `handler_replay_vul` (515, 567).

| actions | code |
|---|---|
| `QueueScan`, `StartSave` | the upload queues a scan; the first get of `cache.get_or_set`: somebody's key ends the save |
| `AddKey`, `CheckKey` | the rest of `get_or_set`: `add`, which leaves a key alone, and a second `get` whose *default* is the caller's own value |
| `CheckIgnore` | vul_handler.py 271-279, only for tainted flows; returns without deleting the key |
| `FindRow`, `UpdateRow`, `CreateRow` | the latest row, soft-deleted ones included; `save(update_fields=...)` or insert |
| `StorePool`, `ReleaseKey` | `VulMethodPool.update_or_create`, then `cache.delete`; the other way round in strategy_headers.py |
| `StorePoolRaises` | the same place for a sighting in `Replayed`: vul_handler.py:402 reads `req_header_fs`, which a replay's pool does not have, so the save ends after its first write, with the key left |
| `ExpireKey`, `Crash` | the 300 s default timeout; a killed worker whose message comes back |
| `ReadForStatus`, `ReadForDelete`, `SaveCopy` | `VulStatus.post`, `DelVulMany.post`, `DelVulProjectLevel.post`: read whole objects, later `save()` every column |
| `DeleteRow` | `VulDelete.post` with its cascade |

The lock is the interesting part. The default of the second get lets a worker
past the lock without a key when the holder deletes it at the right moment, and
that worker later deletes whatever key is there. `LockBacked` says why this does no
harm to tainted flows: the holder deletes its key only after the row exists.

### RequestReplay and ReplayService: replay by users

`queue` holds the rows of types REQUEST_REPLAY and API_REPLAY, `stored` the answers kept
for a row, `user` the dialogue of each user between two statements of
`RequestReplayEndPoint.post`, `beat`, `held` and `upload` the way of a request through
heartbeat, agent and upload. `Post` looks a row up, `PostCreate`, `PostReuse` and `PostDelete` are
the statements after it, `Poll` is the `get`. `asked` and `since` are history variables.
`ReplayService` is what a user may rely on: a request is asked of a pool, an answer is kept for a
pool, and a view shows a kept answer. `RequestReplay` maps the answers kept for all
rows of a pool to `kept`. That an answer belongs to the *user's own* request is not promised:
two users share a row, and the row holds the later request (`AnswerIsFresh` says exactly
what holds).

### AgentStatus: what is shown of an agent, and what it is allowed

`row` is `iast_agent`, `heartbeat` the `heartbeat-<id>` keys, `task` the Singleton task
`update_heartbeat` with its lock, `sweep` the three statements of `update_agent_status`, `edit` a
whole row that `AgentStart`, `AgentStop` or `actual_running_status` will save, `known` the cached
`get_agent` that lets other reports pass. `process` is what really runs.

### Intake: from the upload to the scan

`Upload` is `SaasMethodPoolHandler.save` up to the pool, `SaveMethodCall` and `LogServiceSend` the two
ways it takes from there (`async_send`), `FindPool`, `CheckResponse` and `SearchVul` the order of
`search_vul_from_method_pool`, `Crash` the redelivery of a task. `CheckRaises` and `SearchRaises` are the two
exceptions that end it early: the checks of a response, and `stack[0]` of a result without a stack, which is
what the engine returns for a strategy whose sink is in the pool (`Sinks`) while no source reaches it (`Flows`).
The strategies behind such a one are not searched.
`AddNewApiRoute` and `ApiRouteGather` update coverage through the five-minute cache of
routes and the cached agent.

### RuleBase: strategies, rules, templates

One action per request that is a single statement, `...Read`/`...Write` pairs or a `job` where a
request has several; agents are given `Given` (`hook_profiles.py`), scans load
`LoadSinkStrategy` through the caches `scanId` and `sinks`. The deletion of a strategy reads and saves
its rules one by one in the code and in one step here. The content of a template is a string of numbers
and commas; `content` is the set of its pieces, and a template that was emptied has the piece `Blank`, which no
strategy appended later removes (`Pieces`), so that `LoadSinkStrategy` goes on to raise for it until a user
saves a list again.

### Accounts and Projects

`GetUsers`, `GetDepartments` and `GetProjects` are the methods of `User`; every view of section
"users, departments, projects" that writes a table is an action, inside
`transaction.atomic` where the code is. `LoginRead`/`LoginSave` and
`VersionCurrentRead`/`VersionCurrentSave` save objects that were read before.

### The smaller modules

* `DirectFindings`: `FindRow`, `CreateRow` or `UpdateRow`, `PruneOlder`, `Finish` are the statements of
  `NormalVulnHandler.save` and `HardEncodeVulHandler.save`. The update of a hard-coded finding stores tuples in
  the columns, so its row is not found again (`uri`).
* `TaintSearch`: a pool grows call by call (`Record`), then `Search` evaluates the engine's
  definition: edges by shared hashes, some shortest route for each source and sink (`Selections`), taken
  in the order of the pool (`InOrder`), the routes dropped for empty ranges, and the merge of one route after
  the other into the stacks (`Stacks`). Flows are compared with reachability defined
  independently (`Taints`, by closed sets).
* `TaintPosition`: a request is a template with holes; `ParseParams`, `ParseBody`, `ParseHeader`,
  `ParseCookie`, `ParsePath` and `GetOriginalUrl` are evaluated for each value a client may send in the
  holes, encoded or not. Texts are words with the number of times they are encoded.
* `VulLog`: a status is saved (`Save`) and logged (`Log`) by different statements of
  `VulStatus.post`, `DelVulMany.post`, `handler_replay_vul` and `save_vul`.
* `VulSearch`: `SearchPage` cuts the hits in the order of the index (`by`), then by user, then in the order of the list
  (`order`), which are any two orders. `Save` queues the Singleton task; `LockExpires` (20 s) comes before the task is due
  (120 s); `BuildReads` and `BuildCommits` bracket the rebuild, `BuildFails` is the second writer.
* `DastBinding`: `HookRow`, `HookMatch` per mark and `HookStore` are `DastWebhook.post`; `ScanRead`, `ScanMark`,
  `ScanMatch` are the end of `handler_vul`.
* `PoolSearch`: one page per step of `MethodPoolSearchProxy` (newest first, ids read so far
  excluded) and of `MethodPoolDetailProxy` (by id from a cursor).
* `ApiSchema`: `Replaced` follows references as `replace_ref` does, `Rows` lists as `_para_schema_to_list`.
* `SensitiveRules`, `HookRelease`, `StrategyRelease`: the three parts of the command
  `load_hook_strategy`, which each starting process may run without a lock; `alone` marks a
  load that met no other one; users may edit meanwhile. A type that only users have is skipped with all
  its patterns or rules (`Bound`, read once when a load starts). In `HookRelease` adding, editing and switching
  one rule are two steps, `Edit` reads and `Save` writes the whole row later, so a row read before the load is
  written back with what it was; such a save of a row that changed meanwhile clears `alone`. The last step
  records the files that are on disk then, not those that were read.
* `AgentConfig`: the reads of one request (`ListConfigs`, `MatchTargets`, `ReadConfig`, `ReadMetrics`) while the
  tables are edited.
* `ResultCache`: one function, one key; `Compute` and `CacheSet` are separate, so that an invalidation comes
  between them.
* `Retention`: `DoItNow` and `Beat` start clean-ups; `DeleteRange` deletes a half-open range of ids,
  `DeleteChunk` a set of expired ids with elastic search. What is expired is fixed when a clean-up begins:
  `Day` moves its limit along with the age of the pools.

## 3 The runs

| run | question | instance | states |
|---|---|---|---|
| `replay_verdict` | types; what workers remember; verdicts and confirmations have evidence | two payload rows of one vulnerability, a row without payload of another, answers that hit nothing, the own strategy or another one, users that ignore and delete, the switch moving, one crash | 4.5 M |
| `replay_progress` | every pending row is processed, every offered row settles | two vulnerabilities with payloads, one unparsable, one without uri, both queued twice, answers that hit nothing (a hit only closes the row it is for), one crash; `FairSpec` | 209 k |
| `replay_poison`, `replay_closed` | the two findings | small | up to 3 k |
| `store_lost` | types; the lock; one row per tainted flow, with its pool; no sighting is lost to the lock | a pool and a replay's pool of one tainted flow, two workers that race for its key, a user that ignores and soft-deletes; `FairSpec` | 122 k |
| `store_users` | ignored stays ignored, statuses belong to users | a tainted flow in two versions of one project, once through a replay's pool, and a header vulnerability; hard deletion, keys expiring at any time, one crash | 5.2 M |
| `request_replay` | refinement of `ReplayService`, freshness, termination | two users, two pools, two agents of which one is alive, two requests, two rows; `FairSpec` | 645 k |
| `agent_status` | deletion is final; lists follow agents; a running agent is heard | one agent, two users, two start, stop or status requests; `FairSpec` | 211 k |
| `rules` | scans catch up with edits | three strategies, three rules, two templates that may be emptied, two users, one worker, two edits; `FairSpec` | 211 k |
| `intake` | coverage, order and redelivery of scans | one agent, two versions, one path, two pools of which one is malformed, two strategies with a sink without flow in one of the pools, two workers, one crash; `FairSpec` | 266 k |
| `reports` | eight components that handle reports | see below | 2.9 M |
| `management` | eight components of users, releases and clean-ups | see below | 2.3 M |

**Side by side.** `Reports` and `Management` put several small components into one specification, so
that one run checks them and one module proves about them. A variable `part` says which
component a behaviour is about; each component has variables of its own, and those of the others
rest at None. (The part that only `MCManagement` adds works on variables of
components that rest.) A property is the component's own property under
`part = "..."`. Nothing is composed there: the components share no state, and the number of states
is the sum, not the product.

| property of `reports` | component and instance |
|---|---|
| `FindingKept` | `DirectFindings`: two handlers, one key of each kind, four reports, users that delete and edit |
| `StacksReported` | `TaintSearch`: pools of up to four calls over two objects |
| `KeysStable` | `TaintPosition`: 3840 requests with holes in path, query, body, header and cookie, one name encoded; three values of which clients encode one |
| `LogTells` | `VulLog`: two workers, one vulnerability, two statuses, crashes |
| `ViewsAgree` | `VulSearch`: two vulnerabilities in two projects, two users, pages of one |
| `RelationsAgree` | `DastBinding`: two vulnerabilities, one finding, two marks |
| `PagesComplete` | `PoolSearch`: three pools of two agents, pages of one, blocks of two |
| `QueueBounded` | `ReplayQueue`: two agents, two detectors that race for one vulnerability with one payload, one crash, room for four rows; no scan of replays, which `replay_verdict` has |

| property of `management` | component and instance |
|---|---|
| `TenantsApart` | `Projects`: two tenants, four users in all roles, two departments, two projects, three requests |
| `RulesKept` | `SensitiveRules`: three releases, two processes, two strategies that users may make theirs first, one edit |
| `LoadsKeepRules` | `HookRelease`: two releases, a sink and two other rules, one editor, two processes, three events |
| `BindingStable` | `StrategyRelease`: two releases, two processes, three loads |
| `OneEditAtomic` | `AgentConfig`: two configurations, two groups, one edit |
| `AnswersAreRecent` | `ResultCache`: two processes, a call that takes as long as an entry lives |
| `CleanUpExact` | `Retention`: two clean-ups, four pools, batches of two |
| `ParametersListed` | `ApiSchema`: two schemas that refer to each other through arrays, sets and maps |

**Bounds.** Every bound is a constant whose comment begins with "bound"; most start
with `Max`, and the guards that use them show it. Two rows are the smallest number at
which one row's verdict discards another, or a batch has a row behind the failing one;
two rounds (`MaxCount` 2) are what it takes for an answer to the first to arrive in the
second; two agents share a row as any number do, since a heartbeat looks at its own
lists only. Two users with two requests are enough for one to overwrite the row the
other polls; two workers or processes for a lost update; two pools, releases or versions for
one to be taken for the other. Four calls hold a source, a propagator and a sink with a
branch beside them. A batch of two has a last chunk that is full and one that is not.
`MaxInflight` and `MaxQueued` are 1 in the replay queue and in the storage, so a
request or message is repeated only after the copy before it was taken. In `VulStore` a
third worker, who takes a key that the second frees while it goes on without one, is left to
the theorem, as is any larger number. Rows that are queued again while two agents share them are left to
`QueueStaysBounded`: `replay_progress` queues rows twice, but with one agent, so that what it shows of
`OfferSettled` is about lost and late answers and not about two heartbeats at once.
An answer that hits both the own and another strategy is in `replay_closed` and in the theorems.
One `Uploader` stores replays in the runs: a second one, which looks before the first has stored, is left to
`VerdictAlwaysJustified` and `ConfirmationAlwaysJustified`, which hold for any number.
A clean-up's `days` may grow to `MaxAge` 3, so that pools expire while one runs.

**Deadlock** is not checked: a model with bounded ids stops when they are used
up, and the system itself is quiet when nobody uploads anything.

**Symmetry** is used in `management` only (ids of projects and of versions), which has
no liveness property.

**Fairness.** `vul_recheck` runs periodically (`dongtai_conf/celery.py:133`) and agents
send a heartbeat every minute, so both are weakly fair in `ReplayQueue`; no agent is
assumed to upload, and no user to act. In `VulStore` a running `save_vul` goes on (weak
fairness), keys expire (redis), and a queued message is taken in the end
(strong fairness, because the queue is first in, first out and other messages
may keep the workers busy in between). In `RequestReplay` time passes and the dialogue
polls; no agent needs to be alive. In `AgentStatus` the periodic sweep, queued tasks and
begun requests go on and cache entries expire; an agent that is up sends heartbeats,
again and again one with returnQueue 0 (strong fairness, for only those delay the task),
and other reports. In `RuleBase` begun requests end, agents upload, entries expire. In `Intake`
workers run, requests end, entries expire, and agents in use upload.

**Findings.** Two runs show where the code disagrees with what the repository says
of it; `findings` in `PROJECT.json` quotes both sides:

* `replay_poison`: one row without payload makes every `vul_recheck` raise, and
  the older pending rows are never processed (tasks.py:340).
* `replay_closed`: `~Q(status_id=(3, 5, 6))` excludes only status 3, so a verification
  reopens what a user marked solved or fixed (vul_handler.py:491).

**Mutants.** Every property of a passing run has a mutant under `mutants`: an operator
of the module (`<Definition>_<Change>`) that alters the definition as a plausible bug would,
and under which the run's configuration shows the property violated.

## 4 The proofs

Eight modules hold proofs, checked by TLAPS from nothing, for every value of the constants
that satisfies the modules' assumptions.

| module | theorem | says |
|---|---|---|
| `ReplayQueue_proofs` | `TypeCorrect` | `Spec => []TypeOK` |
| | `WorkAlwaysBacked` | workers, heartbeats and scans only hold rows, requests and replays that are stored |
| | `VerdictAlwaysJustified` | every verdict in the queue has its evidence |
| | `ConfirmationAlwaysJustified` | a confirmation in the log has a replay that hit the own strategy |
| | `QueueAlwaysBounded` | the queue is bounded: `RequestAlwaysPrepared`, `ResentAtMostOnce` and `RowsAlwaysBounded` together. What is offered was built, no request is handed to an agent more than twice but for crashes, each detector inserts one set of rows at most |
| `VulStore_proofs` | `TypeCorrect` | `Spec => []TypeOK` |
| | `StoreAlwaysBacked` | what workers and users remember stays right; until a flow has a row its key excludes the others |
| | `TaintStoredOnce` | a tainted flow never gets a second row |
| | `IgnoreAlwaysHonoured` | what the project ignored all along is not written |
| | `EvidenceAlwaysStored` | a row without its pool has a worker about to write it, or was last written from a replay's pool, unless a worker was killed or rows are deleted |
| | `StatusChangedByUsers` | no scan changes a status |
| `AgentStatus_proofs` | `DeletedAgentsStay` | an agent deleted with its project stays so |
| `Intake_proofs` | `IntakeAlwaysSafe` | only answered routes are covered; a queued scan finds its pool |
| | `CoverageAlwaysKept` | coverage falls only when routes are added |
| `RequestReplay_proofs` | `AnswerAlwaysFresh` | an answer shown is to the own request or a later one |
| | `RequestReplayImplements` | every step is a step of `ReplayService` or a stutter |
| `Reports_proofs` | `FindingAlwaysKept` | a finding keeps a row |
| | `LogAlwaysTells` | the log tells what users did |
| | `ViewsAlwaysAgree` | an idle index is the table; a search shows rows of the list, as many as its first page, and the same ones where the list fits on a page; the summary counts the list |
| | `RelationsAlwaysAgree` | push and scan relate what shares a mark |
| | `PagesAlwaysComplete` | searches neither repeat nor miss pools |
| | `KeysAlwaysStable` | one key for a weakness, whichever value uncovers it |
| | `StacksAlwaysReported` | reported stacks are flows, every tainted sink is in one with its source, and their steps are shown |
| | `QueueStaysBounded` | what `QueueAlwaysBounded` says, of the queue that `Reports` has as a part |
| `Projects_proofs` | `TenantsAlwaysApart` | tenants see and hold nothing of each other |
| `Management_proofs` | `AnswersAlwaysRecent` | cached answers have a bounded age |
| | `BindingAlwaysStable` | loads keep users' strategies, and bind types to the least row |
| | `LoadsAlwaysKeepRules` | loads keep users' hook rules; one that met no other one and no stale save has installed its release, but for types only users had |
| | `RulesAlwaysKept` | loads keep users' sensitive rules; one that met no other one has installed its release, but for strategies only users had; deleted payloads come back by their owner |
| | `OneEditAlwaysAtomic` | a reader is given the tables before or after an edit |
| | `CleanUpAlwaysExact` | a clean-up deletes what had expired when it began but the newest; what is fresh it deletes only without elastic search, below the newest expired id or less than a batch behind it |

**ReplayQueue.** The inductive invariant is
`IInv == TypeOK /\ WorkBacked /\ VerdictJustified /\ ConfirmationJustified`.
`VerdictJustified` alone is not inductive: the scan that writes RECHECK_TRUE must be
known to work on a stored replay of its row and on a hit of the own strategy (`ScanKnown`), an upload between
its statements to have stored what it is about to send (`UploadKnown`), and `vul_recheck` may only call a vulnerability gone when it is
(`RecheckKnown`). A lemma `Writers` lists which actions write which variable, so that each
conjunct's proof looks at its writers only. `RequestPrepared` follows from where prepared rows
come from (`Built`: waiting and solving rows are prepared, and those that a heartbeat offers or an agent
holds have their uri too), `ResentOnce` from how often a row has been offered, which its state bounds by one
or two and each crash by one more (`Offered`), `RowsPerVul` from a count (`RowsCounted`): the rows that are
there, and those that running creators will insert, are at most one set per detector. `QueueStaysBounded` carries this over
to the instance in `Reports`: its steps are those of the instance of `ReplayQueue_proofs` with the same values (`QueueSteps`). `ReplayAssumption` types the
constants and asks for finitely many detectors, which the counting needs.

**VulStore.** `IInv == TypeOK /\ StoreBacked /\ TaintOnce /\ IgnoreHonoured`. To insert a
second row a worker would have to stand at `create` while a row exists. `LockBacked`
excludes it: a worker between the add and the second get finds some key or there
is a row already; a worker past the lock holds its key or there is a row; a
worker at `create` holds its key and there is no row. It is stable because a key
is deleted only by a worker at `release`, whose row exists (`WorkersKnown`), and expires
only when no step relies on it. `TaintLockAssumption` (two sightings share a key
exactly when they show the same flow) is read off vul_handler.py 264-290: the key is
made of the five columns of the lookup. `TaintOnce` carries two hypotheses, and both
are needed: nobody hard-deletes rows (a saved copy, `SaveCopy`, or a find before the
deletion would bring rows back) and no key expires under a worker in use of it
(`SlowWorker = FALSE`, 300 s). The header function does not satisfy the assumption on keys
(section 5).
`IgnoreHonoured` needs neither: `ignored` is a history variable (ignored at the start of
the save and ever since), and the theorem holds with deletion and early expiry.
`EvidenceStored` is inductive together with `PoolWritten` and `CopiesBacked` on top of `IInv`: a row without a
pool has a worker between `create` and `pool` that names it, and only a crash or the exception of a replay's pool
takes that worker away. The second leaves a row last written from a sighting in `Replayed`, and a user who read it
may bring that back with a stale save (`CopiesBacked`). The property says no more of such rows, for the code keeps
nothing of them: this is a deviation of section 5, not a promise.

**AgentStatus, Intake.** `DeletedStaysDeleted` needs that the agents deleted with their project have no row
(`GoneStays`): saves only change rows that are there, and registration, the one step that makes a row, is
not for an agent deleted before. Coverage needs
`cover \subseteq served`; that a queued scan finds its pool needs that the worker which will queue it has
stored the pool (`WorkersBacked`).

**RequestReplay.** Freshness is about three places where an old answer may be: the agent (`held`), an
upload under way, a stored row. `IInv` says of each to which request it belongs (`UploadsKnown`,
`NewRowsEmpty`, `RowsAsked`, `DialoguesKnown`, `DialoguesFresh`) and that each user who is about to
create a row has room for it (`RoomForCreators`). For the refinement each action is mapped
on its own (`Kept(p)` maps the rows): those that change the answers kept for a pool to `Answer` and `Drop`, `Post` to `Ask`, a poll that
shows an answer to `Show`, the others to stutters.

**Reports.** Each part has an invariant `<Part>Safe` of its own, and
`(part = "...") => <Part>Safe` is inductive.

* Direct findings: until a handler prunes, a row of its finding that is not older than its own is there
  unless a user removed it (`NewestStays`, `HandlersKnown`); ids are not given twice (`IdsAgree`).
* The log: every status that was given is told, or a job that saved it will log it (`GivenTold`); what jobs
  save, the table holds and the log says was given (`JobsGiven`, `StatusGiven`, `ChangesGiven`).
* The index: where it differs from the table a task is queued, or the running one has yet to read the table
  or has read it as it is (`TasksCover`); that first pages have one size in any two orders is the lemma
  `FirstPage`, arithmetic of cardinalities and ranks.
* DAST: a relation has the mark on both sides, or the push being handled brings it (`RelsBacked`,
  `FitsPushed`); while no scan and push of a mark met, what fits is related or the running scan will
  relate it (`BoundApart`).
* Pages: the pools that are due and were not shown are still sought, and are not newer than the last page
  (`SearchKnown`); that a page of details passes over the last of each block only is the lemma that
  multiples of the block size are a block apart.
* Keys: what a parser finds in a filled request is a function of the holes of the template
  (`ParamOf`, `BodyOf`, `ItemOf`, `PlaceIn`): decoded twice, a hole is the value and nothing else is
  (`MatchesHoles`), so the third and fourth attempt of `parse_params` find nothing the first two missed.
  The assumption that names of one word are encoded alike (`NamesAlike`) is needed: with
  `a=v&%61=w` the first parsing has one parameter where the template has two.
* Taint search: `TaintInv` says that the pool is a sequence of calls and that what was reported of it is right,
  which the step `Search` owes to the algorithm alone. The weights of calls and the stacks after n routes are recursive
  functions; that they satisfy their equations is shown by the least number where they would not
  (`RecursionExists`), and that finite sets can be put in order in the same way (`SortingExists`). A tainted sink is
  reached by a route without repetitions, so by a shortest one (`TaintedReached`); the ends of a route stay
  together in some stack when others are merged into it (`JoinedKeeps`); merging keeps stacks flows
  (`MergedFlow`). Routes of different sources may be merged; where the pool has one source, every stack is
  one of the chosen routes unchanged (`StacksOfOneSource`), so its steps are those of the pool.

**Projects.** `TenantsSafe` adds to the property what requests and logins hold between two
statements: a saved user, a chosen department and a project belong to the tenant that the request was
admitted for (`DeptsKnown`, `UsersKnown`, `LoginsKnown`, `ProjectsKnown`, `VersionsKnown`, `SettingsKnown`). The
assumption `StartsApart` says that an installation starts with tenants that share nothing.

**Management.** Of the cache, a call under way may hold a value that is as old as the call
(`CallsRecent`), so an entry is at most a call older than its life says. Of the loads, one that has met no
other since it began holds what the table still says (`LoadsAlone`, `AloneInstalls`, `AloneLoads`), what users are about
to save keeps the mark and the owner of the row it was read from (`EditsKnown`, `UpdatesKnown`), and the
row a type is bound to is the least of its name (`BoundLeast`). The configuration is read in four statements; `ConfigsSafe` says that what was read so far
fits the tables before the edit or those after it, and what is still to be read will fit the same. Of the
clean-up, the expired pools that are left lie beyond the next chunk or in a range to be deleted, but for the
newest (`JobsKnown`), and the last range ends less than a batch behind the newest due pool. Fresh pools with ids
between those of expired ones go with their range, which `FreshDeletedNearExpired` allows.

**Assumptions.** Bounds are numbers, initial values have their types, `None` is no id and no row. `Detector`,
`User` (of replays), `Path` and `ListedVul` are finite where something is counted. Releases are
sequences of sets of keys with one release at least, groups are numbered from 1 (the
reader takes them in this order), calls of a pool have the type `Call` and pools a longest length, batches and blocks are not empty, days may be any integers. Requests are
encoded twice at most, what the parsers decode, and sent values are no words of a template.

## 5 Limits and known deviations

Only model-checked:

* liveness (`PendingProcessed`, `OfferSettled`, `NothingLost`, `PollEnds`, `ListsFollowAgents`,
  `RunningIsHeard`, `EngineCatchesUp`, `RouteCovered`, `SentScanned`): TLAPS has no rule for
  fairness that its provers here support;
* `ParametersListed` of `ApiSchema`, whose schemas are recursive data and whose operators are RECURSIVE.

Abstractions that a reader should know of:

* One ORM statement is atomic; code between two statements of one handler is not,
  unless nobody else reads or writes what it touches.
* `ReplayQueue`: a replay is what the engine hits in it, and two uploads that hit the same are one; the text of a request
  is "built or not, with a uri or not"; an engine
  result is a set of `{"own", "other"}` strategies; agents of one project share its rows;
  rows of the other replay types are in `RequestReplay`.
* `VulStore`: agents stay in their project version; one save per message (a pool with several
  flows is several sightings); which row is the latest is open when there are several,
  since `latest_time` has seconds only; the notification, the delayed project time stamp
  and the text columns are left out. `NothingLost` asks for a row of
  the vulnerability in the project, not for the counter of this very sighting: the
  lock drops the second of two simultaneous sightings on purpose. `TaintOnce` says nothing of a worker
  that takes longer than its key lives (`SlowWorker`): the code has nothing against the second row then.
* `counts` saturates at `MaxCount`.
* Cached agents are modelled as found by `get_agent`. Two of its callers
  (report_handler_interface.py, saas_method_pool_handler.py) ask with `.only("project_name")`, a
  column the model `IastAgent` does not have; the models take the call as if it answered.
* `TaintSearch` has one strategy, and a call changes what it gives at once; a pool is searched once.
* `PoolSearch` leaves out elastic search, whose function is called with a parameter less than it has.
* `VulLog` has the writers that users and verification act through; what the normal, hard-coded and header
  handlers log when they find a vulnerability (narmal_vul_handler.py, hardencode_vul_handler.py,
  strategy_headers.py) is left out, so `LogTells` says nothing of those entries.
* `HookRelease`, `SensitiveRules`: whether a key is a sink stands for its type and language, which the
  code compares too. A rule whose type the files of the release do not list is skipped like one of a type
  only users have, and is not modelled; nor are the texts of `vul_fix` that the command reads and does not save.
  `sensitive_info_rule.json`, which it loads, is not in the repository: the patterns are any.
* `ApiSchema`: every reference resolves; for one that does not, `replace_ref` raises and nothing is stored.
* `AgentConfig`: the tables are edited outside this repository.
* `RuleBase`: one project and one language; the reads and saves of the rules of a strategy that is
  deleted are one step; the hook types of sinks are not tracked.

Known deviations that the models contain, for which no property is stated because the
code does not promise the contrary anywhere a line could be quoted:

* `save_vul` writes the row of a vulnerability found in a replay's pool, then raises at `req_header_fs`
  (vul_handler.py:402): the row has no `VulMethodPool`, and its key stays until it expires (`VulStore`).
* A strategy whose sink is in the pool while no source reaches it ends the scan (vul_engine.py:412,
  tasks.py:119): what the strategies behind it would find is lost (`Intake`, `ReplayQueue`).
* A second replay that reproduces a confirmed vulnerability leaves its row RECHECK_FALSE
  (tasks.py:92: the false verdict is written first, and `handler_replay_vul` corrects it only
  for a vulnerability that is not confirmed yet). The log entries of heartbeats and of this path
  tell of statuses that were not given.
* The key of the lock in strategy_headers.py holds the http method, the lookup it guards does
  not (line 139): a GET and a POST pool of one header vulnerability create two rows.
* `vul.save()` in vul_status.py:72 and in the deletion views writes whole rows that were read before: a status
  change brings a deleted row back, and a deletion the old status.
* A push of a scanner that meets the scan of the same mark loses the relation (`DastBinding`).
* A stopped load of a release is not repaired (`SensitiveRules`), and a second rule of one key makes
  every later load raise after it has deleted the system's rules (`HookRelease`).
* A load skips the rules and patterns of a type that only users have (load_hook_strategy.py 127, 148, 179), and
  so the type a user adds before a release brings it keeps them out for good. A user's edit of a hook rule that was read before a load
  demoted or deleted it makes it the system's again (engine_hook_rule_modify.py:189, `HookRelease`).
* Two loads at once leave strategies and hook types twice (`StrategyRelease`).
* A clean-up without elastic search deletes ranges of ids: fresh pools between expired ones go with them, and
  up to a batch less two behind the newest; a single expired pool is never deleted (`Retention`).
* The second page of a keyword search is empty, and with more hits than a page the first one is another choice of
  rows than the list's, for the index cuts it by relevance or by one field (app_vul_list.py 238-249, `VulSearch`),
  and the detail search of pools passes over
  the last row of each block (`PoolSearch`).
* With `async_send` a scan that comes before its pool is dropped (`Intake`).
* A value whose encoding holds "&", and an encoded value in the path, are not located (`TaintPosition`).
* A reference to a schema that was first met inside a set or a map hides its fields (`ApiSchema`).
* `load_sink_strategy` does not look at the status of a sink's rules, and an emptied template stops the
  scans of its projects, also after strategies were appended to it (scan_strategys.py 179-183, strategys.py 131-134,
  queryset.py:35, `RuleBase`).

Not modelled, by design: SCA forwarding to a closed service, downloads, health probes,
documents, the framework of the endpoints, the recognition of stacks, localisation, the message
inbox, the access log. Partly modelled parts name what they leave out under `components` in
`PROJECT.json`.

## 6 Plan

Done: the modules above, and a theorem for every safety and action property that a run checks but those
listed in section 5. Next:

1. Invariants of `RuleBase` behind `EngineCatchesUp`: what the caches of a worker may hold, and which edits
   they lack.
2. Type correctness of the small components as theorems of their own, where it is a conjunct of a proof now.
3. `ParametersListed` with schemas as nodes of a graph and `Replaced`, `Rows` as functions of the depth, so that
   it can be proved by the least depth where it would fail.

Left to model: the sensitive-information strategy, project templates, and sample requests of routes.
