----------------------------- MODULE RequestReplay -----------------------------
(***************************************************************************)
(* The manual replay of a request (replay_type REQUEST_REPLAY).            *)
(*                                                                         *)
(* A user posts a request for a recorded method pool.  The post finds a    *)
(* row of the queue for the pool and the agent or creates one, heartbeats  *)
(* of the project's agents take it, an agent uploads what it recorded, and *)
(* the user polls the row until the stored answer is there.  No statement  *)
(* shares a transaction with another one.                                  *)
(***************************************************************************)
EXTENDS Naturals, Sequences, FiniteSets

CONSTANTS
  User,      \* users with one replay dialogue each
  Pool,      \* ids of recorded method pools
  Agent,     \* agents of the one project
  MaxRequests, \* bound: requests posted, numbered in the order of their posts
  PoolAgent, \* the agent that recorded a pool
  InitialRunning, \* sets of agents that may be RUNNING at first
  MaxRows    \* bound: rows ever created

ASSUME RequestAssumption ==
  /\ MaxRequests \in Nat /\ IsFiniteSet(User) /\ Pool # {}
  /\ PoolAgent \in [Pool -> Agent]
  /\ InitialRunning \subseteq SUBSET Agent
  /\ MaxRows \in Nat

VARIABLES
  running, \* agents with actual_status RUNNING
  queue,   \* rows of iast_replay_queue
  lastId,  \* last id given
  stored,  \* IastAgentMethodPoolReplay: requests whose answer is stored for a row
  user,    \* the dialogue of each user: post, then polls
  view,    \* the request whose answer the last poll showed
  told,    \* what the last poll said
  beat,    \* get_result of each agent: the row contents read by the query
  held,    \* requests of a row the agents hold
  upload,  \* SaasMethodPoolHandler.save of a replay, one per agent
  asked,   \* history: requests posted for a pool
  since    \* history: requests written to the user's row since its own, or
           \* everything if older ones were under way when it was written

vars == <<running, queue, lastId, stored, user, view, told, beat, held, upload, asked, since>>
agentVars == <<beat, held, upload>>

RowId == 1..MaxRows
Request == 1..MaxRequests
NoRequest == 0
Row   == [pool: Pool, agent: Agent, req: Request, state: {"WAITING", "SOLVING", "SOLVED"}, old: BOOLEAN]
Rows  == 1..lastId
Holding == [RowId -> Request \cup {NoRequest}]
Idle  == [pc |-> "idle", pool |-> CHOOSE p \in Pool : TRUE, agent |-> CHOOSE a \in Agent : TRUE,
          req |-> NoRequest, row |-> 0]
Free  == [pc |-> "idle", row |-> 0, req |-> NoRequest]
Quiet == [pc |-> "idle", reqs |-> [r \in RowId |-> NoRequest]]

Init ==
  /\ running \in InitialRunning
  /\ queue = << >> /\ lastId = 0
  /\ stored = [r \in RowId |-> {}]
  /\ user = [u \in User |-> Idle]
  /\ view = [u \in User |-> NoRequest]
  /\ told = [u \in User |-> "nothing"]
  /\ beat = [a \in Agent |-> Quiet]
  /\ held = [r \in RowId |-> {}]
  /\ upload = [a \in Agent |-> Free]
  /\ asked = [p \in Pool |-> {}]
  /\ since = [u \in User |-> {}]

--------------------------------------------------------------------------------
(* RequestReplayEndPoint.post and send_request_to_replay_queue.               *)

(* Without agent_id the agent of the pool must be RUNNING; a given agent that
   is not RUNNING is replaced by any RUNNING agent of the project.            *)
Target(p, chosen) ==
  IF chosen = {} THEN running \cap {PoolAgent[p]}
  ELSE IF chosen \subseteq running THEN chosen ELSE running

\* Mutant: the lookup of the row leaves relation_id out.
Found_AnyPool(p, a) == {r \in Rows : queue[r].agent = a}

\* Rows filter(replay_type, relation_id, agent_id) returns.
Found(p, a) == {r \in Rows : queue[r].pool = p /\ queue[r].agent = a}

\* The dialogue once the post has answered with the id of the row.
Polling(p, r) == [Idle EXCEPT !.pc = "poll", !.pool = p, !.row = r]

(* The checks, then the lookup.  A row that is WAITING is returned as it is:
   the new request is not written anywhere.                                   *)
Post(u, p, chosen, q) ==
  /\ user[u].pc \in {"idle", "poll"}
  /\ q = Cardinality(UNION {asked[x] : x \in Pool}) + 1
  /\ \E a \in Target(p, chosen) :
       LET dialogue(pc, r) == [pc |-> pc, pool |-> p, agent |-> a, req |-> q, row |-> r]
       IN  IF Found(p, a) = {}
             THEN /\ lastId + Cardinality({w \in User : user[w].pc = "create"}) < MaxRows
                  /\ user' = [user EXCEPT ![u] = dialogue("create", 0)]
             ELSE \E r \in Found(p, a) :
                    user' = [user EXCEPT ![u] =
                      IF queue[r].state = "WAITING" THEN Polling(p, r) ELSE dialogue("reuse", r)]
  /\ asked' = [asked EXCEPT ![p] = @ \cup {q}]
  /\ view' = [view EXCEPT ![u] = NoRequest]
  /\ told' = [told EXCEPT ![u] = "nothing"]
  /\ since' = [since EXCEPT ![u] = Request]
  /\ UNCHANGED <<running, queue, lastId, stored, agentVars>>

PostCreate(u) ==
  /\ user[u].pc = "create"
  /\ lastId' = lastId + 1
  /\ queue' = Append(queue, [pool |-> user[u].pool, agent |-> user[u].agent, req |-> user[u].req,
                             state |-> "WAITING", old |-> FALSE])
  /\ user' = [user EXCEPT ![u] = Polling(user[u].pool, lastId + 1)]
  /\ since' = [since EXCEPT ![u] = {user[u].req}]
  /\ UNCHANGED <<running, stored, view, told, agentVars, asked>>

\* No older request of the row is with a heartbeat, an agent or an upload.
Undisturbed(r) ==
  /\ held[r] = {}
  /\ \A a \in Agent : beat[a].reqs[r] = NoRequest /\ upload[a].row # r

(* save(update_fields=...): the row is overwritten, except for create_time.   *)
PostReuse(u) ==
  LET r == user[u].row
  IN  /\ user[u].pc = "reuse"
      /\ queue' = [queue EXCEPT ![r].req = user[u].req, ![r].state = "WAITING"]
      /\ user' = [user EXCEPT ![u].pc = "delete"]
      /\ since' = [w \in User |->
           IF w = u THEN (IF Undisturbed(r) THEN {user[u].req} ELSE Request)
           ELSE IF user[w].row = r THEN since[w] \cup {user[u].req} ELSE since[w]]
      /\ UNCHANGED <<running, lastId, stored, view, told, agentVars, asked>>

\* Mutant: the answer to the request before is not deleted.
PostDelete_Keeps(u) ==
  /\ user[u].pc = "delete"
  /\ user' = [user EXCEPT ![u] = Polling(user[u].pool, user[u].row)]
  /\ UNCHANGED <<running, queue, lastId, stored, view, told, agentVars, asked, since>>

PostDelete(u) ==
  /\ user[u].pc = "delete"
  /\ stored' = [stored EXCEPT ![user[u].row] = {}]
  /\ user' = [user EXCEPT ![u] = Polling(user[u].pool, user[u].row)]
  /\ UNCHANGED <<running, queue, lastId, view, told, agentVars, asked, since>>

\* Mutant: the age of the row is not looked at.
Poll_NoTimeout(u) ==
  LET r == user[u].row
      say(what, q) == /\ told' = [told EXCEPT ![u] = what]
                      /\ view' = [view EXCEPT ![u] = q]
  IN  /\ user[u].pc = "poll"
      /\ \/ queue[r].state # "SOLVED" /\ say("processing", NoRequest)
         \/ /\ queue[r].state = "SOLVED"
            /\ \/ stored[r] = {} /\ say("failed", NoRequest)
               \/ \E q \in stored[r] : say("answer", q)
      /\ UNCHANGED <<running, queue, lastId, stored, user, agentVars, asked, since>>

(* RequestReplayEndPoint.get: a row created five minutes ago has timed out,
   one that is not SOLVED is processed, else the stored answer or none.       *)
Poll(u) ==
  LET r == user[u].row
      say(what, q) == /\ told' = [told EXCEPT ![u] = what]
                      /\ view' = [view EXCEPT ![u] = q]
  IN  /\ user[u].pc = "poll"
      /\ \/ queue[r].old /\ say("timeout", NoRequest)
         \/ ~queue[r].old /\ queue[r].state # "SOLVED" /\ say("processing", NoRequest)
         \/ /\ ~queue[r].old /\ queue[r].state = "SOLVED"
            /\ \/ stored[r] = {} /\ say("failed", NoRequest)
               \/ \E q \in stored[r] : say("answer", q)
      /\ UNCHANGED <<running, queue, lastId, stored, user, agentVars, asked, since>>

--------------------------------------------------------------------------------
(* HeartBeatHandler.get_result, for rows of any replay type.                  *)

\* Rows a get_result has read.
Taken(a) == {r \in Rows : beat[a].reqs[r] # NoRequest}

\* UPDATE iast_replay_queue SET state WHERE id IN rows AND state = from
Moved(rows, from, to) ==
  [r \in Rows |-> IF r \in rows /\ queue[r].state = from THEN [queue[r] EXCEPT !.state = to] ELSE queue[r]]

HeartbeatQuery(a) ==
  /\ a \in running /\ beat[a].pc = "idle"
  /\ \E r \in Rows : queue[r].state # "SOLVED"
  /\ beat' = [beat EXCEPT ![a] = [pc |-> "settle",
       reqs |-> [r \in RowId |-> IF r \in Rows /\ queue[r].state # "SOLVED" THEN queue[r].req ELSE NoRequest]]]
  /\ UNCHANGED <<running, queue, lastId, stored, user, view, told, held, upload, asked, since>>

HeartbeatSettle(a) ==
  /\ beat[a].pc = "settle"
  /\ queue' = Moved(Taken(a), "SOLVING", "SOLVED")
  /\ beat' = [beat EXCEPT ![a].pc = "issue"]
  /\ UNCHANGED <<running, lastId, stored, user, view, told, held, upload, asked, since>>

(* The last update; the response reaches the agent or is lost.                *)
HeartbeatIssue(a) ==
  /\ beat[a].pc = "issue"
  /\ queue' = Moved(Taken(a), "WAITING", "SOLVING")
  /\ beat' = [beat EXCEPT ![a] = Quiet]
  /\ \/ held' = [r \in RowId |-> held[r] \cup ({beat[a].reqs[r]} \ {NoRequest})]
     \/ UNCHANGED held
  /\ UNCHANGED <<running, lastId, stored, user, view, told, upload, asked, since>>

--------------------------------------------------------------------------------
(* SaasMethodPoolHandler.save of a replayed request.                          *)

(* The agent sends what it recorded (it may send it again later); a pool that
   is stored for the row is left alone, only a dictionary is updated.         *)
UploadStart(a, r, q) ==
  /\ a \in running /\ upload[a].pc = "idle"
  /\ q \in held[r]
  /\ held' = [held EXCEPT ![r] = @ \ {q}] \/ UNCHANGED held
  /\ upload' = [upload EXCEPT ![a] = [pc |-> IF stored[r] = {} THEN "create" ELSE "solve", row |-> r, req |-> q]]
  /\ UNCHANGED <<running, queue, lastId, stored, user, view, told, beat, asked, since>>

UploadCreate(a) ==
  /\ upload[a].pc = "create"
  /\ stored' = [stored EXCEPT ![upload[a].row] = @ \cup {upload[a].req}]
  /\ upload' = [upload EXCEPT ![a].pc = "solve"]
  /\ UNCHANGED <<running, queue, lastId, user, view, told, beat, held, asked, since>>

UploadSolve(a) ==
  /\ upload[a].pc = "solve"
  /\ queue' = [queue EXCEPT ![upload[a].row].state = "SOLVED"]
  /\ upload' = [upload EXCEPT ![a] = Free]
  /\ UNCHANGED <<running, lastId, stored, user, view, told, beat, held, asked, since>>

--------------------------------------------------------------------------------

LoseRequest(r) ==
  /\ held[r] # {}
  /\ \E q \in held[r] : held' = [held EXCEPT ![r] = @ \ {q}]
  /\ UNCHANGED <<running, queue, lastId, stored, user, view, told, beat, upload, asked, since>>

AgentStops(a) ==
  /\ a \in running
  /\ running' = running \ {a}
  /\ UNCHANGED <<queue, lastId, stored, user, view, told, agentVars, asked, since>>

(* More than five minutes have passed since the rows were created.            *)
TimePasses ==
  /\ \E r \in Rows : ~queue[r].old
  /\ queue' = [r \in Rows |-> [queue[r] EXCEPT !.old = TRUE]]
  /\ UNCHANGED <<running, lastId, stored, user, view, told, agentVars, asked, since>>

Next ==
  \/ \E u \in User : \/ PostCreate(u) \/ PostReuse(u) \/ PostDelete(u) \/ Poll(u)
                     \/ \E p \in Pool, q \in Request :
                          Post(u, p, {}, q) \/ \E a \in Agent : Post(u, p, {a}, q)
  \/ \E a \in Agent : \/ HeartbeatQuery(a) \/ HeartbeatSettle(a) \/ HeartbeatIssue(a)
                      \/ UploadCreate(a) \/ UploadSolve(a) \/ AgentStops(a)
                      \/ \E r \in RowId, q \in Request : UploadStart(a, r, q)
  \/ \E r \in RowId : LoseRequest(r)
  \/ TimePasses

Spec == Init /\ [][Next]_vars

(* Time passes and the dialogue polls; no agent needs to be alive.            *)
Fairness == WF_vars(TimePasses) /\ \A u \in User :
  WF_vars(PostCreate(u)) /\ WF_vars(PostReuse(u)) /\ WF_vars(PostDelete(u)) /\ WF_vars(Poll(u))

FairSpec == Spec /\ Fairness

--------------------------------------------------------------------------------

(* The queue, the dialogues and what the agents hold keep their types.        *)
TypeOK ==
  /\ running \in SUBSET Agent
  /\ lastId \in 0..MaxRows /\ queue \in [Rows -> Row]
  /\ stored \in [RowId -> SUBSET Request]
  /\ user \in [User -> [pc: {"idle", "create", "reuse", "delete", "poll"}, pool: Pool, agent: Agent,
                        req: Request \cup {NoRequest}, row: 0..MaxRows]]
  /\ \A u \in User : user[u].pc \in {"reuse", "delete", "poll"} => user[u].row \in Rows
  /\ view \in [User -> Request \cup {NoRequest}]
  /\ told \in [User -> {"nothing", "timeout", "processing", "failed", "answer"}]
  /\ beat \in [Agent -> [pc: {"idle", "settle", "issue"}, reqs: Holding]]
  /\ held \in [RowId -> SUBSET Request]
  /\ upload \in [Agent -> [pc: {"idle", "create", "solve"}, row: 0..MaxRows, req: Request \cup {NoRequest}]]
  /\ asked \in [Pool -> SUBSET Request]
  /\ since \in [User -> SUBSET Request]

(* An answer a user is shown is to the user's own request or to one written to
   the row after it, if no older request of the row was with a heartbeat, an
   agent or an upload when the post wrote the row: what the deletion of the
   stored replay after the save is for.                                       *)
AnswerIsFresh == TypeOK /\ \A u \in User : told[u] = "answer" => view[u] \in since[u]

(* A dialogue does not stay "processing", even if every agent dies after it
   took the request: it ends with an answer, a failure or a timeout.          *)
PollEnds == \A u \in User : told[u] = "processing" ~> told[u] # "processing"

(* The endpoint, the heartbeats and the uploads implement ReplayService: no
   answer is shown about a pool that was not asked of that pool, however
   posts, polls, heartbeats and late uploads interleave.                      *)
Service == INSTANCE ReplayService WITH
  kept <- [p \in Pool |-> UNION {stored[r] : r \in {x \in Rows : queue[x].pool = p}}],
  topic <- [u \in User |-> user[u].pool]

ServiceSpec == Service!Spec
================================================================================
