-------------------------- MODULE RequestReplay_proofs --------------------------
(* Proofs about RequestReplay, for any number of users, pools, agents, rows    *)
(* and requests: that it implements ReplayService, and that answers are fresh. *)
EXTENDS RequestReplay, FiniteSetTheorems, SequenceTheorems, TLAPS

--------------------------------------------------------------------------------
(* The inductive invariant.                                                   *)

\* The requests of a row that a heartbeat, an agent or an upload holds.
WithAgents(r) ==
  {q \in Request : q \in held[r] \/ \E a \in Agent :
     beat[a].reqs[r] = q \/ (upload[a].row = r /\ upload[a].req = q)}

\* The dialogues that are about to insert a row.
Creators == {w \in User : user[w].pc = "create"}

\* The rows that dialogues are about to insert still fit.
RoomForCreators == lastId + Cardinality(Creators) <= MaxRows

\* An upload under way is that of a request for a row.
UploadsKnown ==
  \A a \in Agent : upload[a].pc # "idle" => upload[a].row \in Rows /\ upload[a].req \in Request

\* No request was ever with an agent, and no answer stored, for a row that is not there yet.
NewRowsEmpty == \A r \in RowId \ Rows : WithAgents(r) = {} /\ stored[r] = {}

\* A request is written to a row of the pool it was asked about, and stays with it.
RowsAsked == \A r \in Rows :
  queue[r].req \in asked[queue[r].pool] /\ WithAgents(r) \subseteq asked[queue[r].pool]

\* A dialogue is about the pool of its row, and writes a request that it asked.
DialoguesKnown == \A u \in User :
  /\ user[u].pc \in {"create", "reuse"} => user[u].req \in asked[user[u].pool]
  /\ user[u].pc \in {"reuse", "delete", "poll"} => queue[user[u].row].pool = user[u].pool

\* Once a post has written its row, what is under way for the row was written since, and
\* once it has deleted the stored answer, so is what is stored.  Until then nothing
\* is shown.
DialoguesFresh == \A u \in User :
  /\ user[u].pc \in {"delete", "poll"} =>
       queue[user[u].row].req \in since[u] /\ WithAgents(user[u].row) \subseteq since[u]
  /\ user[u].pc = "poll" => stored[user[u].row] \subseteq since[u]
  /\ user[u].pc # "poll" => told[u] # "answer"
  /\ told[u] = "answer" => view[u] \in since[u]

IInv == /\ TypeOK /\ RoomForCreators /\ UploadsKnown /\ NewRowsEmpty /\ RowsAsked
        /\ DialoguesKnown /\ DialoguesFresh

--------------------------------------------------------------------------------
(* Dialogues.                                                                 *)

UserType == [pc: {"idle", "create", "reuse", "delete", "poll"}, pool: Pool, agent: Agent,
             req: Request \cup {NoRequest}, row: 0..MaxRows]

\* The placeholder of an idle dialogue, and a dialogue that polls, are of the type.
LEMMA PollingTyped ==
  /\ Idle \in UserType /\ Idle.pc = "idle"
  /\ \A p \in Pool, r \in 0..MaxRows :
       /\ Polling(p, r) \in UserType
       /\ Polling(p, r).pc = "poll" /\ Polling(p, r).pool = p /\ Polling(p, r).row = r
<1>1. \E p \in Pool : TRUE BY RequestAssumption
<1>2. \E a \in Agent : TRUE BY <1>1, RequestAssumption
<1>3. (CHOOSE p \in Pool : TRUE) \in Pool /\ (CHOOSE a \in Agent : TRUE) \in Agent
  BY <1>1, <1>2
<1>4. Idle \in UserType /\ Idle.pc = "idle" BY <1>3, RequestAssumption DEF Idle, UserType
<1>5. ASSUME NEW p \in Pool, NEW r \in 0..MaxRows
      PROVE  /\ Polling(p, r) \in UserType
             /\ Polling(p, r).pc = "poll" /\ Polling(p, r).pool = p /\ Polling(p, r).row = r
  <2>1. Polling(p, r) = [Idle EXCEPT !.pc = "poll", !.pool = p, !.row = r] BY DEF Polling
  <2>. HIDE DEF Polling
  <2>. QED BY <1>4, <2>1 DEF UserType
<1>. QED BY <1>4, <1>5

\* What a post leaves behind: a dialogue about the pool, that is to insert a row, or that
\* has a row of the pool (RequestReplayEndPoint.post, up to its first write).
LEMMA Posted ==
  ASSUME TypeOK, NEW u \in User, NEW p \in Pool, NEW chosen \in SUBSET Agent,
         NEW q \in Request, Post(u, p, chosen, q)
  PROVE  \E t \in UserType :
           /\ user' = [user EXCEPT ![u] = t] /\ t.pool = p
           /\ \/ t.pc = "create" /\ t.req = q /\ lastId + Cardinality(Creators) < MaxRows
              \/ /\ t.pc \in {"reuse", "poll"} /\ t.row \in Rows /\ queue[t.row].pool = p
                 /\ t.pc = "reuse" => t.req = q
<1>. DEFINE D(pc, a, r) == [pc |-> pc, pool |-> p, agent |-> a, req |-> q, row |-> r]
<1>1. PICK a \in Target(p, chosen) :
        IF Found(p, a) = {}
          THEN /\ lastId + Cardinality(Creators) < MaxRows
               /\ user' = [user EXCEPT ![u] = D("create", a, 0)]
          ELSE \E r \in Found(p, a) : user' = [user EXCEPT ![u] =
                 IF queue[r].state = "WAITING" THEN Polling(p, r) ELSE D("reuse", a, r)]
  BY DEF Post, Creators
<1>2. a \in Agent BY RequestAssumption DEF Target, TypeOK
<1>3. \A pc \in {"create", "reuse"}, r \in 0..MaxRows :
        /\ D(pc, a, r) \in UserType /\ D(pc, a, r).pc = pc /\ D(pc, a, r).pool = p
        /\ D(pc, a, r).req = q /\ D(pc, a, r).row = r
  BY <1>2 DEF UserType
<1>. HIDE DEF D
<1>4. CASE Found(p, a) = {}
  <2>1. 0 \in 0..MaxRows BY RequestAssumption
  <2>2. user' = [user EXCEPT ![u] = D("create", a, 0)] BY <1>1, <1>4
  <2>3. /\ D("create", a, 0) \in UserType /\ D("create", a, 0).pc = "create"
        /\ D("create", a, 0).pool = p /\ D("create", a, 0).req = q
    BY <1>3, <2>1
  <2>. QED BY <1>1, <1>4, <2>2, <2>3
<1>5. CASE Found(p, a) # {}
  <2>1. PICK r \in Found(p, a) : user' = [user EXCEPT ![u] =
               IF queue[r].state = "WAITING" THEN Polling(p, r) ELSE D("reuse", a, r)]
    BY <1>1, <1>5
  <2>2. r \in Rows /\ queue[r].pool = p /\ r \in 0..MaxRows
    BY RequestAssumption DEF Found, Rows, TypeOK
  <2>3. CASE queue[r].state = "WAITING"
    <3>1. user' = [user EXCEPT ![u] = Polling(p, r)] BY <2>1, <2>3
    <3>2. /\ Polling(p, r) \in UserType /\ Polling(p, r).pc = "poll"
          /\ Polling(p, r).pool = p /\ Polling(p, r).row = r
      BY <2>2, PollingTyped
    <3>. QED BY <2>2, <3>1, <3>2
  <2>4. CASE queue[r].state # "WAITING"
    <3>1. user' = [user EXCEPT ![u] = D("reuse", a, r)] BY <2>1, <2>4
    <3>2. /\ D("reuse", a, r) \in UserType /\ D("reuse", a, r).pc = "reuse"
          /\ D("reuse", a, r).pool = p /\ D("reuse", a, r).req = q /\ D("reuse", a, r).row = r
      BY <1>3, <2>2
    <3>. QED BY <2>2, <3>1, <3>2
  <2>. QED BY <2>3, <2>4
<1>. QED BY <1>4, <1>5

\* The post of any user: the first statements, about any pool and agent.
Posts(u) == \E p \in Pool, q \in Request, chosen \in SUBSET Agent : Post(u, p, chosen, q)

\* The steps that write the dialogues, and those that leave them alone.
LEMMA Steps ==
  [Next]_vars =>
    \/ \E u \in User : Posts(u) \/ PostCreate(u) \/ PostReuse(u) \/ PostDelete(u) \/ Poll(u)
    \/ \E a \in Agent : HeartbeatQuery(a) \/ HeartbeatSettle(a) \/ HeartbeatIssue(a)
                        \/ UploadCreate(a) \/ UploadSolve(a)
                        \/ \E r \in RowId, q \in Request : UploadStart(a, r, q)
    \/ (\E r \in RowId : LoseRequest(r)) \/ TimePasses
    \/ UNCHANGED <<queue, lastId, stored, user, view, told, beat, held, upload, asked, since>>
       /\ running' \subseteq running
<1>1. ASSUME NEW u \in User, NEW p \in Pool, NEW q \in Request, Post(u, p, {}, q)
      PROVE  Posts(u)
  BY <1>1 DEF Posts
<1>2. ASSUME NEW u \in User, NEW p \in Pool, NEW q \in Request, NEW a \in Agent,
             Post(u, p, {a}, q)
      PROVE  Posts(u)
  BY <1>2 DEF Posts
<1>. QED BY <1>1, <1>2 DEF Next, vars, AgentStops, agentVars

\* What the steps of users, and those of agents and the clock, leave alone.
LEMMA Untouched ==
  /\ \A u \in User :
       /\ Posts(u) => UNCHANGED <<queue, lastId, stored, beat, held, upload>>
       /\ PostCreate(u) => UNCHANGED <<stored, view, told, beat, held, upload, asked>>
       /\ PostReuse(u) => UNCHANGED <<lastId, stored, view, told, beat, held, upload, asked>>
       /\ PostDelete(u) => UNCHANGED <<queue, lastId, view, told, beat, held, upload, asked, since>>
       /\ Poll(u) => UNCHANGED <<queue, lastId, stored, user, beat, held, upload, asked, since>>
  /\ \A a \in Agent :
       /\ HeartbeatQuery(a) \/ (\E r \in RowId, q \in Request : UploadStart(a, r, q)) =>
            UNCHANGED <<queue, lastId, stored, user, view, told, asked, since>>
       /\ HeartbeatSettle(a) \/ HeartbeatIssue(a) \/ UploadSolve(a) =>
            UNCHANGED <<lastId, stored, user, view, told, asked, since>>
       /\ UploadCreate(a) => UNCHANGED <<queue, lastId, user, view, told, beat, held, asked, since>>
  /\ (\E r \in RowId : LoseRequest(r)) =>
       UNCHANGED <<queue, lastId, stored, user, view, told, beat, upload, asked, since>>
  /\ TimePasses => UNCHANGED <<lastId, stored, user, view, told, beat, held, upload, asked, since>>
<1>1. ASSUME NEW u \in User
      PROVE  /\ Posts(u) => UNCHANGED <<queue, lastId, stored, beat, held, upload>>
             /\ PostCreate(u) => UNCHANGED <<stored, view, told, beat, held, upload, asked>>
             /\ PostReuse(u) => UNCHANGED <<lastId, stored, view, told, beat, held, upload, asked>>
             /\ PostDelete(u) => UNCHANGED <<queue, lastId, view, told, beat, held, upload, asked, since>>
             /\ Poll(u) => UNCHANGED <<queue, lastId, stored, user, beat, held, upload, asked, since>>
  BY DEF Posts, Post, PostCreate, PostReuse, PostDelete, Poll, agentVars
<1>2. ASSUME NEW a \in Agent
      PROVE  /\ HeartbeatQuery(a) => UNCHANGED <<queue, lastId, stored, user, view, told, asked, since>>
             /\ (\E r \in RowId, q \in Request : UploadStart(a, r, q)) =>
                  UNCHANGED <<queue, lastId, stored, user, view, told, asked, since>>
             /\ HeartbeatSettle(a) => UNCHANGED <<lastId, stored, user, view, told, asked, since>>
             /\ HeartbeatIssue(a) => UNCHANGED <<lastId, stored, user, view, told, asked, since>>
             /\ UploadSolve(a) => UNCHANGED <<lastId, stored, user, view, told, asked, since>>
             /\ UploadCreate(a) =>
                  UNCHANGED <<queue, lastId, user, view, told, beat, held, asked, since>>
  BY DEF HeartbeatQuery, HeartbeatSettle, HeartbeatIssue, UploadCreate, UploadSolve, UploadStart
<1>. QED BY <1>1, <1>2 DEF LoseRequest, TimePasses, agentVars

--------------------------------------------------------------------------------
(* What one step may change.                                                  *)

\* Rows keep their pool; a request is written to a row by PostReuse, and with the row that
\* PostCreate inserts.  The room found by the lookup is still there for the insert.
LEMMA QueueStep ==
  ASSUME TypeOK, RoomForCreators, UploadsKnown, DialoguesKnown, [Next]_vars
  PROVE  /\ lastId' \in 0..MaxRows /\ queue' \in [Rows' -> Row]
         /\ \/ lastId' = lastId
            \/ \E u \in User : /\ PostCreate(u) /\ lastId' = lastId + 1
                               /\ queue'[lastId + 1].pool = user[u].pool
                               /\ queue'[lastId + 1].req = user[u].req
         /\ \A r \in Rows : /\ queue'[r].pool = queue[r].pool
                            /\ \/ queue'[r].req = queue[r].req
                               \/ \E u \in User : /\ PostReuse(u) /\ user[u].row = r
                                                  /\ queue'[r].req = user[u].req
<1>. USE RequestAssumption DEF Rows
<1>1. CASE UNCHANGED <<queue, lastId>> BY <1>1 DEF TypeOK
<1>2. ASSUME NEW u \in User, PostCreate(u)
      PROVE  /\ lastId' = lastId + 1 /\ lastId' \in 0..MaxRows /\ queue' \in [Rows' -> Row]
             /\ queue'[lastId + 1].pool = user[u].pool
             /\ queue'[lastId + 1].req = user[u].req
             /\ \A r \in Rows : queue'[r] = queue[r]
  <2>. DEFINE new == [pool |-> user[u].pool, agent |-> user[u].agent, req |-> user[u].req,
                      state |-> "WAITING", old |-> FALSE]
  <2>1. u \in Creators /\ IsFiniteSet(Creators)
    BY <1>2, FS_Subset DEF PostCreate, Creators
  <2>2. Cardinality(Creators) \in Nat /\ Cardinality(Creators) # 0
    BY <2>1, FS_EmptySet, FS_CardinalityType
  <2>3. lastId + 1 \in 0..MaxRows BY <2>2 DEF RoomForCreators, TypeOK
  <2>4. user[u].req \in Request
    <3>1. user[u].req \in asked[user[u].pool] BY <1>2 DEF DialoguesKnown, PostCreate
    <3>2. user[u].pool \in Pool BY DEF TypeOK
    <3>. QED BY <3>1, <3>2 DEF TypeOK
  <2>5. new \in Row BY <2>4 DEF Row, TypeOK
  <2>6. queue \in Seq(Row) /\ Len(queue) = lastId BY DEF TypeOK
  <2>7. /\ queue' = Append(queue, new) /\ lastId' = lastId + 1 BY <1>2 DEF PostCreate
  <2>. HIDE DEF new
  <2>8. /\ queue' \in Seq(Row) /\ Len(queue') = lastId + 1 /\ queue'[lastId + 1] = new
        /\ \A r \in 1..lastId : queue'[r] = queue[r]
    BY <2>5, <2>6, <2>7
  <2>9. queue' \in [1..lastId' -> Row] BY <2>7, <2>8, LenProperties
  <2>10. new.pool = user[u].pool /\ new.req = user[u].req BY DEF new
  <2>. QED BY <2>3, <2>7, <2>8, <2>9, <2>10
<1>3. ASSUME NEW u \in User, PostReuse(u)
      PROVE  /\ queue' \in [Rows' -> Row] /\ lastId' = lastId
             /\ \A r \in Rows : /\ queue'[r].pool = queue[r].pool
                                /\ \/ queue'[r].req = queue[r].req
                                   \/ user[u].row = r /\ queue'[r].req = user[u].req
  <2>1. user[u].req \in Request
    <3>1. user[u].req \in asked[user[u].pool] BY <1>3 DEF DialoguesKnown, PostReuse
    <3>2. user[u].pool \in Pool BY DEF TypeOK
    <3>. QED BY <3>1, <3>2 DEF TypeOK
  <2>2. user[u].row \in Rows BY <1>3 DEF PostReuse, TypeOK
  <2>3. queue' = [queue EXCEPT ![user[u].row] =
                    [@ EXCEPT !.req = user[u].req, !.state = "WAITING"]]
    BY <1>3, <2>2 DEF PostReuse, TypeOK
  <2>4. \A t \in Row : /\ [t EXCEPT !.req = user[u].req, !.state = "WAITING"] \in Row
                       /\ [t EXCEPT !.req = user[u].req, !.state = "WAITING"].pool = t.pool
                       /\ [t EXCEPT !.req = user[u].req, !.state = "WAITING"].req = user[u].req
    BY <2>1 DEF Row
  <2>5. queue \in [Rows -> Row] /\ lastId' = lastId BY <1>3 DEF PostReuse, TypeOK
  <2>. HIDE DEF Rows
  <2>6. queue' \in [Rows -> Row] BY <2>2, <2>3, <2>4, <2>5
  <2>7. \A r \in Rows : queue'[r] = IF r = user[u].row
                           THEN [queue[r] EXCEPT !.req = user[u].req, !.state = "WAITING"]
                           ELSE queue[r]
    BY <2>3, <2>5
  <2>8. \A r \in Rows : queue[r] \in Row BY <2>5
  <2>9. \A r \in Rows : /\ queue'[r].pool = queue[r].pool
                       /\ \/ queue'[r].req = queue[r].req
                          \/ user[u].row = r /\ queue'[r].req = user[u].req
    <3>. SUFFICES ASSUME NEW r \in Rows
                  PROVE  /\ queue'[r].pool = queue[r].pool
                         /\ \/ queue'[r].req = queue[r].req
                            \/ user[u].row = r /\ queue'[r].req = user[u].req
      OBVIOUS
    <3>1. CASE r # user[u].row BY <2>7, <3>1
    <3>2. CASE r = user[u].row
      <4>1. queue'[r] = [queue[r] EXCEPT !.req = user[u].req, !.state = "WAITING"]
        BY <2>7, <3>2
      <4>2. queue[r] \in Row BY <2>8
      <4>3. queue'[r].pool = queue[r].pool /\ queue'[r].req = user[u].req
        BY <2>1, <4>1, <4>2 DEF Row
      <4>. QED BY <3>2, <4>3
    <3>. QED BY <3>1, <3>2
  <2>. QED BY <2>5, <2>6, <2>9 DEF Rows
<1>4. ASSUME NEW S, NEW from, NEW to \in {"SOLVING", "SOLVED"}, queue' = Moved(S, from, to),
             UNCHANGED lastId
      PROVE  /\ queue' \in [Rows' -> Row]
             /\ \A r \in Rows : queue'[r].pool = queue[r].pool /\ queue'[r].req = queue[r].req
  <2>1. \A t \in Row : /\ [t EXCEPT !.state = to] \in Row
                       /\ [t EXCEPT !.state = to].pool = t.pool
                       /\ [t EXCEPT !.state = to].req = t.req
    BY DEF Row
  <2>. QED BY <1>4, <2>1 DEF Moved, TypeOK
<1>5. ASSUME NEW a \in Agent, UploadSolve(a)
      PROVE  /\ queue' \in [Rows' -> Row]
             /\ \A r \in Rows : queue'[r].pool = queue[r].pool /\ queue'[r].req = queue[r].req
  <2>1. upload[a].row \in Rows BY <1>5 DEF UploadSolve, UploadsKnown
  <2>2. \A t \in Row : /\ [t EXCEPT !.state = "SOLVED"] \in Row
                       /\ [t EXCEPT !.state = "SOLVED"].pool = t.pool
                       /\ [t EXCEPT !.state = "SOLVED"].req = t.req
    BY DEF Row
  <2>. QED BY <1>5, <2>1, <2>2 DEF UploadSolve, TypeOK
<1>6. ASSUME TimePasses
      PROVE  /\ queue' \in [Rows' -> Row]
             /\ \A r \in Rows : queue'[r].pool = queue[r].pool /\ queue'[r].req = queue[r].req
  <2>1. \A t \in Row : /\ [t EXCEPT !.old = TRUE] \in Row
                       /\ [t EXCEPT !.old = TRUE].pool = t.pool
                       /\ [t EXCEPT !.old = TRUE].req = t.req
    BY DEF Row
  <2>. QED BY <1>6, <2>1 DEF TimePasses, TypeOK
<1>7. \/ UNCHANGED <<queue, lastId>>
      \/ \E u \in User : PostCreate(u) \/ PostReuse(u)
      \/ UNCHANGED lastId /\ \/ \E a \in Agent : UploadSolve(a)
                             \/ TimePasses
                             \/ \E S : \/ queue' = Moved(S, "SOLVING", "SOLVED")
                                       \/ queue' = Moved(S, "WAITING", "SOLVING")
  <2>1. ASSUME NEW a \in Agent
        PROVE  /\ HeartbeatSettle(a) => queue' = Moved(Taken(a), "SOLVING", "SOLVED")
               /\ HeartbeatIssue(a) => queue' = Moved(Taken(a), "WAITING", "SOLVING")
    BY DEF HeartbeatSettle, HeartbeatIssue
  <2>. HIDE DEF Rows
  <2>. QED BY Steps, Untouched, <2>1
<1>8. CASE \E u \in User : PostCreate(u) BY <1>2, <1>8
<1>9. CASE \E u \in User : PostReuse(u) BY <1>3, <1>9 DEF TypeOK
<1>10. CASE UNCHANGED lastId /\ \E a \in Agent : UploadSolve(a) BY <1>5, <1>10 DEF TypeOK
<1>11. CASE UNCHANGED lastId /\ TimePasses BY <1>6, <1>11 DEF TypeOK
<1>12. CASE UNCHANGED lastId /\ \E S : \/ queue' = Moved(S, "SOLVING", "SOLVED")
                                      \/ queue' = Moved(S, "WAITING", "SOLVING")
  BY <1>4, <1>12 DEF TypeOK
<1>. QED BY <1>1, <1>7, <1>8, <1>9, <1>10, <1>11, <1>12

HoldersTyped ==
  /\ beat \in [Agent -> [pc: {"idle", "settle", "issue"}, reqs: Holding]]
  /\ held \in [RowId -> SUBSET Request]
  /\ upload \in [Agent -> [pc: {"idle", "create", "solve"}, row: 0..MaxRows,
                           req: Request \cup {NoRequest}]]

\* Heartbeats take what is written to the rows; agents and uploads hold what heartbeats
\* took: a step gives the holders of a row at most the request written to it.
LEMMA HoldersStep ==
  ASSUME TypeOK, UploadsKnown, NewRowsEmpty, [Next]_vars
  PROVE  /\ HoldersTyped'
         /\ \A a \in Agent : upload'[a].pc # "idle" => upload'[a].row \in Rows /\ upload'[a].req \in Request
         /\ \A r \in RowId : WithAgents(r)' \subseteq
              WithAgents(r) \cup (IF r \in Rows THEN {queue[r].req} ELSE {})
<1>. USE RequestAssumption
<1>. DEFINE Known == \A a \in Agent : upload'[a].pc # "idle" =>
                       upload'[a].row \in Rows /\ upload'[a].req \in Request
            Old(r) == WithAgents(r)' \subseteq WithAgents(r)
            Fed == \A r \in RowId : WithAgents(r)' \subseteq
                     WithAgents(r) \cup (IF r \in Rows THEN {queue[r].req} ELSE {})
<1>. HoldersTyped BY DEF HoldersTyped, TypeOK
<1>0. \A r \in Rows : queue[r].req \in Request BY DEF TypeOK, Row
<1>1. ASSUME UNCHANGED <<beat, held, upload>>
      PROVE  HoldersTyped' /\ Known /\ \A r \in RowId : Old(r)
  <2>1. HoldersTyped' BY <1>1 DEF HoldersTyped
  <2>2. Known BY <1>1 DEF UploadsKnown
  <2>3. \A r \in RowId : Old(r) BY <1>1 DEF WithAgents
  <2>. QED BY <2>1, <2>2, <2>3
<1>2. ASSUME NEW a \in Agent, HeartbeatQuery(a)
      PROVE  HoldersTyped' /\ Known /\ Fed
  <2>. DEFINE R == [r \in RowId |-> IF r \in Rows /\ queue[r].state # "SOLVED"
                                      THEN queue[r].req ELSE NoRequest]
  <2>1. beat' = [beat EXCEPT ![a] = [pc |-> "settle", reqs |-> R]] /\ UNCHANGED <<held, upload>>
    BY <1>2 DEF HeartbeatQuery
  <2>2. R \in Holding BY <1>0 DEF Holding
  <2>3. \A r \in RowId : R[r] = NoRequest \/ (r \in Rows /\ R[r] = queue[r].req) OBVIOUS
  <2>. HIDE DEF R
  <2>4. HoldersTyped' BY <2>1, <2>2 DEF HoldersTyped
  <2>5. Known BY <2>1 DEF UploadsKnown
  <2>6. ASSUME NEW r \in RowId, NEW q \in WithAgents(r)', q \notin WithAgents(r)
        PROVE  r \in Rows /\ q = queue[r].req
    <3>1. q \in Request /\ q # NoRequest BY DEF WithAgents, Request, NoRequest
    <3>2. PICK b \in Agent : beat'[b].reqs[r] = q /\ beat[b].reqs[r] # q
      BY <2>1, <2>6, <3>1 DEF WithAgents
    <3>3. b = a /\ q = R[r] BY <2>1, <3>2 DEF HoldersTyped
    <3>. QED BY <2>3, <3>1, <3>3
  <2>. QED BY <2>4, <2>5, <2>6
<1>3. ASSUME NEW a \in Agent, HeartbeatSettle(a)
      PROVE  HoldersTyped' /\ Known /\ \A r \in RowId : Old(r)
  <2>1. beat' = [beat EXCEPT ![a].pc = "issue"] /\ UNCHANGED <<held, upload>>
    BY <1>3 DEF HeartbeatSettle
  <2>2. \A b \in Agent : beat'[b].reqs = beat[b].reqs BY <2>1 DEF HoldersTyped
  <2>3. HoldersTyped' BY <2>1 DEF HoldersTyped
  <2>. QED BY <2>1, <2>2, <2>3 DEF UploadsKnown, WithAgents
<1>4. ASSUME NEW a \in Agent, HeartbeatIssue(a)
      PROVE  HoldersTyped' /\ Known /\ \A r \in RowId : Old(r)
  <2>1. beat' = [beat EXCEPT ![a] = Quiet] /\ UNCHANGED upload BY <1>4 DEF HeartbeatIssue
  <2>2. Quiet \in [pc: {"idle", "settle", "issue"}, reqs: Holding]
    BY DEF Quiet, Holding
  <2>3. \A r \in RowId : beat[a].reqs[r] \in Request \cup {NoRequest}
    BY DEF HoldersTyped, Holding
  <2>4. /\ held' \in [RowId -> SUBSET Request]
        /\ \A r \in RowId : held'[r] \subseteq held[r] \cup ({beat[a].reqs[r]} \ {NoRequest})
    <3>1. CASE UNCHANGED held BY <3>1 DEF HoldersTyped
    <3>2. CASE held' = [r \in RowId |-> held[r] \cup ({beat[a].reqs[r]} \ {NoRequest})]
      BY <2>3, <3>2 DEF HoldersTyped
    <3>. QED BY <1>4, <3>1, <3>2 DEF HeartbeatIssue
  <2>5. \A b \in Agent, r \in RowId : beat'[b].reqs[r] = beat[b].reqs[r] \/ beat'[b].reqs[r] = NoRequest
    BY <2>1 DEF HoldersTyped, Quiet
  <2>6. HoldersTyped' BY <2>1, <2>2, <2>4 DEF HoldersTyped
  <2>7. NoRequest \notin Request BY DEF NoRequest, Request
  <2>8. Known BY <2>1 DEF UploadsKnown
  <2>9. \A r \in RowId : Old(r) BY <2>1, <2>4, <2>5, <2>7 DEF WithAgents
  <2>. QED BY <2>6, <2>8, <2>9
<1>5. ASSUME NEW a \in Agent, NEW r \in RowId, NEW q \in Request, UploadStart(a, r, q)
      PROVE  HoldersTyped' /\ Known /\ \A x \in RowId : Old(x)
  <2>1. q \in held[r] /\ held' \in [RowId -> SUBSET Request] /\ UNCHANGED beat
        /\ \A x \in RowId : held'[x] \subseteq held[x]
    BY <1>5 DEF UploadStart, HoldersTyped
  <2>2. PICK pc \in {"create", "solve"} :
          upload' = [upload EXCEPT ![a] = [pc |-> pc, row |-> r, req |-> q]]
    BY <1>5 DEF UploadStart
  <2>3. r \in Rows
    <3>1. q \in WithAgents(r) BY <2>1 DEF WithAgents
    <3>. QED BY <3>1 DEF NewRowsEmpty
  <2>4. r \in 0..MaxRows BY DEF RowId
  <2>5. HoldersTyped' BY <2>1, <2>2, <2>4 DEF HoldersTyped
  <2>6. \A b \in Agent : upload'[b] = upload[b] \/ (upload'[b].row = r /\ upload'[b].req = q)
    BY <2>2 DEF HoldersTyped
  <2>7. Known BY <2>3, <2>6 DEF UploadsKnown
  <2>8. \A x \in RowId : Old(x) BY <2>1, <2>6 DEF WithAgents
  <2>. QED BY <2>5, <2>7, <2>8
<1>6. ASSUME NEW a \in Agent, UploadCreate(a) \/ UploadSolve(a)
      PROVE  HoldersTyped' /\ Known /\ \A r \in RowId : Old(r)
  <2>1. UNCHANGED <<beat, held>> BY <1>6 DEF UploadCreate, UploadSolve
  <2>2. Free \in [pc: {"idle", "create", "solve"}, row: 0..MaxRows, req: Request \cup {NoRequest}]
    BY DEF Free
  <2>3. upload' = [upload EXCEPT ![a] = Free] \/ upload' = [upload EXCEPT ![a].pc = "solve"]
    BY <1>6 DEF UploadCreate, UploadSolve
  <2>4. HoldersTyped'
    <3>1. CASE upload' = [upload EXCEPT ![a] = Free] BY <2>1, <2>2, <3>1 DEF HoldersTyped
    <3>2. CASE upload' = [upload EXCEPT ![a].pc = "solve"]
      <4>0. upload[a] \in
              [pc: {"idle", "create", "solve"}, row: 0..MaxRows, req: Request \cup {NoRequest}]
        BY DEF HoldersTyped
      <4>1. [upload[a] EXCEPT !.pc = "solve"] \in
              [pc: {"idle", "create", "solve"}, row: 0..MaxRows, req: Request \cup {NoRequest}]
        BY <4>0
      <4>2. upload' = [upload EXCEPT ![a] = [upload[a] EXCEPT !.pc = "solve"]]
        BY <3>2 DEF HoldersTyped
      <4>. QED BY <2>1, <4>1, <4>2 DEF HoldersTyped
    <3>. QED BY <2>3, <3>1, <3>2
  <2>5. upload[a].row \in Rows /\ upload[a].req \in Request
    BY <1>6 DEF UploadCreate, UploadSolve, UploadsKnown
  <2>6. \A b \in Agent : \/ upload'[b].row = upload[b].row /\ upload'[b].req = upload[b].req
                         \/ upload'[b].row = 0 /\ upload'[b].pc = "idle"
    BY <2>3 DEF HoldersTyped, Free
  <2>7. \A b \in Agent : upload'[b].pc # "idle" => upload[b].pc # "idle"
    BY <1>6, <2>3 DEF HoldersTyped, Free, UploadCreate, UploadSolve
  <2>8. Known BY <2>6, <2>7 DEF UploadsKnown
  <2>9. \A r \in RowId : Old(r) BY <2>1, <2>6 DEF WithAgents, RowId
  <2>. QED BY <2>4, <2>8, <2>9
<1>7. ASSUME NEW r \in RowId, LoseRequest(r)
      PROVE  HoldersTyped' /\ Known /\ \A x \in RowId : Old(x)
  <2>1. UNCHANGED <<beat, upload>> /\ held' \in [RowId -> SUBSET Request]
        /\ \A x \in RowId : held'[x] \subseteq held[x]
    BY <1>7 DEF LoseRequest, HoldersTyped
  <2>. QED BY <2>1 DEF HoldersTyped, UploadsKnown, WithAgents
<1>8. \/ UNCHANGED <<beat, held, upload>>
      \/ \E a \in Agent : HeartbeatQuery(a) \/ HeartbeatSettle(a) \/ HeartbeatIssue(a)
                          \/ UploadCreate(a) \/ UploadSolve(a)
                          \/ \E r \in RowId, q \in Request : UploadStart(a, r, q)
      \/ \E r \in RowId : LoseRequest(r)
  BY Steps, Untouched
<1>9. (\A r \in RowId : Old(r)) => Fed OBVIOUS
<1>10. HoldersTyped' /\ Known /\ Fed
  <2>. HIDE DEF Known, Old, Fed
  <2>1. CASE \E a \in Agent : HeartbeatQuery(a) BY <1>2, <2>1
  <2>2. CASE \E a \in Agent : HeartbeatSettle(a) \/ HeartbeatIssue(a) BY <1>3, <1>4, <1>9, <2>2
  <2>3. CASE \E a \in Agent, r \in RowId, q \in Request : UploadStart(a, r, q)
    BY <1>5, <1>9, <2>3
  <2>4. CASE \E a \in Agent : UploadCreate(a) \/ UploadSolve(a) BY <1>6, <1>9, <2>4
  <2>5. CASE \E r \in RowId : LoseRequest(r) BY <1>7, <1>9, <2>5
  <2>6. CASE UNCHANGED <<beat, held, upload>> BY <1>1, <1>9, <2>6
  <2>. QED BY <1>8, <2>1, <2>2, <2>3, <2>4, <2>5, <2>6
<1>. QED BY <1>10

\* An answer that is stored for a row was with an upload; PostDelete drops what is stored.
LEMMA StoredStep ==
  ASSUME TypeOK, UploadsKnown, [Next]_vars
  PROVE  /\ stored' \in [RowId -> SUBSET Request]
         /\ \/ UNCHANGED stored
            \/ \E u \in User : PostDelete(u) /\ user[u].row \in Rows /\ user[u].row \in RowId
                               /\ stored' = [stored EXCEPT ![user[u].row] = {}]
            \/ \E a \in Agent : /\ UploadCreate(a) /\ upload[a].row \in Rows \cap RowId
                                /\ upload[a].req \in WithAgents(upload[a].row)
                                /\ stored' = [stored EXCEPT ![upload[a].row] = @ \cup {upload[a].req}]
<1>. USE RequestAssumption
<1>0. Rows \subseteq RowId BY DEF TypeOK, Rows, RowId
<1>1. CASE UNCHANGED stored BY <1>1 DEF TypeOK
<1>2. ASSUME NEW u \in User, PostDelete(u)
      PROVE  /\ user[u].row \in Rows /\ stored' = [stored EXCEPT ![user[u].row] = {}]
             /\ stored' \in [RowId -> SUBSET Request]
  BY <1>2 DEF PostDelete, TypeOK
<1>3. ASSUME NEW a \in Agent, UploadCreate(a)
      PROVE  /\ upload[a].row \in Rows /\ upload[a].req \in WithAgents(upload[a].row)
             /\ stored' = [stored EXCEPT ![upload[a].row] = @ \cup {upload[a].req}]
             /\ stored' \in [RowId -> SUBSET Request]
  <2>1. upload[a].row \in Rows /\ upload[a].req \in Request
    BY <1>3 DEF UploadCreate, UploadsKnown
  <2>2. upload[a].req \in WithAgents(upload[a].row) BY <2>1 DEF WithAgents
  <2>3. stored' = [stored EXCEPT ![upload[a].row] = @ \cup {upload[a].req}]
    BY <1>3 DEF UploadCreate
  <2>4. \A r \in Rows : stored[r] \cup {upload[a].req} \in SUBSET Request
    BY <1>0, <2>1 DEF TypeOK
  <2>. QED BY <1>0, <2>1, <2>2, <2>3, <2>4 DEF TypeOK
<1>4. \/ UNCHANGED stored \/ (\E u \in User : PostDelete(u)) \/ \E a \in Agent : UploadCreate(a)
  BY Steps, Untouched
<1>. QED BY <1>0, <1>1, <1>2, <1>3, <1>4

\* What was asked of a pool stays asked.
LEMMA AskedStep ==
  ASSUME TypeOK, [Next]_vars
  PROVE  /\ asked' \in [Pool -> SUBSET Request]
         /\ \A p \in Pool : asked[p] \subseteq asked'[p]
<1>1. CASE UNCHANGED asked BY <1>1 DEF TypeOK
<1>2. ASSUME NEW u, NEW p \in Pool, NEW q \in Request, NEW c, Post(u, p, c, q)
      PROVE  /\ asked' \in [Pool -> SUBSET Request]
             /\ \A x \in Pool : asked[x] \subseteq asked'[x]
  <2>1. asked' = [asked EXCEPT ![p] = @ \cup {q}] BY <1>2 DEF Post
  <2>. QED BY <2>1 DEF TypeOK
<1>3. UNCHANGED asked \/ \E u \in User : Posts(u)
  BY Steps, Untouched
<1>. QED BY <1>1, <1>2, <1>3 DEF Posts

\* A dialogue moves in its own steps.
LEMMA DialogueMoves ==
  ASSUME TypeOK, RoomForCreators, UploadsKnown, DialoguesKnown, [Next]_vars
  PROVE  \/ UNCHANGED <<user, lastId>>
         \/ \E u \in User :
              \/ /\ Posts(u) /\ UNCHANGED <<lastId, queue>> /\ user[u].pc \in {"idle", "poll"}
                 /\ \E t \in UserType :
                      /\ user' = [user EXCEPT ![u] = t]
                      /\ \/ /\ t.pc = "create" /\ t.req \in asked'[t.pool]
                            /\ lastId + Cardinality(Creators) < MaxRows
                         \/ /\ t.pc \in {"reuse", "poll"} /\ t.row \in Rows
                            /\ queue[t.row].pool = t.pool
                            /\ t.pc = "reuse" => t.req \in asked'[t.pool]
              \/ /\ PostCreate(u) /\ lastId' = lastId + 1 /\ user[u].pc = "create"
                 /\ user' = [user EXCEPT ![u] = Polling(user[u].pool, lastId + 1)]
              \/ /\ PostReuse(u) /\ UNCHANGED lastId /\ user[u].pc = "reuse"
                 /\ user' = [user EXCEPT ![u].pc = "delete"]
              \/ /\ PostDelete(u) /\ UNCHANGED lastId /\ user[u].pc = "delete"
                 /\ user' = [user EXCEPT ![u] = Polling(user[u].pool, user[u].row)]
<1>1. ASSUME NEW u \in User, Posts(u)
      PROVE  /\ UNCHANGED <<lastId, queue>> /\ user[u].pc \in {"idle", "poll"}
             /\ \E t \in UserType :
                  /\ user' = [user EXCEPT ![u] = t]
                  /\ \/ /\ t.pc = "create" /\ t.req \in asked'[t.pool]
                        /\ lastId + Cardinality(Creators) < MaxRows
                     \/ /\ t.pc \in {"reuse", "poll"} /\ t.row \in Rows
                        /\ queue[t.row].pool = t.pool
                        /\ t.pc = "reuse" => t.req \in asked'[t.pool]
  <2>1. PICK p \in Pool, q \in Request, c \in SUBSET Agent : Post(u, p, c, q)
    BY <1>1 DEF Posts
  <2>2. q \in asked'[p] BY <2>1 DEF Post, TypeOK
  <2>3. PICK t \in UserType :
          /\ user' = [user EXCEPT ![u] = t] /\ t.pool = p
          /\ \/ t.pc = "create" /\ t.req = q /\ lastId + Cardinality(Creators) < MaxRows
             \/ /\ t.pc \in {"reuse", "poll"} /\ t.row \in Rows /\ queue[t.row].pool = p
                /\ t.pc = "reuse" => t.req = q
    BY <2>1, Posted
  <2>4. UNCHANGED <<lastId, queue>> /\ user[u].pc \in {"idle", "poll"} BY <2>1 DEF Post
  <2>. QED BY <2>2, <2>3, <2>4
<1>2. \/ UNCHANGED <<user, lastId>>
      \/ \E u \in User : Posts(u) \/ PostCreate(u) \/ PostReuse(u) \/ PostDelete(u)
  BY Steps, Untouched
<1>. QED BY <1>1, <1>2 DEF PostCreate, PostReuse, PostDelete

\* The dialogues keep their types, their rows are rows of the pool they are about, and the
\* rows they are about to insert still fit.
LEMMA DialogueStep ==
  ASSUME TypeOK, RoomForCreators, UploadsKnown, DialoguesKnown, [Next]_vars
  PROVE  /\ user' \in [User -> UserType] /\ RoomForCreators' /\ DialoguesKnown'
         /\ \A u \in User : user'[u].pc \in {"reuse", "delete", "poll"} => user'[u].row \in Rows'
<1>. USE RequestAssumption
<1>. DEFINE Good(w) ==
       /\ user'[w].pc \in {"create", "reuse"} => user'[w].req \in asked'[user'[w].pool]
       /\ user'[w].pc \in {"reuse", "delete", "poll"} =>
            user'[w].row \in Rows' /\ queue'[user'[w].row].pool = user'[w].pool
<1>0. /\ user \in [User -> UserType] /\ lastId \in 0..MaxRows /\ lastId' \in 0..MaxRows
      /\ Rows \subseteq Rows' /\ Rows \subseteq 0..MaxRows
      /\ \A r \in Rows : queue'[r].pool = queue[r].pool
  BY QueueStep DEF TypeOK, UserType, Rows
<1>1. ASSUME NEW w \in User, user'[w] = user[w] PROVE Good(w)
  <2>1. user[w].pool \in Pool BY DEF TypeOK
  <2>2. user[w].pc \in {"reuse", "delete", "poll"} => user[w].row \in Rows BY DEF TypeOK
  <2>. QED BY <1>0, <1>1, <2>1, <2>2, AskedStep DEF DialoguesKnown
<1>2. IsFiniteSet(Creators) /\ Cardinality(Creators) \in Nat
  BY FS_Subset, FS_CardinalityType DEF Creators
<1>3. CASE UNCHANGED <<user, lastId>>
  <2>1. Creators' = Creators BY <1>3 DEF Creators
  <2>2. RoomForCreators' BY <1>3, <2>1 DEF RoomForCreators
  <2>. QED BY <1>0, <1>1, <1>3, <2>2 DEF DialoguesKnown
<1>4. ASSUME NEW u \in User, NEW t \in UserType, user' = [user EXCEPT ![u] = t],
             t.pc # "create" => lastId' + Cardinality(Creators \ {u}) <= MaxRows,
             t.pc = "create" => /\ t.req \in asked'[t.pool] /\ lastId' = lastId
                                /\ lastId + Cardinality(Creators) < MaxRows,
             t.pc = "reuse" => t.req \in asked'[t.pool],
             t.pc \in {"reuse", "delete", "poll"} => t.row \in Rows' /\ queue'[t.row].pool = t.pool
      PROVE  /\ user' \in [User -> UserType] /\ RoomForCreators' /\ \A w \in User : Good(w)
  <2>1. user'[u] = t /\ \A w \in User : w # u => user'[w] = user[w] BY <1>0, <1>4
  <2>2. user' \in [User -> UserType] BY <1>0, <1>4
  <2>3. Good(u) BY <1>4, <2>1
  <2>4. \A w \in User : Good(w) BY <1>1, <2>1, <2>3
  <2>5. CASE t.pc = "create"
    <3>1. Creators' = Creators \cup {u} BY <2>1, <2>5 DEF Creators
    <3>2. Cardinality(Creators \cup {u}) =
            IF u \in Creators THEN Cardinality(Creators) ELSE Cardinality(Creators) + 1
      BY <1>2, FS_AddElement, Zenon
    <3>3. Cardinality(Creators \cup {u}) \in Nat BY <1>2, <3>2
    <3>. QED BY <1>0, <1>2, <1>4, <2>2, <2>4, <2>5, <3>1, <3>2, <3>3 DEF RoomForCreators
  <2>6. CASE t.pc # "create"
    <3>1. Creators' = Creators \ {u} BY <2>1, <2>6 DEF Creators
    <3>. QED BY <1>4, <2>2, <2>4, <2>6, <3>1 DEF RoomForCreators
  <2>. QED BY <2>5, <2>6
<1>. HIDE DEF Good
<1>5. ASSUME NEW u \in User
      PROVE  /\ user[u].pc # "create" => Creators \ {u} = Creators
             /\ user[u].pc = "create" =>
                  Cardinality(Creators \ {u}) = Cardinality(Creators) - 1
  BY <1>2, FS_RemoveElement DEF Creators
<1>6. ASSUME NEW u \in User, NEW t \in UserType, user' = [user EXCEPT ![u] = t],
             UNCHANGED <<lastId, queue>>, user[u].pc \in {"idle", "poll"},
             \/ t.pc = "create" /\ t.req \in asked'[t.pool] /\ lastId + Cardinality(Creators) < MaxRows
             \/ /\ t.pc \in {"reuse", "poll"} /\ t.row \in Rows /\ queue[t.row].pool = t.pool
                /\ t.pc = "reuse" => t.req \in asked'[t.pool]
      PROVE  /\ user' \in [User -> UserType] /\ RoomForCreators' /\ \A w \in User : Good(w)
  <2>1. lastId' + Cardinality(Creators \ {u}) <= MaxRows BY <1>5, <1>6 DEF RoomForCreators
  <2>2. Rows' = Rows BY <1>6 DEF Rows
  <2>. QED BY <1>4, <1>6, <2>1, <2>2
<1>7. ASSUME NEW u \in User, PostCreate(u), lastId' = lastId + 1, user[u].pc = "create",
             user' = [user EXCEPT ![u] = Polling(user[u].pool, lastId + 1)]
      PROVE  /\ user' \in [User -> UserType] /\ RoomForCreators' /\ \A w \in User : Good(w)
  <2>1. user[u].pool \in Pool BY DEF TypeOK
  <2>2. queue'[lastId + 1].pool = user[u].pool
    <3>1. lastId' # lastId BY <1>0, <1>7
    <3>2. PICK x \in User : PostCreate(x) /\ queue'[lastId + 1].pool = user[x].pool
      BY <3>1, QueueStep
    <3>3. queue' = Append(queue, [pool |-> user[u].pool, agent |-> user[u].agent,
                        req |-> user[u].req, state |-> "WAITING", old |-> FALSE])
      BY <1>7 DEF PostCreate
    <3>4. queue \in Seq(Row) /\ Len(queue) = lastId BY DEF TypeOK, Rows
    <3>. QED BY <3>3, <3>4
  <2>3. lastId' \in Rows' BY <1>0, <1>7 DEF Rows
  <2>4. lastId' + Cardinality(Creators \ {u}) <= MaxRows
    BY <1>0, <1>2, <1>5, <1>7 DEF RoomForCreators
  <2>. DEFINE t == Polling(user[u].pool, lastId + 1)
  <2>5. t \in UserType /\ t.pc = "poll" /\ t.pool = user[u].pool /\ t.row = lastId + 1
    BY <1>0, <1>7, <2>1, PollingTyped
  <2>6. user' = [user EXCEPT ![u] = t] BY <1>7
  <2>. HIDE DEF t
  <2>. QED BY <1>4, <1>7, <2>2, <2>3, <2>4, <2>5, <2>6
<1>8. ASSUME NEW u \in User, PostReuse(u), UNCHANGED lastId, user[u].pc = "reuse",
             user' = [user EXCEPT ![u].pc = "delete"]
      PROVE  /\ user' \in [User -> UserType] /\ RoomForCreators' /\ \A w \in User : Good(w)
  <2>. DEFINE t == [user[u] EXCEPT !.pc = "delete"]
  <2>1. user[u].row \in Rows /\ queue[user[u].row].pool = user[u].pool
    BY <1>8 DEF DialoguesKnown, TypeOK
  <2>2. /\ t \in UserType /\ t.pc = "delete" /\ t.row = user[u].row /\ t.pool = user[u].pool
        /\ user' = [user EXCEPT ![u] = t]
    BY <1>0, <1>8 DEF UserType
  <2>3. lastId' + Cardinality(Creators \ {u}) <= MaxRows BY <1>5, <1>8 DEF RoomForCreators
  <2>. HIDE DEF t
  <2>4. t.row \in Rows' /\ queue'[t.row].pool = t.pool BY <1>0, <2>1, <2>2
  <2>. QED BY <1>4, <2>2, <2>3, <2>4
<1>9. ASSUME NEW u \in User, PostDelete(u), UNCHANGED lastId, user[u].pc = "delete",
             user' = [user EXCEPT ![u] = Polling(user[u].pool, user[u].row)]
      PROVE  /\ user' \in [User -> UserType] /\ RoomForCreators' /\ \A w \in User : Good(w)
  <2>1. /\ user[u].row \in Rows /\ queue[user[u].row].pool = user[u].pool
        /\ user[u].pool \in Pool /\ user[u].row \in 0..MaxRows
    BY <1>9 DEF DialoguesKnown, TypeOK
  <2>. DEFINE t == Polling(user[u].pool, user[u].row)
  <2>2. /\ t \in UserType /\ t.pc = "poll" /\ t.row = user[u].row /\ t.pool = user[u].pool
        /\ user' = [user EXCEPT ![u] = t]
    BY <1>9, <2>1, PollingTyped
  <2>3. lastId' + Cardinality(Creators \ {u}) <= MaxRows BY <1>5, <1>9 DEF RoomForCreators
  <2>. HIDE DEF t
  <2>4. t.row \in Rows' /\ queue'[t.row].pool = t.pool BY <1>0, <2>1, <2>2
  <2>. QED BY <1>4, <2>2, <2>3, <2>4
<1>10. user' \in [User -> UserType] /\ RoomForCreators' /\ \A w \in User : Good(w)
  BY <1>0, <1>1, <1>3, <1>6, <1>7, <1>8, <1>9, DialogueMoves
<1>. QED BY <1>10 DEF DialoguesKnown, Good

\* Nothing is under way or stored for a row before it is there, and what is under way
\* afterwards was asked of the pool of the row.
LEMMA RowsAskedStep ==
  ASSUME TypeOK, RoomForCreators, UploadsKnown, NewRowsEmpty, RowsAsked, DialoguesKnown,
         [Next]_vars
  PROVE  NewRowsEmpty' /\ RowsAsked'
<1>. USE RequestAssumption
<1>1. lastId \in 0..MaxRows /\ lastId' \in 0..MaxRows /\ (lastId' = lastId \/ lastId' = lastId + 1)
  BY QueueStep DEF TypeOK
<1>2. Rows \subseteq Rows' /\ Rows' \subseteq RowId /\ Rows' \subseteq Rows \cup {lastId + 1}
      /\ lastId + 1 \notin Rows
  BY <1>1 DEF Rows, RowId
<1>3. ASSUME NEW r \in RowId \ Rows PROVE WithAgents(r)' = {} /\ stored'[r] = {}
  <2>1. WithAgents(r) = {} /\ stored[r] = {} BY DEF NewRowsEmpty
  <2>2. WithAgents(r)' \subseteq WithAgents(r) BY HoldersStep
  <2>3. stored'[r] = stored[r] BY StoredStep DEF TypeOK
  <2>. QED BY <2>1, <2>2, <2>3
<1>4. NewRowsEmpty' BY <1>2, <1>3 DEF NewRowsEmpty
<1>5. ASSUME NEW r \in Rows
      PROVE  queue'[r].req \in asked'[queue'[r].pool] /\ WithAgents(r)' \subseteq asked'[queue'[r].pool]
  <2>1. queue[r] \in Row /\ queue[r].pool \in Pool BY DEF TypeOK, Row
  <2>2. queue'[r].pool = queue[r].pool BY QueueStep
  <2>3. asked[queue[r].pool] \subseteq asked'[queue[r].pool] BY <2>1, AskedStep
  <2>4. queue'[r].req \in asked[queue[r].pool]
    <3>1. CASE queue'[r].req = queue[r].req BY <3>1 DEF RowsAsked
    <3>2. ASSUME NEW u \in User, PostReuse(u), user[u].row = r, queue'[r].req = user[u].req
          PROVE  queue'[r].req \in asked[queue[r].pool]
      BY <3>2 DEF DialoguesKnown, PostReuse
    <3>. QED BY <3>1, <3>2, QueueStep
  <2>5. WithAgents(r)' \subseteq asked[queue[r].pool]
    <3>1. r \in RowId BY <1>2
    <3>. QED BY <3>1, HoldersStep DEF RowsAsked
  <2>. QED BY <2>2, <2>3, <2>4, <2>5
<1>6. ASSUME NEW r \in Rows' \ Rows
      PROVE  queue'[r].req \in asked'[queue'[r].pool] /\ WithAgents(r)' \subseteq asked'[queue'[r].pool]
  <2>1. r = lastId + 1 /\ lastId' # lastId BY <1>1, <1>2, <1>6 DEF Rows
  <2>2. PICK u \in User : /\ PostCreate(u) /\ queue'[lastId + 1].pool = user[u].pool
                          /\ queue'[lastId + 1].req = user[u].req
    BY <2>1, QueueStep
  <2>3. user[u].req \in asked[user[u].pool] BY <2>2 DEF PostCreate, DialoguesKnown
  <2>4. user[u].pool \in Pool BY DEF TypeOK
  <2>5. asked[user[u].pool] \subseteq asked'[user[u].pool] BY <2>4, AskedStep
  <2>6. WithAgents(r)' = {} BY <1>2, <1>3, <1>6
  <2>. QED BY <2>1, <2>2, <2>3, <2>5, <2>6
<1>7. RowsAsked' BY <1>2, <1>5, <1>6 DEF RowsAsked
<1>. QED BY <1>4, <1>7

\* The screens of the dialogues and the histories keep their types.
LEMMA ScreensStep ==
  ASSUME TypeOK, DialoguesKnown, [Next]_vars
  PROVE  /\ running' \in SUBSET Agent
         /\ view' \in [User -> Request \cup {NoRequest}]
         /\ told' \in [User -> {"nothing", "timeout", "processing", "failed", "answer"}]
         /\ since' \in [User -> SUBSET Request]
<1>. DEFINE Typed == /\ running' \in SUBSET Agent
                     /\ view' \in [User -> Request \cup {NoRequest}]
                     /\ told' \in [User -> {"nothing", "timeout", "processing", "failed", "answer"}]
                     /\ since' \in [User -> SUBSET Request]
<1>1. CASE running' \subseteq running /\ UNCHANGED <<view, told, since>> BY <1>1 DEF TypeOK
<1>2. ASSUME NEW u \in User, Posts(u) PROVE Typed
  <2>1. /\ view' = [view EXCEPT ![u] = NoRequest] /\ told' = [told EXCEPT ![u] = "nothing"]
        /\ since' = [since EXCEPT ![u] = Request] /\ UNCHANGED running
    BY <1>2 DEF Posts, Post
  <2>. QED BY <2>1 DEF TypeOK
<1>3. ASSUME NEW u \in User, user[u].pc \in {"create", "reuse"} PROVE user[u].req \in Request
  <2>1. user[u].req \in asked[user[u].pool] BY <1>3 DEF DialoguesKnown
  <2>2. user[u].pool \in Pool BY DEF TypeOK
  <2>. QED BY <2>1, <2>2 DEF TypeOK
<1>4. ASSUME NEW u \in User, PostCreate(u) PROVE Typed
  <2>1. user[u].req \in Request BY <1>3, <1>4 DEF PostCreate
  <2>. QED BY <1>4, <2>1 DEF PostCreate, TypeOK
<1>5. ASSUME NEW u \in User, PostReuse(u) PROVE Typed
  <2>1. user[u].req \in Request BY <1>3, <1>5 DEF PostReuse
  <2>. QED BY <1>5, <2>1 DEF PostReuse, TypeOK
<1>6. ASSUME NEW u \in User, Poll(u) PROVE Typed
  <2>1. user[u].row \in RowId BY <1>6, RequestAssumption DEF Poll, TypeOK, Rows, RowId
  <2>2. stored[user[u].row] \subseteq Request BY <2>1 DEF TypeOK
  <2>3. PICK what \in {"timeout", "processing", "failed", "answer"}, q \in Request \cup {NoRequest} :
          told' = [told EXCEPT ![u] = what] /\ view' = [view EXCEPT ![u] = q]
    BY <1>6, <2>2 DEF Poll
  <2>. QED BY <1>6, <2>3 DEF Poll, TypeOK
<1>7. \/ running' \subseteq running /\ UNCHANGED <<view, told, since>>
      \/ \E u \in User : Posts(u) \/ PostCreate(u) \/ PostReuse(u) \/ Poll(u)
  BY Steps DEF PostDelete, HeartbeatQuery, HeartbeatSettle, HeartbeatIssue, UploadCreate,
               UploadSolve, UploadStart, LoseRequest, TimePasses
<1>. QED BY <1>1, <1>2, <1>4, <1>5, <1>6, <1>7

\* What is written to a row is counted by everyone whose dialogue has the row, and only
\* a post of one's own starts the count anew.
LEMMA SinceStep ==
  ASSUME TypeOK, [Next]_vars, NEW u \in User
  PROVE  \/ Posts(u) /\ since'[u] = Request /\ told'[u] = "nothing"
         \/ PostCreate(u) \/ PostReuse(u) \/ PostDelete(u)
         \/ /\ user'[u] = user[u] /\ since[u] \subseteq since'[u]
            /\ \A x \in User : PostReuse(x) /\ user[x].row = user[u].row => user[x].req \in since'[u]
            /\ (told'[u] = told[u] /\ view'[u] = view[u]) \/ Poll(u)
<1>. DEFINE Still == user'[u] = user[u] /\ told'[u] = told[u] /\ view'[u] = view[u]
                     /\ since[u] \subseteq since'[u]
<1>1. ASSUME NEW x \in User, PostReuse(x), ~PostReuse(u)
      PROVE  Still /\ (user[x].row = user[u].row => user[x].req \in since'[u])
  <2>1. x # u BY <1>1
  <2>. QED BY <1>1, <2>1 DEF PostReuse, TypeOK
<1>2. ASSUME NEW x \in User, Posts(x), ~Posts(u) PROVE Still
  <2>1. x # u BY <1>2
  <2>2. PICK t : user' = [user EXCEPT ![x] = t] BY <1>2, Posted DEF Posts
  <2>3. /\ told' = [told EXCEPT ![x] = "nothing"] /\ view' = [view EXCEPT ![x] = NoRequest]
        /\ since' = [since EXCEPT ![x] = Request]
    BY <1>2 DEF Posts, Post
  <2>. QED BY <2>1, <2>2, <2>3 DEF TypeOK
<1>3. ASSUME Posts(u) PROVE since'[u] = Request /\ told'[u] = "nothing"
  BY <1>3 DEF Posts, Post, TypeOK
<1>4. ASSUME NEW x \in User, PostCreate(x), ~PostCreate(u) PROVE Still
  <2>1. x # u BY <1>4
  <2>. QED BY <1>4, <2>1 DEF PostCreate, TypeOK
<1>5. ASSUME NEW x \in User, PostDelete(x), ~PostDelete(u) PROVE Still
  <2>1. x # u BY <1>5
  <2>. QED BY <1>5, <2>1 DEF PostDelete, TypeOK
<1>6. ASSUME NEW x \in User, Poll(x) PROVE Still \/ (Poll(u) /\ UNCHANGED <<user, since>>)
  <2>1. CASE x = u BY <1>6, <2>1 DEF Poll
  <2>2. CASE x # u
    <3>1. PICK what, q : told' = [told EXCEPT ![x] = what] /\ view' = [view EXCEPT ![x] = q]
      BY <1>6 DEF Poll
    <3>. QED BY <1>6, <2>2, <3>1 DEF Poll, TypeOK
  <2>. QED BY <2>1, <2>2
<1>7. \/ UNCHANGED <<user, view, told, since>>
      \/ \E x \in User : Posts(x) \/ PostCreate(x) \/ PostReuse(x) \/ PostDelete(x) \/ Poll(x)
  BY Steps DEF HeartbeatQuery, HeartbeatSettle, HeartbeatIssue, UploadCreate,
               UploadSolve, UploadStart, LoseRequest, TimePasses
<1>. QED BY <1>1, <1>2, <1>3, <1>4, <1>5, <1>6, <1>7

\* The part of DialoguesFresh that one dialogue has to keep.
Fresh(u) ==
  /\ user[u].pc \in {"delete", "poll"} =>
       queue[user[u].row].req \in since[u] /\ WithAgents(user[u].row) \subseteq since[u]
  /\ user[u].pc = "poll" => stored[user[u].row] \subseteq since[u]
  /\ user[u].pc # "poll" => told[u] # "answer"
  /\ told[u] = "answer" => view[u] \in since[u]

\* What others write to the row of a dialogue, take from it and store for it was counted.
LEMMA OthersCounted ==
  ASSUME IInv, [Next]_vars, NEW u \in User, Fresh(u), user[u].pc \in {"delete", "poll"},
         user'[u] = user[u], since[u] \subseteq since'[u],
         \A x \in User : PostReuse(x) /\ user[x].row = user[u].row => user[x].req \in since'[u]
  PROVE  /\ queue'[user[u].row].req \in since'[u]
         /\ WithAgents(user[u].row)' \subseteq since'[u]
         /\ user[u].pc = "poll" => stored'[user[u].row] \subseteq since'[u]
<1>. DEFINE r == user[u].row
<1>0. r \in Rows /\ r \in RowId BY RequestAssumption DEF IInv, TypeOK, Rows, RowId
<1>1. queue[r].req \in since[u] /\ WithAgents(r) \subseteq since[u] BY DEF Fresh
<1>2. queue'[r].req \in since'[u] BY <1>0, <1>1, QueueStep DEF IInv
<1>3. ASSUME NEW x \in RowId, x \in Rows
      PROVE  WithAgents(x)' \subseteq WithAgents(x) \cup {queue[x].req}
  BY <1>3, HoldersStep DEF IInv
<1>4. ASSUME NEW x \in RowId, x = r PROVE WithAgents(x)' = WithAgents(user[u].row)'
  BY <1>4
<1>5. WithAgents(user[u].row)' \subseteq since'[u] BY <1>0, <1>1, <1>3, <1>4
<1>6. ASSUME user[u].pc = "poll" PROVE stored'[r] \subseteq since'[u]
  <2>1. stored[r] \subseteq since[u] BY <1>6 DEF Fresh
  <2>2. stored \in [RowId -> SUBSET Request] BY DEF IInv, TypeOK
  <2>3. stored'[r] \subseteq stored[r] \cup WithAgents(r)
    <3>1. CASE UNCHANGED stored BY <3>1
    <3>2. ASSUME NEW x \in RowId, stored' = [stored EXCEPT ![x] = {}]
          PROVE  stored'[r] \subseteq stored[r]
      BY <1>0, <2>2, <3>2
    <3>3. ASSUME NEW x \in RowId, NEW q \in WithAgents(x), stored' = [stored EXCEPT ![x] = @ \cup {q}]
          PROVE  stored'[r] \subseteq stored[r] \cup WithAgents(r)
      BY <1>0, <2>2, <3>3
    <3>. QED BY <3>1, <3>2, <3>3, StoredStep DEF IInv
  <2>. QED BY <1>1, <2>1, <2>3
<1>. QED BY <1>2, <1>5, <1>6

\* A dialogue shows only what is counted: a post counts anew when no older request of the
\* row is under way, and deletes the stored answer before it polls.
LEMMA FreshStep ==
  ASSUME IInv, [Next]_vars PROVE DialoguesFresh'
<1>. USE RequestAssumption
<1>. SUFFICES ASSUME NEW u \in User PROVE Fresh(u)'
  BY DEF DialoguesFresh, Fresh
<1>0. Fresh(u) BY DEF IInv, DialoguesFresh, Fresh
<1>1. /\ queue' \in [Rows' -> Row] /\ stored' \in [RowId -> SUBSET Request] /\ HoldersTyped'
      /\ user'[u].pc \in {"reuse", "delete", "poll"} => user'[u].row \in Rows'
      /\ lastId' \in 0..MaxRows
  BY QueueStep, StoredStep, HoldersStep, DialogueStep DEF IInv
<1>2. ASSUME Posts(u), since'[u] = Request, told'[u] = "nothing" PROVE Fresh(u)'
  <2>1. WithAgents(user[u].row)' \subseteq Request BY DEF WithAgents
  <2>2. ASSUME user'[u].pc \in {"delete", "poll"}
        PROVE  queue'[user'[u].row].req \in Request /\ stored'[user'[u].row] \subseteq Request
    <3>1. user'[u].row \in Rows' /\ user'[u].row \in RowId BY <1>1, <2>2 DEF Rows, RowId
    <3>. QED BY <1>1, <3>1 DEF Row
  <2>. QED BY <1>2, <2>1, <2>2 DEF Fresh
<1>3. ASSUME PostCreate(u) PROVE Fresh(u)'
  <2>1. lastId \in 0..MaxRows /\ lastId' = lastId + 1 BY <1>3 DEF PostCreate, IInv, TypeOK
  <2>2. lastId + 1 \in RowId \ Rows BY <1>1, <2>1 DEF RowId, Rows
  <2>3. user[u].pool \in Pool /\ lastId + 1 \in 0..MaxRows BY <1>1, <2>1 DEF IInv, TypeOK
  <2>4. user'[u] = Polling(user[u].pool, lastId + 1) BY <1>3 DEF PostCreate, IInv, TypeOK
  <2>5. user'[u].pc = "poll" /\ user'[u].row = lastId + 1 BY <2>3, <2>4, PollingTyped
  <2>6. stored'[lastId + 1] = {} BY <1>3, <2>2 DEF PostCreate, IInv, NewRowsEmpty
  <2>7. UNCHANGED <<held, beat, upload>> BY <1>3 DEF PostCreate, agentVars
  <2>8. \A r \in RowId \ Rows : WithAgents(r)' = {}
    BY <2>7 DEF IInv, NewRowsEmpty, WithAgents
  <2>9. \A r : r = user'[u].row => WithAgents(r)' = WithAgents(user[u].row)' OBVIOUS
  <2>10. WithAgents(user[u].row)' = {} BY <2>2, <2>5, <2>8, <2>9
  <2>11. queue'[lastId + 1].req = user[u].req
    <3>1. queue' = Append(queue, [pool |-> user[u].pool, agent |-> user[u].agent,
                        req |-> user[u].req, state |-> "WAITING", old |-> FALSE])
      BY <1>3 DEF PostCreate
    <3>2. queue \in Seq(Row) /\ Len(queue) = lastId BY DEF IInv, TypeOK, Rows
    <3>. QED BY <3>1, <3>2
  <2>12. since'[u] = {user[u].req} BY <1>3 DEF PostCreate, IInv, TypeOK
  <2>13. told'[u] # "answer" BY <1>0, <1>3 DEF PostCreate, Fresh
  <2>. QED BY <2>5, <2>6, <2>10, <2>11, <2>12, <2>13 DEF Fresh
<1>4. ASSUME PostReuse(u) PROVE Fresh(u)'
  <2>0. user[u].row \in Rows /\ user[u].row \in RowId
    BY <1>4 DEF PostReuse, IInv, TypeOK, Rows, RowId
  <2>1. user'[u].pc = "delete" /\ user'[u].row = user[u].row
    BY <1>4 DEF PostReuse, IInv, TypeOK
  <2>2. queue'[user[u].row].req = user[u].req
    <3>1. queue[user[u].row] \in Row BY <2>0 DEF IInv, TypeOK
    <3>2. queue'[user[u].row] = [queue[user[u].row] EXCEPT !.req = user[u].req, !.state = "WAITING"]
      BY <1>4, <2>0 DEF PostReuse, IInv, TypeOK
    <3>. QED BY <3>1, <3>2 DEF Row
  <2>3. since'[u] = IF Undisturbed(user[u].row) THEN {user[u].req} ELSE Request
    BY <1>4 DEF PostReuse, IInv, TypeOK
  <2>4. UNCHANGED <<held, beat, upload>> BY <1>4 DEF PostReuse, agentVars
  <2>5. WithAgents(user[u].row)' = WithAgents(user[u].row) BY <2>1, <2>4 DEF WithAgents
  <2>6. WithAgents(user[u].row) \subseteq Request BY DEF WithAgents
  <2>7. Undisturbed(user[u].row) => WithAgents(user[u].row) = {}
    BY DEF Undisturbed, WithAgents, NoRequest, Request
  <2>8. user[u].req \in Request
    <3>1. user[u].req \in asked[user[u].pool] BY <1>4 DEF IInv, DialoguesKnown, PostReuse
    <3>. QED BY <3>1 DEF IInv, TypeOK
  <2>9. told'[u] # "answer" BY <1>0, <1>4 DEF PostReuse, Fresh
  <2>. QED BY <2>1, <2>2, <2>3, <2>5, <2>6, <2>7, <2>8, <2>9 DEF Fresh
<1>5. ASSUME PostDelete(u) PROVE Fresh(u)'
  <2>0. user[u].row \in Rows /\ user[u].row \in RowId /\ user[u].row \in 0..MaxRows /\ user[u].pool \in Pool
    BY <1>5 DEF PostDelete, IInv, TypeOK, Rows, RowId
  <2>1. user'[u] = Polling(user[u].pool, user[u].row) BY <1>5 DEF PostDelete, IInv, TypeOK
  <2>2. user'[u].pc = "poll" /\ user'[u].row = user[u].row BY <2>0, <2>1, PollingTyped
  <2>3. stored'[user[u].row] = {} BY <1>5, <2>0 DEF PostDelete, IInv, TypeOK
  <2>4. UNCHANGED <<held, beat, upload, queue, since, told>> BY <1>5 DEF PostDelete, agentVars
  <2>5. WithAgents(user[u].row)' = WithAgents(user[u].row) BY <2>2, <2>4 DEF WithAgents
  <2>6. told[u] # "answer" /\ queue[user[u].row].req \in since[u] /\ WithAgents(user[u].row) \subseteq since[u]
    BY <1>0, <1>5 DEF PostDelete, Fresh
  <2>. QED BY <2>2, <2>3, <2>4, <2>5, <2>6 DEF Fresh
<1>6. ASSUME user'[u] = user[u], since[u] \subseteq since'[u],
             \A x \in User : PostReuse(x) /\ user[x].row = user[u].row => user[x].req \in since'[u],
             (told'[u] = told[u] /\ view'[u] = view[u]) \/ Poll(u)
      PROVE  Fresh(u)'
  <2>1. user[u].pc # "poll" => told'[u] # "answer" BY <1>0, <1>6 DEF Fresh, Poll
  <2>2. told'[u] = "answer" => view'[u] \in since'[u]
    <3>1. CASE told'[u] = told[u] /\ view'[u] = view[u] BY <1>0, <1>6, <3>1 DEF Fresh
    <3>2. CASE Poll(u)
      <4>1. told'[u] = "answer" => view'[u] \in stored[user[u].row]
        BY <3>2 DEF Poll, IInv, TypeOK
      <4>2. stored[user[u].row] \subseteq since[u] BY <1>0, <3>2 DEF Poll, Fresh
      <4>. QED BY <1>6, <4>1, <4>2
    <3>. QED BY <1>6, <3>1, <3>2
  <2>. QED BY <1>0, <1>6, <2>1, <2>2, OthersCounted DEF Fresh
<1>7. TypeOK BY DEF IInv
<1>. QED BY <1>2, <1>3, <1>4, <1>5, <1>6, <1>7, SinceStep

--------------------------------------------------------------------------------
(* The theorems.                                                              *)

\* Nothing is asked, under way or shown at the start.
LEMMA InitIInv == Init => IInv
<1>. SUFFICES ASSUME Init PROVE IInv
  OBVIOUS
<1>. USE RequestAssumption
<1>1. Rows = {} /\ queue \in [Rows -> Row] BY DEF Init, Rows
<1>2. Creators = {}
  BY PollingTyped DEF Init, Creators
<1>3. Cardinality({}) = 0 BY FS_EmptySet
<1>4. RoomForCreators BY <1>2, <1>3 DEF Init, RoomForCreators
<1>5. HoldersTyped
  BY DEF Init, HoldersTyped, Quiet, Free, Holding
<1>6. user \in [User -> UserType] /\ \A u \in User : user[u].pc = "idle"
  BY PollingTyped DEF Init
<1>7. TypeOK BY <1>1, <1>5, <1>6 DEF Init, TypeOK, HoldersTyped, UserType, NoRequest
<1>8. \A r \in RowId : WithAgents(r) = {}
  BY DEF Init, WithAgents, Quiet, Free, Request, NoRequest, RowId
<1>9. UploadsKnown /\ NewRowsEmpty /\ RowsAsked
  BY <1>1, <1>8 DEF Init, UploadsKnown, NewRowsEmpty, RowsAsked, Free
<1>10. DialoguesKnown /\ DialoguesFresh
  BY <1>6 DEF Init, DialoguesKnown, DialoguesFresh
<1>. QED BY <1>4, <1>7, <1>9, <1>10 DEF IInv

\* Every step of users, heartbeats, agents and uploads keeps the invariant.
LEMMA StepIInv == IInv /\ [Next]_vars => IInv'
<1>. SUFFICES ASSUME IInv, [Next]_vars PROVE IInv'
  OBVIOUS
<1>. USE DEF IInv
<1>1. UploadsKnown'
  <2>1. Rows \subseteq Rows' BY QueueStep DEF Rows, TypeOK
  <2>. QED BY <2>1, HoldersStep DEF UploadsKnown
<1>2. TypeOK'
  BY QueueStep, StoredStep, HoldersStep, DialogueStep, AskedStep, ScreensStep
  DEF TypeOK, HoldersTyped, UserType
<1>. QED BY <1>1, <1>2, DialogueStep, RowsAskedStep, FreshStep

\* The invariant holds in every reachable state.
LEMMA IInvAlways == Spec => []IInv
  BY InitIInv, StepIInv, PTL DEF Spec

\* An answer that is shown is to the user's own request or to one written to the row
\* after it, unless an older request of the row was under way when the post wrote it: for
\* any number of users on a row, of agents and of late and lost uploads
\* (send_request_to_replay_queue, RequestReplayEndPoint.get, save of a replayed pool).
THEOREM AnswerAlwaysFresh == Spec => []AnswerIsFresh
<1>1. IInv => AnswerIsFresh BY DEF IInv, DialoguesFresh, AnswerIsFresh
<1>. QED BY <1>1, IInvAlways, PTL

\* The answers stored for the rows of a pool: what ReplayService keeps for it.
Kept(p) == UNION {stored[r] : r \in {x \in Rows : queue[x].pool = p}}

\* While nothing is stored or dropped, the same answers are kept: rows keep their pools,
\* and a new row has none.
LEMMA KeptSame ==
  ASSUME IInv, [Next]_vars, UNCHANGED stored, NEW p PROVE Kept(p)' = Kept(p)
<1>. USE RequestAssumption
<1>1. /\ \A r \in Rows : queue'[r].pool = queue[r].pool
      /\ Rows \subseteq Rows' /\ Rows' \subseteq RowId
  BY QueueStep DEF IInv, TypeOK, Rows, RowId
<1>2. \A r \in Rows' \ Rows : stored[r] = {} BY <1>1 DEF IInv, NewRowsEmpty
<1>. QED BY <1>1, <1>2 DEF Kept

\* PostDelete drops answers of the pool of its row.
LEMMA KeptDropped ==
  ASSUME IInv, NEW u \in User, PostDelete(u), NEW p \in Pool, p = user[u].pool
  PROVE  Kept(p)' \subseteq Kept(p) /\ \A x \in Pool : x # p => Kept(x)' = Kept(x)
<1>. DEFINE r == user[u].row
<1>. USE RequestAssumption
<1>1. /\ r \in Rows /\ Rows \subseteq RowId /\ queue[r].pool = p
      /\ Rows' = Rows /\ queue' = queue
      /\ stored' = [stored EXCEPT ![r] = {}] /\ stored \in [RowId -> SUBSET Request]
  BY DEF PostDelete, IInv, TypeOK, DialoguesKnown, Rows, RowId
<1>2. \A x \in Rows : stored'[x] = IF x = r THEN {} ELSE stored[x] BY <1>1
<1>. HIDE DEF r
<1>3. ASSUME NEW x \in Pool PROVE Kept(x)' \subseteq Kept(x) /\ (x # p => Kept(x)' = Kept(x))
  BY <1>1, <1>2 DEF Kept
<1>4. Kept(p)' \subseteq Kept(p) BY <1>3
<1>. QED BY <1>3, <1>4

\* An upload adds the answer to a request that was asked of the pool of its row.
LEMMA KeptAnswered ==
  ASSUME IInv, NEW a \in Agent, UploadCreate(a), [Next]_vars,
         NEW p, p = queue[upload[a].row].pool, NEW q, q = upload[a].req
  PROVE  /\ p \in Pool /\ q \in asked[p] /\ q \in Request
         /\ \A x \in Pool : Kept(x)' = IF x = p THEN Kept(x) \cup {q} ELSE Kept(x)
<1>. DEFINE r == upload[a].row
<1>. USE RequestAssumption
<1>1. r \in Rows /\ q \in Request BY DEF IInv, UploadsKnown, UploadCreate
<1>2. q \in WithAgents(r) BY <1>1 DEF WithAgents
<1>3. p \in Pool /\ q \in asked[p]
  <2>1. queue[r] \in Row /\ queue[r].pool = p BY <1>1 DEF IInv, TypeOK
  <2>2. p \in Pool BY <2>1 DEF Row
  <2>3. WithAgents(r) \subseteq asked[p] BY <1>1, <2>1 DEF IInv, RowsAsked
  <2>. QED BY <1>2, <2>2, <2>3
<1>4. /\ Rows \subseteq RowId /\ Rows' = Rows /\ queue' = queue /\ queue[r].pool = p
      /\ stored' = [stored EXCEPT ![r] = @ \cup {q}] /\ stored \in [RowId -> SUBSET Request]
  BY DEF UploadCreate, IInv, TypeOK, Rows, RowId
<1>5. \A x \in Rows : stored'[x] = IF x = r THEN stored[x] \cup {q} ELSE stored[x] BY <1>4
<1>. HIDE DEF r
<1>6. ASSUME NEW x \in Pool PROVE Kept(x)' = IF x = p THEN Kept(x) \cup {q} ELSE Kept(x)
  BY <1>1, <1>4, <1>5 DEF Kept
<1>. QED BY <1>1, <1>3, <1>6

\* At the start nobody has asked and nothing is kept.
LEMMA ServiceInit == Init => Service!Init
<1>. SUFFICES ASSUME Init PROVE Service!Init
  OBVIOUS
<1>1. Rows = {} BY DEF Init, Rows
<1>2. \A u \in User : user[u].pool \in Pool BY PollingTyped DEF Init, UserType
<1>. QED BY <1>1, <1>2 DEF Init, Service!Init

\* The screen of a poll: an answer that is stored for the row, hence kept for the pool.
LEMMA PollShows ==
  ASSUME IInv, NEW u \in User, Poll(u)
  PROVE  \E q \in Kept(user[u].pool) \cup {NoRequest} : view' = [view EXCEPT ![u] = q]
<1>1. user[u].row \in Rows /\ queue[user[u].row].pool = user[u].pool
  BY DEF Poll, IInv, TypeOK, DialoguesKnown
<1>2. stored[user[u].row] \subseteq Kept(user[u].pool) BY <1>1 DEF Kept
<1>. QED BY <1>2 DEF Poll

\* Only a post changes the pool a dialogue is about.
LEMMA TopicsKept ==
  ASSUME IInv, [Next]_vars, \A u \in User : ~Posts(u)
  PROVE  \A w \in User : user'[w].pool = user[w].pool
<1>. USE RequestAssumption
<1>1. user \in [User -> UserType] /\ lastId' \in 0..MaxRows
  BY QueueStep DEF IInv, TypeOK, UserType
<1>2. ASSUME NEW u \in User, NEW r \in 0..MaxRows,
             user' = [user EXCEPT ![u] = Polling(user[u].pool, r)]
      PROVE  \A w \in User : user'[w].pool = user[w].pool
  <2>1. user[u].pool \in Pool BY <1>1 DEF UserType
  <2>2. Polling(user[u].pool, r).pool = user[u].pool BY <2>1, PollingTyped
  <2>. QED BY <1>1, <1>2, <2>2
<1>3. ASSUME NEW u \in User, PostCreate(u), lastId' = lastId + 1,
             user' = [user EXCEPT ![u] = Polling(user[u].pool, lastId + 1)]
      PROVE  \A w \in User : user'[w].pool = user[w].pool
  BY <1>1, <1>2, <1>3
<1>4. ASSUME NEW u \in User, PostReuse(u) PROVE \A w \in User : user'[w].pool = user[w].pool
  BY <1>1, <1>4 DEF PostReuse, UserType
<1>5. ASSUME NEW u \in User, PostDelete(u),
             user' = [user EXCEPT ![u] = Polling(user[u].pool, user[u].row)]
      PROVE  \A w \in User : user'[w].pool = user[w].pool
  <2>1. user[u].row \in 0..MaxRows BY <1>1 DEF UserType
  <2>. QED BY <1>2, <1>5, <2>1
<1>. QED BY DialogueMoves, <1>3, <1>4, <1>5 DEF IInv

\* Every step of the endpoint, the heartbeats and the uploads is one of ReplayService, or
\* one that users cannot see.
LEMMA ServiceStep ==
  IInv /\ [Next]_vars =>
    [Service!Next]_<<asked, [p \in Pool |-> Kept(p)], [u \in User |-> user[u].pool], view>>
<1>. SUFFICES ASSUME IInv, [Next]_vars
     PROVE [Service!Next]_<<asked, [p \in Pool |-> Kept(p)], [u \in User |-> user[u].pool], view>>
  OBVIOUS
<1>. DEFINE K == [p \in Pool |-> Kept(p)]
            T == [u \in User |-> user[u].pool]
<1>1. ASSUME NEW u \in User, Posts(u)
      PROVE  \E p \in Pool, q \in Request : Service!Ask(u, p, q)
  <2>1. PICK p \in Pool, q \in Request, c \in SUBSET Agent : Post(u, p, c, q)
    BY <1>1 DEF Posts
  <2>0. TypeOK BY DEF IInv
  <2>2. PICK t \in UserType : user' = [user EXCEPT ![u] = t] /\ t.pool = p
    BY <2>0, <2>1, Posted
  <2>3. T' = [T EXCEPT ![u] = p] BY <2>2 DEF IInv, TypeOK
  <2>4. UNCHANGED stored BY <2>1 DEF Post
  <2>5. K' = K BY <2>4, KeptSame
  <2>6. asked' = [asked EXCEPT ![p] = @ \cup {q}] /\ view' = [view EXCEPT ![u] = NoRequest]
    BY <2>1 DEF Post
  <2>7. Service!Ask(u, p, q) BY <2>3, <2>5, <2>6 DEF Service!Ask, Kept
  <2>. QED BY <2>7
<1>2. CASE \A u \in User : ~Posts(u)
  <2>1. T' = T BY <1>2, TopicsKept
  <2>2. ASSUME NEW u \in User, PostDelete(u) PROVE \E p \in Pool : Service!Drop(p)
    <3>1. PICK p \in Pool : p = user[u].pool BY DEF IInv, TypeOK
    <3>2. Kept(p)' \subseteq Kept(p) /\ \A x \in Pool : x # p => Kept(x)' = Kept(x)
      BY <2>2, <3>1, KeptDropped
    <3>3. K' = [K EXCEPT ![p] = Kept(p)'] /\ Kept(p)' \in SUBSET K[p] BY <3>2
    <3>4. UNCHANGED <<asked, view>> BY <2>2 DEF PostDelete
    <3>5. Service!Drop(p) BY <2>1, <3>3, <3>4 DEF Service!Drop, Kept
    <3>. QED BY <3>5
  <2>3. ASSUME NEW a \in Agent, UploadCreate(a)
        PROVE  \E p \in Pool, q \in Request : Service!Answer(p, q)
    <3>1. PICK p, q : p = queue[upload[a].row].pool /\ q = upload[a].req OBVIOUS
    <3>2. /\ p \in Pool /\ q \in asked[p] /\ q \in Request
          /\ \A x \in Pool : Kept(x)' = IF x = p THEN Kept(x) \cup {q} ELSE Kept(x)
      BY <2>3, <3>1, KeptAnswered
    <3>3. K' = [K EXCEPT ![p] = @ \cup {q}] BY <3>2
    <3>4. UNCHANGED <<asked, view>> BY <2>3 DEF UploadCreate
    <3>5. Service!Answer(p, q) BY <2>1, <3>2, <3>3, <3>4 DEF Service!Answer, Kept
    <3>. QED BY <3>2, <3>5
  <2>4. ASSUME NEW u \in User, Poll(u) PROVE Service!Show(u)
    <3>1. \E q \in Kept(user[u].pool) \cup {NoRequest} : view' = [view EXCEPT ![u] = q]
      BY <2>4, PollShows
    <3>2. UNCHANGED <<stored, asked>> BY <2>4 DEF Poll
    <3>3. K' = K BY <3>2, KeptSame
    <3>4. user[u].pool \in Pool BY DEF IInv, TypeOK
    <3>5. K[T[u]] = Kept(user[u].pool) BY <3>4
    <3>. QED BY <2>1, <3>1, <3>2, <3>3, <3>5 DEF Service!Show, Kept
  <2>5. CASE UNCHANGED <<stored, asked, view>>
    <3>1. K' = K BY <2>5, KeptSame
    <3>. QED BY <2>1, <2>5, <3>1 DEF Kept
  <2>6. \/ UNCHANGED <<stored, asked, view>>
        \/ (\E u \in User : PostDelete(u) \/ Poll(u)) \/ \E a \in Agent : UploadCreate(a)
    BY <1>2, Steps, Untouched
  <2>. QED BY <2>2, <2>3, <2>4, <2>5, <2>6 DEF Service!Next
<1>. QED BY <1>1, <1>2 DEF Service!Next

\* The endpoint, the heartbeats and the uploads implement ReplayService: a user is never
\* shown an answer about a pool other than the one the dialogue is about, nor to a request
\* nobody asked about it, however posts, polls, heartbeats and late uploads interleave
\* (RequestReplayEndPoint, HeartBeatHandler.get_result, SaasMethodPoolHandler.save).
THEOREM RequestReplayImplements == Spec => ServiceSpec
<1>1. Init => Service!Init BY ServiceInit
<1>2. IInv /\ [Next]_vars => [Service!Next]_<<asked, [p \in Pool |-> Kept(p)],
                                               [u \in User |-> user[u].pool], view>>
  BY ServiceStep
<1>. QED BY <1>1, <1>2, IInvAlways, PTL DEF Spec, ServiceSpec, Service!Spec, Kept

================================================================================
