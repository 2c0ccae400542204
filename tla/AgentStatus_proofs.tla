--------------------------- MODULE AgentStatus_proofs ---------------------------
(* Proofs about AgentStatus, for any number of agents and of users.           *)
EXTENDS AgentStatus, TLAPS

--------------------------------------------------------------------------------
(* Rows.                                                                      *)

\* The null row is no row of the table.
LEMMA NoRowApart == NoRow \notin Row
  BY DEF NoRow, Row, Status

\* Each of the changes that requests, heartbeats, tasks and the sweep make to a row
\* makes a row.
LEMMA ChangedRow ==
  ASSUME NEW r \in Row, NEW s \in Status
  PROVE  [r EXCEPT !.actual = s] \in Row /\ [r EXCEPT !.expect = s] \in Row
  BY DEF Row

\* An UPDATE of the status writes no row that is not there (heartbeats and the
\* update_heartbeat task).
LEMMA UpdateTyped ==
  ASSUME TypeOK, NEW a \in Agent, Registered(a), NEW from, NEW to \in Status
  PROVE  /\ Update(a, from, to) \in [Agent -> Row \cup {NoRow}]
         /\ \A b \in Agent : ~Registered(b) => Update(a, from, to)[b] = NoRow
<1>1. row[a] \in Row BY DEF TypeOK, Registered
<1>2. [row[a] EXCEPT !.actual = IF @ \in from THEN to ELSE @] \in Row
  <2>1. row[a].actual \in Status BY <1>1 DEF Row
  <2>. QED BY <1>1, <2>1, ChangedRow
<1>. QED BY <1>2 DEF Update, TypeOK, Registered

--------------------------------------------------------------------------------
(* The inductive invariant.                                                   *)

GoneStays == \A a \in gone : ~Registered(a)

\* Nothing is registered, deleted, queued or cached at the start.
LEMMA InitSafe == Init => TypeOK /\ GoneStays
  BY AgentStatusAssumption DEF Init, TypeOK, GoneStays, NoEdit

\* Of the writers of the table, only Register makes a row that was not there, and it does
\* not for a deleted agent.
LEMMA RowStep ==
  ASSUME TypeOK, GoneStays, [Next]_vars
  PROVE  /\ row' \in [Agent -> Row \cup {NoRow}]
         /\ \A a \in Agent : ~Registered(a) /\ Registered(a)' => a \notin gone /\ UNCHANGED gone
<1>. DEFINE Goal == /\ row' \in [Agent -> Row \cup {NoRow}]
                    /\ \A a \in Agent : ~Registered(a) /\ Registered(a)'
                         => a \notin gone /\ UNCHANGED gone
<1>1. CASE UNCHANGED row BY <1>1 DEF TypeOK, Registered
<1>2. ASSUME NEW a \in Agent, Register(a) PROVE Goal
  <2>1. [actual |-> "running", expect |-> "running"] \in Row BY DEF Row, Status
  <2>. QED BY <1>2, <2>1 DEF Register, TypeOK, Registered
<1>3. ASSUME NEW S \in SUBSET Agent, DeleteProject(S) PROVE Goal
  BY <1>3 DEF DeleteProject, TypeOK, Registered
<1>4. ASSUME NEW a \in Agent, NEW b \in BOOLEAN, HeartbeatStatus(a, b) PROVE Goal
  <2>1. process[a] \in Status BY <1>4 DEF HeartbeatStatus, TypeOK, Status
  <2>2. CASE UNCHANGED row BY <1>1, <2>2
  <2>3. CASE Registered(a) /\ row' = Update(a, Status, process[a])
    BY <2>1, <2>3, UpdateTyped DEF Registered
  <2>. QED BY <1>4, <2>2, <2>3 DEF HeartbeatStatus
<1>5. ASSUME NEW a \in Agent, UpdateHeartbeat(a) PROVE Goal
  <2>1. CASE UNCHANGED row BY <1>1, <2>1
  <2>2. CASE Registered(a) /\ row' = Update(a, {"offline"}, "running")
    <3>1. "running" \in Status BY DEF Status
    <3>. QED BY <2>2, <3>1, UpdateTyped DEF Registered
  <2>. QED BY <1>5, <2>1, <2>2 DEF UpdateHeartbeat
<1>6. CASE SweepUpdate
  <2>1. \A a \in Agent : Registered(a) => [row[a] EXCEPT !.actual = "offline"] \in Row
    BY ChangedRow DEF Status, TypeOK, Registered
  <2>. QED BY <1>6, <2>1 DEF SweepUpdate, TypeOK, Registered
<1>7. ASSUME NEW w \in Writer, SaveAgent(w) PROVE Goal
  <2>1. edit[w].row \in Row \cup {NoRow} BY <1>7 DEF TypeOK
  <2>. QED BY <1>7, <2>1 DEF SaveAgent, TypeOK, Registered
<1>8. \/ UNCHANGED row
      \/ \E a \in Agent : Register(a) \/ UpdateHeartbeat(a)
      \/ \E a \in Agent, b \in BOOLEAN : HeartbeatStatus(a, b)
      \/ \E S \in SUBSET Agent : DeleteProject(S)
      \/ \E w \in Writer : SaveAgent(w)
      \/ SweepUpdate
  BY DEF Next, vars, Sweep, HeartbeatExpires, Report, AgentExpires, Unlock,
         ActualRunningStatus, ProcessChange, HeartbeatSave, StartStop, ReadAgent,
         SweepAgents, SweepKeys
<1>. QED BY <1>1, <1>2, <1>3, <1>4, <1>5, <1>6, <1>7, <1>8

\* What a request remembers of a row it read is a row (StartStop, ActualRunningStatus).
LEMMA EditStep ==
  ASSUME TypeOK, [Next]_vars
  PROVE  edit' \in [Writer -> [of: SUBSET Agent, row: Row \cup {NoRow}]] /\ edits' \in 0..MaxEdits
<1>. USE AgentStatusAssumption
<1>1. CASE UNCHANGED <<edit, edits>> BY <1>1 DEF TypeOK
<1>2. ASSUME NEW w \in Writer, NEW a \in Agent, NEW c \in Row, ReadAgent(w, a, c)
      PROVE  edit' \in [Writer -> [of: SUBSET Agent, row: Row \cup {NoRow}]]
             /\ edits' \in 0..MaxEdits
  BY <1>2 DEF ReadAgent, TypeOK
<1>3. ASSUME NEW a \in Agent, NEW u \in User, NEW e \in {"running", "paused"},
             StartStop(u, a, e)
      PROVE  \E w \in Writer, c \in Row : ReadAgent(w, a, c)
  <2>1. [row[a] EXCEPT !.expect = e] \in Row
    BY <1>3, ChangedRow DEF StartStop, ReadAgent, Registered, TypeOK, Status
  <2>. QED BY <1>3, <2>1 DEF StartStop, Writer
<1>4. ASSUME NEW a \in Agent, ActualRunningStatus(a)
      PROVE  \E w \in Writer, c \in Row : ReadAgent(w, a, c)
  <2>1. [row[a] EXCEPT !.actual = process[a]] \in Row
    BY <1>4, ChangedRow DEF ActualRunningStatus, ReadAgent, Registered, TypeOK, Status
  <2>. QED BY <1>4, <2>1 DEF ActualRunningStatus, Writer
<1>5. ASSUME NEW w \in Writer, SaveAgent(w)
      PROVE  edit' \in [Writer -> [of: SUBSET Agent, row: Row \cup {NoRow}]]
             /\ edits' \in 0..MaxEdits
  BY <1>5 DEF SaveAgent, NoEdit, TypeOK
<1>6. \/ UNCHANGED <<edit, edits>>
      \/ \E a \in Agent, u \in User, e \in {"running", "paused"} : StartStop(u, a, e)
      \/ \E a \in Agent : ActualRunningStatus(a)
      \/ \E w \in Writer : SaveAgent(w)
  BY Zenon DEF Next, vars, Sweep, Register, HeartbeatExpires, Report, AgentExpires, UpdateHeartbeat,
         Unlock, ProcessChange, HeartbeatStatus, HeartbeatSave, DeleteProject,
         SweepAgents, SweepKeys, SweepUpdate
<1>. QED BY <1>1, <1>2, <1>3, <1>4, <1>5, <1>6

OthersTyped ==
  /\ heartbeat \subseteq Agent /\ beating \subseteq Agent
  /\ task \in [Agent -> {"none", "queued", "locked"}]
  /\ process \in [Agent -> {"down", "paused", "running"}]
  /\ sweep \in [step: {"idle", "keys", "update"}, ids: SUBSET Agent]
  /\ known \in [Agent -> {"unknown", "accepted", "refused"}]

\* The caches, the tasks, the sweep and the agents' processes keep their types.
LEMMA OthersStep ==
  ASSUME TypeOK, [Next]_vars PROVE OthersTyped'
<1>. USE DEF OthersTyped, TypeOK
<1>1. CASE UNCHANGED vars BY <1>1 DEF vars
<1>2. ASSUME NEW a \in Agent,
             Register(a) \/ HeartbeatExpires(a) \/ Report(a) \/ AgentExpires(a)
             \/ UpdateHeartbeat(a) \/ Unlock(a)
      PROVE  OthersTyped'
  BY <1>2 DEF Register, HeartbeatExpires, Report, AgentExpires, UpdateHeartbeat, Unlock
<1>3. ASSUME NEW a \in Agent, NEW p \in {"down", "paused", "running"}, ProcessChange(a, p)
      PROVE  OthersTyped'
  BY <1>3 DEF ProcessChange
<1>4. ASSUME NEW a \in Agent, NEW b,
             HeartbeatStatus(a, b) \/ HeartbeatSave(a, b) \/ StartStop(b, a, "running")
             \/ StartStop(b, a, "paused") \/ ActualRunningStatus(a)
      PROVE  OthersTyped'
  <2>1. CASE HeartbeatStatus(a, b) BY <2>1 DEF HeartbeatStatus
  <2>2. CASE HeartbeatSave(a, b) BY <2>2 DEF HeartbeatSave
  <2>. QED BY <1>4, <2>1, <2>2 DEF StartStop, ActualRunningStatus, ReadAgent
<1>5. ASSUME NEW S, DeleteProject(S) PROVE OthersTyped' BY <1>5 DEF DeleteProject
<1>6. ASSUME NEW w, SaveAgent(w) PROVE OthersTyped' BY <1>6 DEF SaveAgent
<1>7. CASE Sweep BY <1>7 DEF Sweep, SweepAgents, SweepKeys, SweepUpdate
<1>. HIDE DEF OthersTyped, TypeOK
<1>. QED BY <1>1, <1>2, <1>3, <1>4, <1>5, <1>6, <1>7 DEF Next

\* Agents are gone for good: only DeleteProject adds to them, and removes their rows.
LEMMA GoneStep ==
  ASSUME TypeOK, [Next]_vars
  PROVE  /\ gone' \subseteq Agent
         /\ \A a \in gone' \ gone : ~Registered(a)'
<1>1. CASE UNCHANGED gone BY <1>1 DEF TypeOK
<1>2. ASSUME NEW S \in SUBSET Agent, DeleteProject(S)
      PROVE  gone' \subseteq Agent /\ \A a \in gone' \ gone : ~Registered(a)'
  BY <1>2 DEF DeleteProject, Registered, TypeOK
<1>3. UNCHANGED gone \/ \E S \in SUBSET Agent : DeleteProject(S)
  BY DEF Next, vars, Sweep, Register, HeartbeatExpires, Report, AgentExpires,
         UpdateHeartbeat, Unlock, ActualRunningStatus, ProcessChange, HeartbeatStatus,
         HeartbeatSave, StartStop, ReadAgent, SaveAgent, SweepAgents, SweepKeys, SweepUpdate
<1>. QED BY <1>1, <1>2, <1>3

\* Every step of agents, users, tasks and the sweep keeps the types and the deletions.
LEMMA StepSafe == TypeOK /\ GoneStays /\ [Next]_vars => TypeOK' /\ GoneStays'
<1>. SUFFICES ASSUME TypeOK, GoneStays, [Next]_vars PROVE TypeOK' /\ GoneStays'
  OBVIOUS
<1>1. TypeOK' BY RowStep, EditStep, OthersStep, GoneStep DEF TypeOK, OthersTyped
<1>2. ASSUME NEW a \in gone' PROVE ~Registered(a)'
  <2>1. CASE a \in gone
    <3>1. a \in Agent /\ ~Registered(a) BY <2>1 DEF GoneStays, TypeOK
    <3>. QED BY <2>1, <3>1, RowStep
  <2>2. CASE a \notin gone BY <1>2, <2>2, GoneStep
  <2>. QED BY <2>1, <2>2
<1>. QED BY <1>1, <1>2 DEF GoneStays

--------------------------------------------------------------------------------
(* The theorem.                                                               *)

\* An agent that its project took along stays deleted, for any number of agents, users
\* and requests: no save of a row read before (AgentStart, AgentStop,
\* actual_running_status), no late update_heartbeat task, no sweep and no registration
\* brings it back.
THEOREM DeletedAgentsStay == Spec => []DeletedStaysDeleted
<1>1. TypeOK /\ GoneStays => DeletedStaysDeleted BY DEF GoneStays, DeletedStaysDeleted
<1>. QED BY <1>1, InitSafe, StepSafe, PTL DEF Spec

================================================================================
