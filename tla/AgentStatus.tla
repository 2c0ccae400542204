------------------------------ MODULE AgentStatus ------------------------------
(***************************************************************************)
(* The status of agents: what they report, what users ask of them, and the *)
(* periodic sweep that declares silent agents offline.  Requests are not   *)
(* transactions; start, stop and the agent's own status report read the    *)
(* whole row and save every column of it later.                            *)
(***************************************************************************)
EXTENDS Naturals, FiniteSets

CONSTANTS
  Agent,   \* ids of iast_agent
  User,    \* users that start and stop agents, each in one request at a time
  MaxEdits \* bound: start, stop and status requests

ASSUME AgentStatusAssumption == MaxEdits \in Nat

VARIABLES
  row,       \* iast_agent: actual and expected status
  gone,      \* agents deleted with their project; ids are not used again
  heartbeat, \* agents whose heartbeat-<id> key is in the cache
  task,      \* update_heartbeat task of the agent and its Singleton lock
  process,   \* what the agent process really does
  beating,   \* heartbeat request under way: its first statement is executed
  edit,      \* row that a request read, with the change it will save
  sweep,     \* update_agent_status: its step and the ids it remembers
  known,     \* cached result of get_agent for the other report handlers
  edits

vars == <<row, gone, heartbeat, task, process, beating, edit, sweep, known, edits>>

Status == {"running", "paused", "offline"}
NoRow  == [actual |-> "none", expect |-> "none"]
Row    == [actual: Status, expect: Status]
Writer == User \cup Agent
NoEdit == [of |-> {}, row |-> NoRow]

Init ==
  /\ row = [a \in Agent |-> NoRow]
  /\ gone = {} /\ heartbeat = {} /\ beating = {} /\ edits = 0
  /\ task = [a \in Agent |-> "none"]
  /\ process = [a \in Agent |-> "down"]
  /\ edit = [w \in Writer |-> NoEdit]
  /\ sweep = [step |-> "idle", ids |-> {}]
  /\ known = [a \in Agent |-> "unknown"]

Registered(a) == row[a] # NoRow
Update(a, from, to) == [row EXCEPT ![a].actual = IF @ \in from THEN to ELSE @]

(* What users are shown: AgentListv2.pagenation_list with one of its filters,
   and the state that cal_state gives each agent of the list.                 *)
GenerateFilter(state) == CASE state = "RUNNING"   -> {"running"}
                           [] state = "STOP"      -> {"paused"}
                           [] state = "UNINSTALL" -> {"offline"}
                           [] OTHER               -> Status
CalState(r) == CASE r.actual = "running" -> "RUNNING"
                 [] r.actual = "paused"  -> "STOP"
                 [] OTHER                -> "UNINSTALL"
QueryAgent(S) == {a \in Agent : Registered(a) /\ row[a].actual \in S}
PagenationList(state) == {[id |-> a, state |-> CalState(row[a])] : a \in QueryAgent(GenerateFilter(state))}

--------------------------------------------------------------------------------
(* The agent process and its project.                                         *)

(* update_or_create leaves the status of an agent that registers again.       *)
Register(a) ==
  /\ process[a] = "down" /\ a \notin gone
  /\ process' = [process EXCEPT ![a] = "running"]
  /\ row' = IF Registered(a) THEN row ELSE [row EXCEPT ![a] = [actual |-> "running", expect |-> "running"]]
  /\ UNCHANGED <<gone, heartbeat, task, beating, edit, sweep, known, edits>>

ProcessChange(a, p) ==
  /\ process[a] \notin {"down", p}
  /\ process' = [process EXCEPT ![a] = p]
  /\ UNCHANGED <<row, gone, heartbeat, task, beating, edit, sweep, known, edits>>

(* ProjectDel.post deletes every agent of the project.                        *)
DeleteProject(S) ==
  /\ \A a \in S : Registered(a)
  /\ row' = [a \in Agent |-> IF a \in S THEN NoRow ELSE row[a]]
  /\ gone' = gone \cup S
  /\ UNCHANGED <<heartbeat, task, process, beating, edit, sweep, known, edits>>

--------------------------------------------------------------------------------
(* A heartbeat: ReportHandler.handler updates the status by isCoreInstalled
   and isCoreRunning, which an agent may omit; the handler then delays the
   task and sets the key.                                                     *)

HeartbeatStatus(a, reported) ==
  /\ process[a] # "down" /\ a \notin beating
  /\ row' = IF reported /\ Registered(a) THEN Update(a, Status, process[a]) ELSE row
  /\ beating' = beating \cup {a}
  /\ UNCHANGED <<gone, heartbeat, task, process, edit, sweep, known, edits>>

(* The Singleton task is dropped while its lock is held.  With returnQueue 1
   no task is delayed, only the key is set.                                   *)
HeartbeatSave(a, returnQueue) ==
  /\ a \in beating
  /\ beating' = beating \ {a}
  /\ IF Registered(a)
       THEN /\ heartbeat' = heartbeat \cup {a}
            /\ task' = IF task[a] = "none" /\ returnQueue # 1 THEN [task EXCEPT ![a] = "queued"] ELSE task
       ELSE UNCHANGED <<heartbeat, task>>
  /\ UNCHANGED <<row, gone, process, edit, sweep, known, edits>>

\* Mutant: the task stores the heartbeat only.
UpdateHeartbeat_DataOnly(a) ==
  /\ task[a] = "queued"
  /\ task' = [task EXCEPT ![a] = "locked"]
  /\ UNCHANGED <<row, gone, heartbeat, process, beating, edit, sweep, known, edits>>

\* update_heartbeat: the foreign key refuses the heartbeat of a deleted agent.
UpdateHeartbeat(a) ==
  /\ task[a] = "queued"
  /\ task' = [task EXCEPT ![a] = "locked"]
  /\ row' = IF Registered(a) THEN Update(a, {"offline"}, "running") ELSE row
  /\ UNCHANGED <<gone, heartbeat, process, beating, edit, sweep, known, edits>>

(* The lock is released after the task, or expires.                           *)
Unlock(a) ==
  /\ task[a] = "locked"
  /\ task' = [task EXCEPT ![a] = "none"]
  /\ UNCHANGED <<row, gone, heartbeat, process, beating, edit, sweep, known, edits>>

(* A key lives 521 seconds, more than a live agent's pause between beats.     *)
HeartbeatExpires(a) ==
  /\ a \in heartbeat /\ process[a] = "down" /\ a \notin beating
  /\ heartbeat' = heartbeat \ {a}
  /\ UNCHANGED <<row, gone, task, process, beating, edit, sweep, known, edits>>

--------------------------------------------------------------------------------
(* update_agent_status: the ids of the agents online, those of them without
   key, and an update without further condition.                              *)

SweepAgents ==
  /\ sweep.step = "idle"
  /\ sweep' = [step |-> "keys", ids |-> {a \in Agent : Registered(a) /\ row[a].actual # "offline"}]
  /\ UNCHANGED <<row, gone, heartbeat, task, process, beating, edit, known, edits>>

SweepKeys ==
  /\ sweep.step = "keys"
  /\ sweep' = [step |-> "update", ids |-> sweep.ids \ heartbeat]
  /\ UNCHANGED <<row, gone, heartbeat, task, process, beating, edit, known, edits>>

SweepUpdate ==
  /\ sweep.step = "update"
  /\ row' = [a \in Agent |-> IF a \in sweep.ids /\ Registered(a) THEN [row[a] EXCEPT !.actual = "offline"] ELSE row[a]]
  /\ sweep' = [step |-> "idle", ids |-> {}]
  /\ UNCHANGED <<gone, heartbeat, task, process, beating, edit, known, edits>>

--------------------------------------------------------------------------------
(* AgentStart.post and AgentStop.post.                                        *)

ReadAgent(w, a, change) ==
  /\ edit[w] = NoEdit /\ edits < MaxEdits
  /\ Registered(a)
  /\ edit' = [edit EXCEPT ![w] = [of |-> {a}, row |-> change]]
  /\ edits' = edits + 1
  /\ UNCHANGED <<row, gone, heartbeat, task, process, beating, sweep, known>>

StartStop(u, a, expected) == ReadAgent(u, a, [row[a] EXCEPT !.expect = expected])

(* actual_running_status, called by the agent.                                *)
ActualRunningStatus(a) ==
  /\ process[a] # "down"
  /\ ReadAgent(a, a, [row[a] EXCEPT !.actual = process[a]])

\* Mutant: without the key of the project a deleted row is inserted again.
SaveAgent_NoKey(w) ==
  /\ edit[w] # NoEdit
  /\ row' = [a \in Agent |-> IF a \in edit[w].of THEN edit[w].row ELSE row[a]]
  /\ edit' = [edit EXCEPT ![w] = NoEdit]
  /\ UNCHANGED <<gone, heartbeat, task, process, beating, sweep, known, edits>>

(* save() writes all columns; for a deleted row it inserts, which the foreign
   key of the project refuses.                                                *)
SaveAgent(w) ==
  /\ edit[w] # NoEdit
  /\ row' = [a \in Agent |-> IF a \in edit[w].of /\ Registered(a) THEN edit[w].row ELSE row[a]]
  /\ edit' = [edit EXCEPT ![w] = NoEdit]
  /\ UNCHANGED <<gone, heartbeat, task, process, beating, sweep, known, edits>>

--------------------------------------------------------------------------------
(* Any other report: IReportHandler.has_permission asks the cached get_agent
   for a running agent; that there is none is cached, too.                    *)

Report(a) ==
  /\ process[a] # "down"
  /\ known[a] = "unknown"
  /\ known' = [known EXCEPT ![a] = IF row[a].actual = "running" THEN "accepted" ELSE "refused"]
  /\ UNCHANGED <<row, gone, heartbeat, task, process, beating, edit, sweep, edits>>

\* Mutant: a refusal is cached without a timeout.
AgentExpires_Accepted(a) ==
  /\ known[a] = "accepted"
  /\ known' = [known EXCEPT ![a] = "unknown"]
  /\ UNCHANGED <<row, gone, heartbeat, task, process, beating, edit, sweep, edits>>

AgentExpires(a) ==
  /\ known[a] # "unknown"
  /\ known' = [known EXCEPT ![a] = "unknown"]
  /\ UNCHANGED <<row, gone, heartbeat, task, process, beating, edit, sweep, edits>>

--------------------------------------------------------------------------------

Sweep == SweepAgents \/ SweepKeys \/ SweepUpdate

Next ==
  \/ \E a \in Agent :
       \/ Register(a) \/ HeartbeatExpires(a) \/ Report(a) \/ AgentExpires(a)
       \/ UpdateHeartbeat(a) \/ Unlock(a) \/ ActualRunningStatus(a)
       \/ \E p \in {"down", "paused", "running"} : ProcessChange(a, p)
       \/ \E reported \in BOOLEAN : HeartbeatStatus(a, reported)
       \/ \E returnQueue \in {0, 1} : HeartbeatSave(a, returnQueue)
       \/ \E u \in User, expected \in {"running", "paused"} : StartStop(u, a, expected)
  \/ \E S \in SUBSET Agent \ {{}} : DeleteProject(S)
  \/ \E w \in Writer : SaveAgent(w)
  \/ Sweep

Spec == Init /\ [][Next]_vars

(* The workers and the caches go on, a request that began ends, and an agent
   process that is up sends heartbeats, some of them with returnQueue 0, and
   other reports.  Nobody must start, stop or delete anything.                *)
FairSpec ==
  /\ Spec /\ WF_vars(Sweep)
  /\ \A w \in Writer : WF_vars(SaveAgent(w))
  /\ \A a \in Agent :
       /\ WF_vars(UpdateHeartbeat(a)) /\ WF_vars(Unlock(a))
       /\ WF_vars(HeartbeatExpires(a)) /\ WF_vars(AgentExpires(a))
       /\ WF_vars(Report(a))
       /\ WF_vars(\E reported \in BOOLEAN : HeartbeatStatus(a, reported))
       /\ SF_vars(HeartbeatSave(a, 0))

--------------------------------------------------------------------------------

(* The rows, the caches and what requests and tasks hold keep their types.    *)
TypeOK ==
  /\ row \in [Agent -> Row \cup {NoRow}]
  /\ gone \subseteq Agent /\ heartbeat \subseteq Agent /\ beating \subseteq Agent
  /\ task \in [Agent -> {"none", "queued", "locked"}]
  /\ process \in [Agent -> {"down", "paused", "running"}]
  /\ edit \in [Writer -> [of: SUBSET Agent, row: Row \cup {NoRow}]]
  /\ sweep \in [step: {"idle", "keys", "update"}, ids: SUBSET Agent]
  /\ known \in [Agent -> {"unknown", "accepted", "refused"}]
  /\ edits \in 0..MaxEdits

(* An agent deleted with its project stays deleted, whatever requests and
   tasks that began before still write.                                       *)
DeletedStaysDeleted == TypeOK /\ \A a \in gone : ~Registered(a)

ShownAs(a, states) == \E state \in states : [id |-> a, state |-> state] \in PagenationList(state)

\* No stale save and no late task keeps a silent agent in the lists of agents that run.
SilentGoesOffline ==
  \A a \in Agent : <>[](process[a] = "down") => []<>~ShownAs(a, {"RUNNING", "STOP"})

\* The sweep may set a live agent offline after its heartbeat, and the task lock may
\* swallow a heartbeat; later heartbeats list it again.
AliveComesBack ==
  \A a \in Agent : <>[](process[a] # "down" /\ Registered(a)) => []<>ShownAs(a, {"RUNNING", "STOP"})

(* Again and again, the lists users see leave out an agent that has fallen silent
   for ever, and show one that stays up.                                      *)
ListsFollowAgents == SilentGoesOffline /\ AliveComesBack

(* The reports of an agent that stays running and says so in its heartbeats are
   accepted again and again: no stale save and no cached refusal keeps the
   server deaf to it.                                                         *)
RunningIsHeard ==
  \A a \in Agent :
    /\ <>[](process[a] = "running" /\ Registered(a))
    /\ []<><<HeartbeatStatus(a, TRUE)>>_vars
    => []<>(known[a] = "accepted")
================================================================================
