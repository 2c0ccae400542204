--------------------------------- MODULE VulLog ---------------------------------
(***************************************************************************)
(* The log of a vulnerability: what users, scans and replays did to its     *)
(* status.  A status is saved by one statement and logged by a later one.   *)
(***************************************************************************)
EXTENDS FiniteSets

CONSTANTS Vul, Worker, \* requests and tasks
          UserStatus   \* statuses users choose

VARIABLES
  status,  \* status of the rows of iast_vulnerability, "none" before there is one
  deleted, \* those with is_del
  given,   \* what statuses were ever saved: pairs
  log,     \* rows of iast_vul_log: type, vulnerability and status
  job,     \* what a worker does: what it was asked, has still to save, has saved
  lost     \* vulnerabilities of workers that were killed

vars == <<status, deleted, given, log, job, lost>>

Idle == [type |-> "idle", asked |-> {}, todo |-> {}, saved |-> {}, read |-> [v \in Vul |-> "none"]]
Exists(v) == status[v] # "none"
Entries(type, S, read) == {[type |-> type, vul |-> v, status |-> read[v]] : v \in S}

Init ==
  /\ status = [v \in Vul |-> "none"] /\ deleted = {} /\ given = {} /\ log = {} /\ lost = {}
  /\ job = [w \in Worker |-> Idle]

Begin(w, type, S, read) ==
  /\ job[w] = Idle
  /\ job' = [job EXCEPT ![w] = [type |-> type, asked |-> S, todo |-> {v \in S \ deleted : Exists(v)},
                                saved |-> {}, read |-> read]]
  /\ UNCHANGED <<status, deleted, given, log, lost>>

\* VulStatus.post and DelVulMany.post read the rows that are not deleted first.
PostStatus(w, S, st) == Begin(w, "CHANGE_STATUS", S, [v \in Vul |-> st])
PostDelete(w, S) == Begin(w, "DELETE", S, status)

(* save() of one row writes all its columns: a status that was read before a
   deletion brings the row back, a deletion writes the status it read.        *)
Save(w) ==
  \E v \in job[w].todo :
    /\ status' = [status EXCEPT ![v] = job[w].read[v]]
    /\ given' = given \cup {<<v, job[w].read[v]>>}
    /\ deleted' = IF job[w].type = "DELETE" THEN deleted \cup {v} ELSE deleted \ {v}
    /\ job' = [job EXCEPT ![w].todo = @ \ {v}, ![w].saved = @ \cup {v}]
    /\ UNCHANGED <<log, lost>>

\* One statement that sets a status, logged later.
SaveStatus(w, type, v, st) ==
  /\ job[w] = Idle
  /\ status' = [status EXCEPT ![v] = st]
  /\ given' = given \cup {<<v, st>>}
  /\ job' = [job EXCEPT ![w] = [type |-> type, asked |-> {v}, todo |-> {}, saved |-> {v},
                                read |-> [x \in Vul |-> st]]]
  /\ UNCHANGED <<deleted, log, lost>>

\* handler_replay_vul, and save_vul for a new row.
Confirm(w, v) == Exists(v) /\ SaveStatus(w, "VUL_RECHECK", v, "CONFIRMED")
Find(w, v) == ~Exists(v) /\ SaveStatus(w, "VUL_FOUND", v, "PENDING")

\* save_vul for a row that exists, from the request of a replay or not.
FindAgain(v) ==
  /\ Exists(v)
  /\ deleted' = deleted \ {v}
  /\ \/ UNCHANGED log
     \/ log' = log \cup Entries("VUL_REPLAY", {v}, [x \in Vul |-> "found"])
  /\ UNCHANGED <<status, given, job, lost>>

\* Mutant: the ids of the request are logged.
Logged_Asked(j) == IF j.type = "DELETE" THEN {} ELSE j.asked
Logged(j) == IF j.type = "DELETE" THEN {} ELSE j.saved

\* log_change_status, log_recheck_vul and log_vul_found.
Log(w) ==
  /\ job[w] # Idle /\ job[w].todo = {}
  /\ log' = log \cup Entries(job[w].type, Logged(job[w]), job[w].read)
  /\ job' = [job EXCEPT ![w] = Idle]
  /\ UNCHANGED <<status, deleted, given, lost>>

(* HeartBeatHandler logs "verifying" when it gives replays to an agent, and
   search_and_save_vul "ignored" before it searches again: neither changes the
   status of the vulnerability.                                               *)
LogOnly(v, st) ==
  /\ Exists(v)
  /\ log' = log \cup Entries("VUL_RECHECK", {v}, [x \in Vul |-> st])
  /\ UNCHANGED <<status, deleted, given, job, lost>>

Crash(w) ==
  /\ job[w] # Idle
  /\ lost' = lost \cup job[w].saved
  /\ job' = [job EXCEPT ![w] = Idle]
  /\ UNCHANGED <<status, deleted, given, log>>

Next ==
  \/ \E w \in Worker :
       \/ \E S \in SUBSET Vul \ {{}} : PostDelete(w, S) \/ \E st \in UserStatus : PostStatus(w, S, st)
       \/ \E v \in Vul : Confirm(w, v) \/ Find(w, v)
       \/ Save(w) \/ Log(w) \/ Crash(w)
  \/ \E v \in Vul : FindAgain(v) \/ \E st \in {"VERIFYING", "IGNORE"} : LogOnly(v, st)

Spec == Init /\ [][Next]_vars

--------------------------------------------------------------------------------
\* VulLogViewSet.list, without and with a msg_type.
List(v) == {e \in log : e.vul = v}
ListOf(v, type) == {e \in List(v) : e.type = type}

(* Requests and scans that overlap, rows that are deleted in between or come back
   with a status read earlier, and workers that are killed do not make the log
   tell of a change by a user that the vulnerability did not go through; and the
   status it has is in its log, unless a worker that saved it has not logged it
   yet or was killed.                                                         *)
LogTells ==
  \A v \in Vul :
    /\ \A e \in ListOf(v, "CHANGE_STATUS") : <<v, e.status>> \in given
    /\ Exists(v) => \/ \E e \in List(v) : e.status = status[v]
                    \/ v \in lost \/ \E w \in Worker : v \in job[w].saved
================================================================================
