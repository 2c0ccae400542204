------------------------------ MODULE DirectFindings ------------------------------
(***************************************************************************)
(* Vulnerabilities that an agent reports as such: those of weak algorithms  *)
(* and cookies (NormalVulnHandler) and hard-coded secrets                   *)
(* (HardEncodeVulHandler).  Handlers of concurrent reports find, write and   *)
(* prune rows without a transaction, while users delete them.               *)
(***************************************************************************)
EXTENDS Naturals, FiniteSets

CONSTANTS Worker,
          Key,        \* callers (normal) or classes (hard-coded) of one version
          MaxReports  \* bound: reports, and with them rows

VARIABLES
  rows,    \* vulnerabilities by id
  headers, \* rows of iast_header_vulnerability, by the vulnerability's id
  logged,  \* vulnerabilities whose discovery was logged and notified
  worker,  \* report a worker handles
  reports,
  removed  \* kinds and keys of the vulnerabilities a user deleted

vars == <<rows, headers, logged, worker, reports, removed>>

Kind == {"normal", "hard"}
Id == 1..MaxReports
(* The column uri holds the key; the update of a hard-coded one assigns a tuple,
   which is stored in writing and equals no key.                              *)
Row == [kind: Kind, key: Key, uri: {"key", "tuple"}, isDel: BOOLEAN, status: {"CONFIRMED", "OTHER"}, counts: 1..MaxReports]
NoRow == [kind |-> "none"]
Idle == [step |-> "idle", kind |-> "normal", id |-> 0, row |-> NoRow]

Exists(i) == rows[i] # NoRow
Of(kind, key) == {i \in Id : Exists(i) /\ rows[i].kind = kind /\ rows[i].key = key}
New(kind, key) == [kind |-> kind, key |-> key, uri |-> "key", isDel |-> FALSE, status |-> "CONFIRMED", counts |-> 1]

Init ==
  /\ rows = [i \in Id |-> NoRow] /\ headers = {} /\ logged = {}
  /\ worker = [w \in Worker |-> Idle] /\ reports = 0 /\ removed = {}

--------------------------------------------------------------------------------
(* NormalVulnHandler.save overlooks rows that are marked as deleted;
   HardEncodeVulHandler.save does not.                                        *)
Candidates(kind, key) ==
  {i \in Of(kind, key) : rows[i].uri = "key" /\ (kind = "normal" => ~rows[i].isDel)}

(* The report of an enabled strategy in the project's template.  Of several
   rows the latest is taken: any of them within a second.                     *)
FindRow(w, kind, key) ==
  /\ worker[w] = Idle /\ reports < MaxReports
  /\ reports' = reports + 1
  /\ \/ /\ Candidates(kind, key) = {}
        /\ worker' = [worker EXCEPT ![w] = [step |-> "create", kind |-> kind, id |-> 0, row |-> New(kind, key)]]
     \/ \E i \in Candidates(kind, key) :
          worker' = [worker EXCEPT ![w] = [step |-> "update", kind |-> kind, id |-> i, row |-> rows[i]]]
  /\ UNCHANGED <<rows, headers, logged, removed>>

CreateRow(w) ==
  /\ worker[w].step = "create"
  /\ \E i \in Id :
       /\ ~Exists(i) /\ i \notin logged /\ \A j \in 1..(i - 1) : Exists(j) \/ j \in logged
       /\ rows' = [rows EXCEPT ![i] = worker[w].row]
       /\ logged' = logged \cup {i}
       /\ worker' = [worker EXCEPT ![w].step = "prune", ![w].id = i]
  /\ UNCHANGED <<headers, reports, removed>>

Updated(row) ==
  IF row.kind = "normal" THEN [row EXCEPT !.counts = @ + 1, !.status = "CONFIRMED"] ELSE [row EXCEPT !.uri = "tuple"]

(* save() of the row that was read: it writes every column, and inserts the row
   again when it is gone.                                                     *)
UpdateRow(w) ==
  /\ worker[w].step = "update"
  /\ rows' = [rows EXCEPT ![worker[w].id] = Updated(worker[w].row)]
  /\ worker' = [worker EXCEPT ![w].step = "prune"]
  /\ UNCHANGED <<headers, logged, reports, removed>>

\* Mutant: every other row goes, not only the older ones.
Older_Others(i, kind, key) == {j \in Candidates(kind, key) \cup Of(kind, key) : j # i}

(* Rows with the uri and a smaller id.  The hard-coded ones are looked up by
   the file, which no row has as its uri.                                     *)
Older(i, kind, key) == IF kind = "hard" THEN {} ELSE {j \in Of(kind, key) : j < i}

PruneOlder(w) ==
  /\ worker[w].step = "prune"
  /\ LET gone == Older(worker[w].id, worker[w].kind, worker[w].row.key)
     IN  rows' = [i \in Id |-> IF i \in gone THEN NoRow ELSE rows[i]]
  /\ worker' = [worker EXCEPT ![w].step = "finish"]
  /\ UNCHANGED <<headers, logged, reports, removed>>

(* A normal report keeps the url it was seen at; a hard-coded one is logged and
   notified each time.                                                        *)
Finish(w) ==
  /\ worker[w].step = "finish"
  /\ headers' = IF worker[w].kind = "normal" THEN headers \cup {worker[w].id} ELSE headers
  /\ worker' = [worker EXCEPT ![w] = Idle]
  /\ UNCHANGED <<rows, logged, reports, removed>>

(* VulDelete.post, and the marks and statuses of other requests.              *)
DeleteRow(i) ==
  /\ Exists(i)
  /\ rows' = [rows EXCEPT ![i] = NoRow]
  /\ removed' = removed \cup {<<rows[i].kind, rows[i].key>>}
  /\ UNCHANGED <<headers, logged, worker, reports>>

EditRow(i, isDel, status) ==
  /\ Exists(i)
  /\ rows' = [rows EXCEPT ![i].isDel = isDel, ![i].status = status]
  /\ removed' = IF isDel THEN removed \cup {<<rows[i].kind, rows[i].key>>} ELSE removed
  /\ UNCHANGED <<headers, logged, worker, reports>>

Next ==
  \/ \E w \in Worker :
       \/ \E kind \in Kind, key \in Key : FindRow(w, kind, key)
       \/ CreateRow(w) \/ UpdateRow(w) \/ PruneOlder(w) \/ Finish(w)
  \/ \E i \in Id : DeleteRow(i) \/ EditRow(i, TRUE, rows[i].status) \/ EditRow(i, FALSE, "OTHER")

Spec == Init /\ [][Next]_vars

--------------------------------------------------------------------------------
(* A reported vulnerability that no user deletes has a row, however the reports
   interleave: the handlers prune only older rows, so the newest is never lost
   to another handler.                                                        *)
FindingStep ==
  \A kind \in Kind, key \in Key :
    Of(kind, key) # {} /\ <<kind, key>> \notin removed' => Of(kind, key)' # {}
================================================================================
