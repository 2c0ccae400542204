------------------------------- MODULE VulSearch -------------------------------
(***************************************************************************)
(* The list of vulnerabilities and its keyword search.  The search index is *)
(* rebuilt by a task that every save or deletion queues; a lock, which      *)
(* expires before the task is due, keeps it from being queued twice.        *)
(* The list has an order and the hits of the index have another one.        *)
(***************************************************************************)
EXTENDS Naturals, FiniteSetsExt

CONSTANTS Vul, Project, User, Status,
          Sees,     \* user -> the projects of get_projects
          ProjectOf,
          PageSize,
          MaxQueued, \* bound: tasks queued
          None

VARIABLES rows,    \* IastVulnerabilityModel: status and is_del, None if no row
          index,   \* documents of the index: the status of each, None if none
          lock,    \* the lock of the Singleton task
          queued,  \* tasks queued
          running  \* the documents a task read; late: queued tasks due after it ends

vars == <<rows, index, lock, queued, running>>

Docs == [v \in Vul |-> IF rows[v] = None \/ rows[v].is_del THEN None ELSE rows[v].status]

Init ==
  /\ rows = [v \in Vul |-> None] /\ index = [v \in Vul |-> None]
  /\ lock = FALSE /\ queued = 0 /\ running = None

--------------------------------------------------------------------------------
(* Writes.                                                                    *)

(* update_vul_tantivy_index_receiver.  A task is due 120 s after it was queued
   and the lock expires after 20 s; no build is assumed to take the 100 s
   between, so one that was queued, or would have been, during a build is due
   after it.                                                                  *)
Signal ==
  /\ lock' = TRUE
  /\ queued' = IF lock THEN queued ELSE queued + 1
  /\ running' = IF running = None THEN None
                ELSE [running EXCEPT !.late = IF lock THEN Max({@, 1}) ELSE @ + 1]

Write(r) == rows' = r /\ Signal /\ queued' <= MaxQueued /\ UNCHANGED index

Undeleted(u) == {v \in Vul : /\ rows[v] # None /\ ProjectOf[v] \in Sees[u]
                             /\ ~rows[v].is_del}

(* A scan creates the vulnerability or finds it again, deleted or not.        *)
Save(v) ==
  Write([rows EXCEPT ![v] = IF @ = None THEN [status |-> "pending", is_del |-> FALSE]
                                        ELSE [@ EXCEPT !.is_del = FALSE]])

VulStatus(u, v, s) == v \in Undeleted(u) /\ Write([rows EXCEPT ![v].status = s])

DelVulMany(u, S) ==
  /\ S \cap Undeleted(u) # {}
  /\ Write([v \in Vul |-> IF v \in S \cap Undeleted(u) THEN [rows[v] EXCEPT !.is_del = TRUE] ELSE rows[v]])

VulDelete(u, v) ==
  /\ rows[v] # None /\ ProjectOf[v] \in Sees[u]
  /\ Write([rows EXCEPT ![v] = None])

--------------------------------------------------------------------------------
(* update_vul_tantivy_index.                                                  *)

LockExpires == lock /\ lock' = FALSE /\ UNCHANGED <<rows, index, queued, running>>

(* The lock is that of the task queued last.                                  *)
Due == queued > 1 \/ (queued = 1 /\ ~lock)

\* Mutant: a task is due before the lock expires.
BuildReads_Early ==
  /\ running = None /\ queued > 0
  /\ running' = [docs |-> Docs, late |-> 0] /\ queued' = queued - 1
  /\ UNCHANGED <<rows, index, lock>>

BuildReads ==
  /\ running = None /\ Due
  /\ running' = [docs |-> Docs, late |-> 0] /\ queued' = queued - 1
  /\ UNCHANGED <<rows, index, lock>>

BuildCommits ==
  /\ running # None
  /\ index' = running.docs /\ running' = None /\ lock' = FALSE
  /\ UNCHANGED <<rows, queued>>

(* The index has one writer: a second build fails, and is not repeated.       *)
BuildFails ==
  /\ running # None /\ Due /\ queued > running.late
  /\ queued' = queued - 1 /\ lock' = FALSE
  /\ UNCHANGED <<rows, index, running>>

--------------------------------------------------------------------------------
(* Reads.                                                                     *)

Query == [status : SUBSET Status \ {{}}, project : SUBSET Project \ {{}}]

\* The list is ordered by level and time, or a field the user chooses; the index orders
\* its hits by relevance, or by one field alone.
Orders == Injection(Vul, 1..Cardinality(Vul))

Page(S, n, by) == {v \in S : LET rank == Cardinality({x \in S : by[x] <= by[v]})
                             IN  (n - 1) * PageSize < rank /\ rank <= n * PageSize}

\* Without keywords the filters are those of the database.
List(u, q) == {v \in Undeleted(u) : rows[v].status \in q.status /\ ProjectOf[v] \in q.project}
ListPage(u, q, n, order) == Page(List(u, q), n, order)

(* With keywords the filters are those of the index, which knows no users;
   the keywords match every title here.                                       *)
Hits(q) == {v \in Vul : index[v] \in q.status /\ ProjectOf[v] \in q.project}

(* The page of the hits, in the order of the index, is cut by user; then the same
   page, in the order of the list, is taken of it: any but the first is empty. *)
SearchPage(u, q, n, by, order) == Page(Page(Hits(q), n, by) \cap Undeleted(u), n, order)

\* get_annotate_data: the count of a status in a project.
Summary(u, p, s) == Cardinality({v \in Undeleted(u) : rows[v].status = s /\ ProjectOf[v] = p})

\* VulDetail.get_vul: deleted ones, too.
Detail(u) == {v \in Vul : rows[v] # None /\ ProjectOf[v] \in Sees[u]}

Next ==
  \/ \E v \in Vul : Save(v)
  \/ \E u \in User, v \in Vul, s \in Status : VulStatus(u, v, s)
  \/ \E u \in User, S \in SUBSET Vul : DelVulMany(u, S)
  \/ \E u \in User, v \in Vul : VulDelete(u, v)
  \/ LockExpires
  \/ BuildReads
  \/ BuildCommits
  \/ BuildFails

Spec == Init /\ [][Next]_vars

--------------------------------------------------------------------------------
(* When no build is queued or running the index has what the table has: no
   save is lost by the lock, by a build that read before it, or by a build that
   found another one writing.                                                 *)
IndexCatchesUp == queued = 0 /\ running = None => index = Docs

(* Whatever the index says, a search shows rows the user may open, that are
   not deleted.                                                               *)
SearchShowsOwn ==
  \A u \in User, q \in Query, n \in 1..2, by \in Orders, order \in Orders :
    \A v \in SearchPage(u, q, n, by, order) : v \in Detail(u) /\ ~rows[v].is_del

(* Where the index is up to date and no hit belongs to others, the first page of
   a search has as many rows as the first page of the list, all of them rows of
   the list.  It is the same page where the list fits on one; else it may be
   another choice of rows, for the hits were cut in the order of the index.    *)
SearchAgrees ==
  index = Docs => \A u \in User, q \in Query, by \in Orders, order \in Orders :
    LET shown == SearchPage(u, q, 1, by, order)
        first == ListPage(u, q, 1, order)
    IN  q.project \subseteq Sees[u] =>
          /\ shown \subseteq List(u, q) /\ Cardinality(shown) = Cardinality(first)
          /\ Cardinality(List(u, q)) <= PageSize => shown = first

(* The summary next to the list counts what the list shows.                   *)
SummaryAgrees ==
  \A u \in User, p \in Project, s \in Status :
    Summary(u, p, s) = Cardinality(List(u, [status |-> {s}, project |-> {p}]))

\* What is promised of list, search and index together.
ViewsAgree == IndexCatchesUp /\ SearchShowsOwn /\ SearchAgrees /\ SummaryAgrees
================================================================================
