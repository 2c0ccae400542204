------------------------------- MODULE Retention -------------------------------
(***************************************************************************)
(* The clean-up of method pools (data_cleanup), scheduled by the settings   *)
(* of DataCleanEndpoint or asked for at once.  Without elastic search it    *)
(* deletes ranges of ids, concurrently, between the oldest and the newest   *)
(* expired pool; with it, chunks of expired pools.                          *)
(***************************************************************************)
EXTENDS Naturals, FiniteSetsExt

CONSTANTS Cleaner,  \* clean-ups that may run at once
          Days,     \* days_before a user may ask for
          Batch,    \* DELETE_BATCH_SIZE, and the literal 10000
          MaxPools, \* bound: pools uploaded
          MaxAge,   \* bound: age after which a pool does not grow older, nor a clean-up go on
          MaxRuns,  \* bound: clean-ups
          None

VARIABLES elastic,  \* ELASTICSEARCH_STATE
          age,      \* days since update_time of the rows of iast_agent_method_pool
          uploaded, \* ids given
          schedule, \* the periodic task: days, or None when it is disabled
          cleaner,  \* what each clean-up does
          cleanups

vars == <<elastic, age, uploaded, schedule, cleaner, cleanups>>

Id == 1..MaxPools
Rows == {i \in Id : age[i] # None}
Expired(days) == {i \in Rows : age[i] >= days}
Idle == [at |-> "idle"]

Init ==
  /\ elastic \in BOOLEAN
  /\ age = [i \in Id |-> None] /\ uploaded = 0
  /\ schedule \in Days
  /\ cleaner = [c \in Cleaner |-> Idle] /\ cleanups = 0

--------------------------------------------------------------------------------
(* Uploads, time and users.                                                   *)

\* save_method_call takes the time before it inserts the row.
Upload(delay) ==
  /\ uploaded < MaxPools
  /\ uploaded' = uploaded + 1
  /\ age' = [age EXCEPT ![uploaded'] = delay]
  /\ UNCHANGED <<elastic, schedule, cleaner, cleanups>>

(* The time before which a running clean-up deletes stays: it is a day further back.
   Within the bound of the ages none is further back than MaxAge.              *)
Day ==
  /\ \E i \in Rows : age[i] < MaxAge
  /\ \A c \in Cleaner : cleaner[c] # Idle => cleaner[c].days < MaxAge
  /\ age' = [i \in Id |-> IF i \in Rows /\ age[i] < MaxAge THEN age[i] + 1 ELSE age[i]]
  /\ cleaner' = [c \in Cleaner |-> IF cleaner[c] = Idle THEN Idle ELSE [cleaner[c] EXCEPT !.days = @ + 1]]
  /\ UNCHANGED <<elastic, uploaded, schedule, cleanups>>

ChangeSchedule(days) ==
  /\ schedule' = days
  /\ UNCHANGED <<elastic, age, uploaded, cleaner, cleanups>>

--------------------------------------------------------------------------------
(* data_cleanup.                                                              *)

Begin(c, days) ==
  /\ cleaner[c] = Idle /\ cleanups < MaxRuns
  /\ cleanups' = cleanups + 1
  /\ cleaner' = [cleaner EXCEPT ![c] =
       LET due == Expired(days)
       IN  IF elastic
           THEN [at |-> "chunk", days |-> days, due |-> due, start |-> 0]
           ELSE [at |-> "first", days |-> days, due |-> due, latest |-> IF due = {} THEN 0 ELSE Max(due)]]
  /\ UNCHANGED <<elastic, age, uploaded, schedule>>

Beat(c) == schedule # None /\ Begin(c, schedule)

DoItNow(c, days) == Begin(c, days)

\* range(lower_id, upper_id, batch_size): each is the lower end of a chunk.
Lows(first, latest) == {i \in Id : i >= first /\ i < latest /\ (i - first) % Batch = 0}

(* The second query.  The rows may be gone since the first.                   *)
ReadFirst(c) ==
  /\ cleaner[c].at = "first"
  /\ LET due  == Expired(cleaner[c].days)
         lows == IF due = {} THEN {} ELSE Lows(Min(due), cleaner[c].latest)
     IN  cleaner' = [cleaner EXCEPT ![c] =
           [at |-> "ranges", days |-> @.days, due |-> @.due, latest |-> @.latest, lows |-> lows]]
  /\ UNCHANGED <<elastic, age, uploaded, schedule, cleanups>>

Delete(S) == age' = [i \in Id |-> IF i \in S THEN None ELSE age[i]]

\* Mutant: the upper end is deleted, too.
DeleteRange_Closed(c) ==
  /\ cleaner[c].at = "ranges"
  /\ \E low \in cleaner[c].lows :
       /\ Delete(low..(low + Batch))
       /\ cleaner' = [cleaner EXCEPT ![c].lows = @ \ {low}]
  /\ UNCHANGED <<elastic, uploaded, schedule, cleanups>>

(* data_clean_batch, each in a thread of its own: the ids of a chunk, expired
   or not; the last chunk may pass the newest expired pool.                   *)
DeleteRange(c) ==
  /\ cleaner[c].at = "ranges"
  /\ \E low \in cleaner[c].lows :
       /\ Delete(low..(low + Batch - 1))
       /\ cleaner' = [cleaner EXCEPT ![c].lows = @ \ {low}]
  /\ UNCHANGED <<elastic, uploaded, schedule, cleanups>>

(* chunked_queryset: the next chunk of rows not updated since.                 *)
DeleteChunk(c) ==
  /\ cleaner[c].at = "chunk"
  /\ LET left == {i \in Expired(cleaner[c].days) : i > cleaner[c].start}
         end  == IF Cardinality(left) < Batch THEN Max(left) ELSE Min({i \in left : Cardinality({j \in left : j <= i}) = Batch})
     IN  /\ left # {}
         /\ Delete({i \in left : i <= end})
         /\ cleaner' = [cleaner EXCEPT ![c].start = end]
  /\ UNCHANGED <<elastic, uploaded, schedule, cleanups>>

Done(c) ==
  \/ cleaner[c].at = "ranges" /\ cleaner[c].lows = {}
  \/ cleaner[c].at = "chunk" /\ \A i \in Expired(cleaner[c].days) : i <= cleaner[c].start

Finish(c) ==
  /\ Done(c)
  /\ cleaner' = [cleaner EXCEPT ![c] = Idle]
  /\ UNCHANGED <<elastic, age, uploaded, schedule, cleanups>>

Next ==
  \/ \E delay \in {0, 1} : Upload(delay)
  \/ Day
  \/ \E days \in Days \cup {None} : ChangeSchedule(days)
  \/ \E c \in Cleaner : \/ Beat(c) \/ ReadFirst(c) \/ DeleteRange(c) \/ DeleteChunk(c) \/ Finish(c)
                        \/ \E days \in Days : DoItNow(c, days)

Spec == Init /\ [][Next]_vars

--------------------------------------------------------------------------------
(* When a clean-up is done the pools that were expired when it began are gone,
   whatever another one deletes meanwhile; without elastic search the newest
   of them may stay, until a newer one is expired.                            *)
ExpiredAreGone ==
  \A c \in Cleaner : cleaner[c] # Idle /\ Done(c) =>
    \A i \in cleaner[c].due \cap Rows : ~elastic /\ i = cleaner[c].latest

(* A pool that is not expired is deleted only without elastic search, where its
   id is below that of the newest expired pool or less than a batch behind it. *)
FreshDeletedNearExpired ==
  \A i \in Rows : age'[i] = None =>
    \E c \in Cleaner : /\ cleaner[c] # Idle
                       /\ age[i] >= cleaner[c].days \/ (~elastic /\ i + 1 < cleaner[c].latest + Batch)

\* What a clean-up promises in each step.
CleanUpStep == ExpiredAreGone' /\ FreshDeletedNearExpired
================================================================================
