-------------------------------- MODULE VulStore --------------------------------
(***************************************************************************)
(* Storage of the vulnerabilities that scans find, iast_vulnerability.     *)
(*                                                                         *)
(* Two functions named save_vul store what a scan has seen: the one of     *)
(* vul_handler.py for tainted flows, the one of strategy_headers.py for    *)
(* response headers and sensitive data.  Both look for a row and update or *)
(* create it, guarded by a redis key (cache.get_or_set, a get, an add      *)
(* which fails when the key is there, and a second get that falls back on  *)
(* the caller's own value), and delete the key at the end.  At the same    *)
(* time users change, soft-delete and delete rows.                         *)
(***************************************************************************)
EXTENDS Integers, FiniteSets

CONSTANTS
  Vul,          \* vulnerabilities of a project version: what the lookup tells apart
  Identity,     \* vulnerabilities of a project: what the ignore check tells apart
  Ident,        \* the Identity of each Vul
  Taint,        \* those of vul_handler.save_vul; the others are strategy_headers'
  Sighting,     \* method pools that show a vulnerability
  Replayed,     \* those that agents uploaded for a replay: IastAgentMethodPoolReplay
  Lock,         \* cache keys
  VulOf, LockOf,\* of a sighting: the vulnerability it shows, the key it takes
  Worker,       \* workers of search_vul_from_method_pool
  User,         \* users, each with one request
  UserStatus,   \* statuses users choose
  HardDelete,   \* whether users delete rows (vul_delete.py)
  SlowWorker,   \* whether a key may expire under a worker that uses it
  NoVul, NoSighting,
  MaxRows,      \* bound: rows ever created
  MaxCount,     \* bound: a row's counts stays there
  MaxQueued,    \* bound: messages of a sighting
  MaxCrashes    \* bound: worker crashes

ASSUME StoreAssumption ==
  /\ Ident \in [Vul -> Identity] /\ Taint \subseteq Vul
  /\ VulOf \in [Sighting -> Vul] /\ LockOf \in [Sighting -> Lock]
  /\ Replayed \subseteq {s \in Sighting : VulOf[s] \in Taint}
  /\ UserStatus \subseteq {"PENDING", "CONFIRMED", "IGNORE"}
  /\ HardDelete \in BOOLEAN /\ SlowWorker \in BOOLEAN
  /\ NoVul \notin Vul /\ NoSighting \notin Sighting
  /\ MaxRows \in Nat /\ MaxCount \in Nat \ {0} /\ MaxQueued \in Nat /\ MaxCrashes \in Nat
  /\ {"free", "left"} \cap Worker = {}

(* The key of vul_handler.save_vul is made of the columns its lookup filters on,
   no column more and none less.                                             *)
ASSUME TaintLockAssumption ==
  \A s, t \in Sighting : VulOf[s] \in Taint =>
    (VulOf[s] = VulOf[t] <=> LockOf[s] = LockOf[t])

VARIABLES
  rows,     \* iast_vulnerability, by auto-increment id
  lastId,   \* last id given
  pools,    \* pools kept for a row: VulMethodPool, or IastHeaderVulnerability
  cache,    \* who holds a key; "left" when its holder went away without deleting it
  messages, \* search_vul_from_method_pool messages of a sighting
  worker,   \* save_vul, one per scan worker
  user,     \* the request of each user
  crashes   \* worker crashes so far

tables == <<rows, lastId, pools>>
vars == <<rows, lastId, pools, cache, messages, worker, user, crashes>>

RowId == 1..MaxRows
Row == [vul: Vul \cup {NoVul}, status: {"NONE", "PENDING", "CONFIRMED", "IGNORE"},
        counts: 0..MaxCount, isDel: BOOLEAN, seen: Sighting \cup {NoSighting}]
NoRow == [vul |-> NoVul, status |-> "NONE", counts |-> 0, isDel |-> FALSE, seen |-> NoSighting]

Exists(r) == rows[r] # NoRow
RowsOf(v) == {r \in RowId : Exists(r) /\ rows[r].vul = v}
AddOne(n) == IF n < MaxCount THEN n + 1 ELSE n

\* ignored is history: the vulnerability at hand was ignored all along.
IdleWorker == [pc |-> "idle", sighting |-> NoSighting, row |-> 0, counts |-> 0, ignored |-> FALSE]
IdleUser   == [pc |-> "idle", row |-> 0, copy |-> NoRow]

VulAt(w)  == VulOf[worker[w].sighting]
LockAt(w) == LockOf[worker[w].sighting]

\* Rows of any version of the project, deleted ones too, that users set to IGNORE.
IgnoredIn(table, v) ==
  \E r \in RowId : table[r].status = "IGNORE" /\ Ident[table[r].vul] = Ident[v]

Init ==
  /\ rows = [r \in RowId |-> NoRow]
  /\ lastId = 0
  /\ pools = [r \in RowId |-> {}]
  /\ cache = [l \in Lock |-> "free"]
  /\ messages = [s \in Sighting |-> 0]
  /\ worker = [w \in Worker |-> IdleWorker]
  /\ user = [u \in User |-> IdleUser]
  /\ crashes = 0

--------------------------------------------------------------------------------
(* A scan reaches save_vul.                                                  *)

(* A method pool is uploaded, or uploaded again, and its scan is queued.     *)
QueueScan(s) ==
  /\ messages[s] < MaxQueued
  /\ messages' = [messages EXCEPT ![s] = @ + 1]
  /\ UNCHANGED <<tables, cache, worker, user, crashes>>

\* Mutant: a message is taken although none is there.
StartSave_NoMessage(w, s) ==
  /\ worker[w].pc = "idle"
  /\ messages' = [messages EXCEPT ![s] = @ - 1]
  /\ UNCHANGED <<tables, cache, worker, user, crashes>>

(* get_or_set, the first get: somebody's key ends this save at once.         *)
StartSave(w, s) ==
  /\ worker[w].pc = "idle"
  /\ messages[s] > 0
  /\ messages' = [messages EXCEPT ![s] = @ - 1]
  /\ \/ /\ cache[LockOf[s]] # "free"
        /\ UNCHANGED worker
     \/ /\ cache[LockOf[s]] = "free"
        /\ worker' = [worker EXCEPT ![w] = [IdleWorker EXCEPT
             !.pc = "add", !.sighting = s, !.ignored = IgnoredIn(rows, VulOf[s])]]
  /\ UNCHANGED <<tables, cache, user, crashes>>

\* Mutant: set instead of add, the key of another worker is overwritten.
AddKey_Overwrites(w) ==
  /\ worker[w].pc = "add"
  /\ cache' = [cache EXCEPT ![LockAt(w)] = w]
  /\ worker' = [worker EXCEPT ![w].pc = "check"]
  /\ UNCHANGED <<tables, messages, user, crashes>>

(* get_or_set, the add: it leaves a key that is there alone.                 *)
AddKey(w) ==
  /\ worker[w].pc = "add"
  /\ cache' = [cache EXCEPT ![LockAt(w)] = IF @ = "free" THEN w ELSE @]
  /\ worker' = [worker EXCEPT ![w].pc = "check"]
  /\ UNCHANGED <<tables, messages, user, crashes>>

\* Mutant: the value compared is not the one that was offered to the cache.
CheckKey_NewValue(w) ==
  /\ worker[w].pc = "check"
  /\ cache[LockAt(w)] # "free"
  /\ worker' = [worker EXCEPT ![w] = IdleWorker]
  /\ UNCHANGED <<tables, cache, messages, user, crashes>>

(* get_or_set, the second get.  The worker goes on with its own key, and also
   when the key is gone again: get falls back on the worker's value.         *)
CheckKey(w) ==
  /\ worker[w].pc = "check"
  /\ worker' = [worker EXCEPT ![w] =
       IF cache[LockAt(w)] \in {"free", w}
         THEN [@ EXCEPT !.pc = IF VulAt(w) \in Taint THEN "ignore" ELSE "find"]
         ELSE IdleWorker]
  /\ UNCHANGED <<tables, cache, messages, user, crashes>>

\* A worker that leaves without deleting its key leaves it to expire.
KeyLeftBy(w) == [l \in Lock |-> IF cache[l] = w THEN "left" ELSE cache[l]]

\* Mutant: ignored rows are looked for in the version at hand only.
CheckIgnore_Version(w) ==
  /\ worker[w].pc = "ignore"
  /\ \/ /\ \E r \in RowsOf(VulAt(w)) : rows[r].status = "IGNORE"
        /\ worker' = [worker EXCEPT ![w] = IdleWorker]
        /\ cache' = KeyLeftBy(w)
     \/ /\ \A r \in RowsOf(VulAt(w)) : rows[r].status # "IGNORE"
        /\ worker' = [worker EXCEPT ![w].pc = "find"]
        /\ UNCHANGED cache
  /\ UNCHANGED <<tables, messages, user, crashes>>

(* Nothing is stored for what the project ignores, and the key is not deleted. *)
CheckIgnore(w) ==
  /\ worker[w].pc = "ignore"
  /\ \/ /\ IgnoredIn(rows, VulAt(w))
        /\ worker' = [worker EXCEPT ![w] = IdleWorker]
        /\ cache' = KeyLeftBy(w)
     \/ /\ ~IgnoredIn(rows, VulAt(w))
        /\ worker' = [worker EXCEPT ![w].pc = "find"]
        /\ UNCHANGED cache
  /\ UNCHANGED <<tables, messages, user, crashes>>

--------------------------------------------------------------------------------
(* Find, then update or create.                                              *)

\* Mutant: rows that users deleted are not found.
FindRow_NotDeleted(w) ==
  LET found == {r \in RowsOf(VulAt(w)) : ~rows[r].isDel}
  IN  /\ worker[w].pc = "find"
      /\ \/ \E r \in found : worker' = [worker EXCEPT ![w] =
              [@ EXCEPT !.pc = "update", !.row = r, !.counts = rows[r].counts]]
         \/ /\ found = {}
            /\ worker' = [worker EXCEPT ![w].pc = "create"]
      /\ UNCHANGED <<tables, cache, messages, user, crashes>>

(* The latest row of the vulnerability; which one is open when there are
   several (latest_time is in seconds).                                      *)
FindRow(w) ==
  /\ worker[w].pc = "find"
  /\ \/ \E r \in RowsOf(VulAt(w)) : worker' = [worker EXCEPT ![w] =
          [@ EXCEPT !.pc = "update", !.row = r, !.counts = rows[r].counts]]
     \/ /\ RowsOf(VulAt(w)) = {}
        /\ worker' = [worker EXCEPT ![w].pc = "create"]
  /\ UNCHANGED <<tables, cache, messages, user, crashes>>

\* save(update_fields) of either function: only the taint one clears is_del.
TaintUpdated(row, s, counts) ==
  [row EXCEPT !.counts = AddOne(counts), !.seen = s, !.isDel = FALSE]
HeaderUpdated(row, s, counts) == [row EXCEPT !.counts = AddOne(counts), !.seen = s]

AfterWrite(v) == IF v \in Taint THEN "pool" ELSE "release"

\* Mutant: what is seen again is pending again.
UpdateRow_Status(w) ==
  LET r == worker[w].row
      s == worker[w].sighting
  IN  /\ worker[w].pc = "update"
      /\ Exists(r)
      /\ rows' = [rows EXCEPT ![r] = [TaintUpdated(@, s, worker[w].counts)
                                        EXCEPT !.status = "PENDING"]]
      /\ worker' = [worker EXCEPT ![w].pc = AfterWrite(VulAt(w))]
      /\ UNCHANGED <<lastId, pools, cache, messages, user, crashes>>

(* Updating the columns of a row that is gone raises and ends the scan.      *)
UpdateRow(w) ==
  LET r == worker[w].row
      s == worker[w].sighting
  IN  /\ worker[w].pc = "update"
      /\ \/ /\ ~Exists(r)
            /\ worker' = [worker EXCEPT ![w] = IdleWorker]
            /\ cache' = KeyLeftBy(w)
            /\ UNCHANGED rows
         \/ /\ Exists(r)
            /\ rows' = [rows EXCEPT ![r] = IF VulAt(w) \in Taint
                 THEN TaintUpdated(@, s, worker[w].counts)
                 ELSE HeaderUpdated(@, s, worker[w].counts)]
            /\ worker' = [worker EXCEPT ![w].pc = AfterWrite(VulAt(w))]
            /\ UNCHANGED cache
      /\ UNCHANGED <<lastId, pools, messages, user, crashes>>

TaintRow(v, s)  == [vul |-> v, status |-> "PENDING", counts |-> 1, isDel |-> FALSE, seen |-> s]
HeaderRow(v, s) == [vul |-> v, status |-> "CONFIRMED", counts |-> 1, isDel |-> FALSE, seen |-> s]

\* Mutant: the new row is taken as complete.
CreateRow_NoPool(w) ==
  /\ worker[w].pc = "create"
  /\ lastId < MaxRows
  /\ lastId' = lastId + 1
  /\ rows' = [rows EXCEPT ![lastId + 1] = TaintRow(VulAt(w), worker[w].sighting)]
  /\ worker' = [worker EXCEPT ![w] = [@ EXCEPT !.pc = "release", !.row = lastId + 1]]
  /\ UNCHANGED <<pools, cache, messages, user, crashes>>

CreateRow(w) ==
  LET s == worker[w].sighting
  IN  /\ worker[w].pc = "create"
      /\ lastId < MaxRows
      /\ lastId' = lastId + 1
      /\ rows' = [rows EXCEPT ![lastId + 1] =
           IF VulAt(w) \in Taint THEN TaintRow(VulAt(w), s) ELSE HeaderRow(VulAt(w), s)]
      /\ worker' = [worker EXCEPT ![w] =
           [@ EXCEPT !.pc = AfterWrite(VulAt(w)), !.row = lastId + 1]]
      /\ UNCHANGED <<pools, cache, messages, user, crashes>>

(* A taint row keeps the pool it was last seen in, a header row one entry per
   url; the header function does this after it has deleted the key.          *)
StorePool(w) ==
  LET s == worker[w].sighting
  IN  /\ worker[w].pc = "pool"
      /\ s \notin Replayed
      /\ pools' = [pools EXCEPT ![worker[w].row] =
           IF VulAt(w) \in Taint THEN {s} ELSE @ \cup {s}]
      /\ worker' = [worker EXCEPT ![w] =
           IF VulAt(w) \in Taint THEN [@ EXCEPT !.pc = "release"] ELSE IdleWorker]
      /\ UNCHANGED <<rows, lastId, cache, messages, user, crashes>>

(* The pool of a replay has no req_header_fs to copy: the row is written by now,
   and the scan ends here, without a pool for it and with the key in place.  *)
StorePoolRaises(w) ==
  /\ worker[w].pc = "pool"
  /\ worker[w].sighting \in Replayed
  /\ worker' = [worker EXCEPT ![w] = IdleWorker]
  /\ cache' = KeyLeftBy(w)
  /\ UNCHANGED <<tables, messages, user, crashes>>

(* cache.delete, whoever the key belongs to by now.                          *)
ReleaseKey(w) ==
  /\ worker[w].pc = "release"
  /\ cache' = [cache EXCEPT ![LockAt(w)] = "free"]
  /\ worker' = [worker EXCEPT ![w] =
       IF VulAt(w) \in Taint THEN IdleWorker ELSE [@ EXCEPT !.pc = "pool"]]
  /\ UNCHANGED <<tables, messages, user, crashes>>

SaveVul(w) ==
  \/ AddKey(w) \/ CheckKey(w) \/ CheckIgnore(w) \/ FindRow(w)
  \/ UpdateRow(w) \/ CreateRow(w) \/ StorePool(w) \/ StorePoolRaises(w)
  \/ ReleaseKey(w)

--------------------------------------------------------------------------------
(* The cache, crashes and users.                                             *)

\* Nobody is between the add and the second get, or at work under his own key.
Unused(l) ==
  \A w \in Worker : /\ worker[w].pc # "idle" => cache[l] # w
                    /\ worker[w].pc = "check" => LockAt(w) # l

(* A key lives for the cache's default timeout of 300 seconds.               *)
ExpireKey(l) ==
  /\ cache[l] # "free"
  /\ SlowWorker \/ Unused(l)
  /\ cache' = [cache EXCEPT ![l] = "free"]
  /\ UNCHANGED <<tables, messages, worker, user, crashes>>

(* A worker is killed; its message is delivered again (task_acks_late).      *)
Crash(w) ==
  /\ crashes < MaxCrashes
  /\ worker[w].pc # "idle"
  /\ crashes' = crashes + 1
  /\ messages' = [messages EXCEPT ![worker[w].sighting] = @ + 1]
  /\ worker' = [worker EXCEPT ![w] = IdleWorker]
  /\ cache' = KeyLeftBy(w)
  /\ UNCHANGED <<tables, user>>

\* The workers once users have changed the table: who has seen his vulnerability
\* ignored all along, and does so still.
Noticed(table) ==
  [w \in Worker |-> [worker[w] EXCEPT !.ignored = @ /\ IgnoredIn(table, VulAt(w))]]

(* VulStatus.post reads whole rows that are not deleted and sets their status. *)
ReadForStatus(u, r, status) ==
  /\ user[u].pc = "idle"
  /\ Exists(r) /\ ~rows[r].isDel
  /\ user' = [user EXCEPT ![u] =
       [pc |-> "status", row |-> r, copy |-> [rows[r] EXCEPT !.status = status]]]
  /\ UNCHANGED <<tables, cache, messages, worker, crashes>>

(* DelVulMany.post and DelVulProjectLevel.post do the same with is_del.      *)
ReadForDelete(u, r) ==
  /\ user[u].pc = "idle"
  /\ Exists(r) /\ ~rows[r].isDel
  /\ user' = [user EXCEPT ![u] =
       [pc |-> "delete", row |-> r, copy |-> [rows[r] EXCEPT !.isDel = TRUE]]]
  /\ UNCHANGED <<tables, cache, messages, worker, crashes>>

(* vul.save() writes every column of the object read before, and inserts the
   row again when it is gone.                                                *)
SaveCopy(u) ==
  /\ user[u].pc # "idle"
  /\ rows' = [rows EXCEPT ![user[u].row] = user[u].copy]
  /\ user' = [user EXCEPT ![u] = IdleUser]
  /\ worker' = Noticed(rows')
  /\ UNCHANGED <<lastId, pools, cache, messages, crashes>>

(* VulDelete.post, with the cascade to VulMethodPool.                        *)
DeleteRow(r) ==
  /\ HardDelete
  /\ Exists(r)
  /\ rows' = [rows EXCEPT ![r] = NoRow]
  /\ pools' = [pools EXCEPT ![r] = IF rows[r].vul \in Taint THEN {} ELSE @]
  /\ worker' = Noticed(rows')
  /\ UNCHANGED <<lastId, cache, messages, user, crashes>>

UserStep ==
  \/ \E u \in User, r \in RowId :
       ReadForDelete(u, r) \/ \E status \in UserStatus : ReadForStatus(u, r, status)
  \/ \E u \in User : SaveCopy(u)
  \/ \E r \in RowId : DeleteRow(r)

Next ==
  \/ \E s \in Sighting : QueueScan(s) \/ \E w \in Worker : StartSave(w, s)
  \/ \E w \in Worker : SaveVul(w) \/ Crash(w)
  \/ \E l \in Lock : ExpireKey(l)
  \/ UserStep

Spec == Init /\ [][Next]_vars

(* A running task goes on, and the queue is first in, first out: a message that
   is there whenever some worker is idle is taken in the end.                *)
FairSpec ==
  /\ Spec
  /\ \A w \in Worker : WF_vars(SaveVul(w))
  /\ \A s \in Sighting : SF_vars(\E w \in Worker : StartSave(w, s))
  /\ \A l \in Lock : WF_vars(ExpireKey(l))

--------------------------------------------------------------------------------
(* Properties.                                                               *)

WorkerType == {t \in [pc: {"idle", "add", "check", "ignore", "find", "update", "create",
                           "pool", "release"},
                      sighting: Sighting \cup {NoSighting}, row: 0..MaxRows, counts: 0..MaxCount,
                      ignored: BOOLEAN] :
                 t.pc # "idle" => t.sighting \in Sighting}
UserType == {t \in [pc: {"idle", "status", "delete"}, row: 0..MaxRows, copy: Row] :
               t.pc # "idle" => t.row \in RowId}

\* The tables and the cache hold what they may hold, and everyone is in one of its steps.
TypeOK ==
  /\ rows \in [RowId -> Row]
  /\ lastId \in 0..MaxRows
  /\ pools \in [RowId -> SUBSET Sighting]
  /\ cache \in [Lock -> Worker \cup {"free", "left"}]
  /\ messages \in [Sighting -> Nat]
  /\ worker \in [Worker -> WorkerType]
  /\ user \in [User -> UserType]
  /\ crashes \in 0..MaxCrashes

\* Ids are given without gaps and, as long as nobody deletes rows, what a worker or a user
\* remembers of a row is still a row of the same vulnerability; a save that has seen its
\* vulnerability ignored all along still does.
RowsKnown ==
  \A r \in RowId : /\ r > lastId => ~Exists(r)
                   /\ r <= lastId /\ ~HardDelete => rows[r].vul \in Vul

WorkersKnown ==
  \A w \in Worker :
    /\ worker[w].pc # "idle" /\ worker[w].ignored => IgnoredIn(rows, VulAt(w))
    /\ worker[w].pc \in {"update", "pool", "release"} =>
         /\ worker[w].row \in 1..lastId
         /\ ~HardDelete => rows[worker[w].row].vul = VulAt(w)

UsersKnown ==
  \A u \in User : user[u].pc # "idle" =>
    /\ user[u].row \in 1..lastId
    /\ ~HardDelete => user[u].copy.vul = rows[user[u].row].vul

\* Until a vulnerability has a row its key does its work: who waits for the second get
\* finds a key, and who is past it holds the key.  Only once there is a row may a worker
\* be past the lock without a key (the default of get), and it finds that row.
LockBacked ==
  ~HardDelete /\ ~SlowWorker => \A w \in Worker :
    worker[w].pc # "idle" /\ VulAt(w) \in Taint =>
      /\ worker[w].pc = "check" => cache[LockAt(w)] # "free" \/ RowsOf(VulAt(w)) # {}
      /\ worker[w].pc \in {"ignore", "find"} => cache[LockAt(w)] = w \/ RowsOf(VulAt(w)) # {}
      /\ worker[w].pc = "create" => cache[LockAt(w)] = w /\ RowsOf(VulAt(w)) = {}

StoreBacked == RowsKnown /\ WorkersKnown /\ UsersKnown /\ LockBacked

Single(v) == \A r, q \in RowsOf(v) : r = q

\* A tainted flow has one row in a project version, however many workers see it at once,
\* provided that nobody deletes rows and no key expires in use (vul_handler.save_vul).
TaintOnce == ~HardDelete /\ ~SlowWorker => \A v \in Taint : Single(v)

\* A vulnerability that has been ignored in the project from the start of a save on is
\* neither stored nor counted again, in whatever version it is seen.
IgnoreHonoured ==
  \A w \in Worker : worker[w].pc \in {"find", "update", "create"} /\ VulAt(w) \in Taint
                     => ~worker[w].ignored

\* A row has the method pool or url it was seen in, or a worker that has yet to write it.
HasEvidence(r) ==
  \/ pools[r] # {}
  \/ \E w \in Worker : /\ worker[w].pc \in {"pool", "release"} /\ worker[w].row = r
                        /\ worker[w].sighting \notin Replayed

\* Only a replay leaves a row without evidence: a row that has none and that nobody is about
\* to give some was last written from a replayed pool (save_vul raises between its two
\* writes), or put back to that by a user's stale save, unless a worker was killed.
EvidenceStored ==
  crashes > 0 \/ HardDelete \/
    \A r \in RowId : Exists(r) => HasEvidence(r) \/ rows[r].seen \in Replayed

\* Scans never change the status of a row: what a user decides stays, however the
\* decision interleaves with a save that read the row before it (update_fields).
StatusOnlyByUsers ==
  [][\A r \in RowId : Exists(r) /\ Exists(r)' /\ rows[r].status # rows'[r].status
       => \E u \in User : user[u].row = r /\ user'[u] # user[u]]_rows

\* The lock loses nothing: when a scan is queued, the vulnerability it shows gets a row
\* or is ignored by a row of the project, if no worker is killed.
NothingLost ==
  \A s \in Sighting : messages[s] > 0 ~>
    \E r \in RowId : Exists(r) /\ Ident[rows[r].vul] = Ident[VulOf[s]]

================================================================================
