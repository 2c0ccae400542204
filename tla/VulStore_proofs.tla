---------------------------- MODULE VulStore_proofs ----------------------------
(* Proofs about VulStore, for any number of workers, users, rows and keys.    *)
EXTENDS VulStore, TLAPS

--------------------------------------------------------------------------------
(* Types.                                                                    *)

\* The null row is a row, and it belongs to no vulnerability.
LEMMA NoRowTyped == NoRow \in Row /\ \A r \in Row : r.vul \in Vul => r # NoRow
  BY StoreAssumption DEF NoRow, Row

\* What either save_vul writes is a row of the same vulnerability with the same status.
LEMMA UpdatedTyped ==
  ASSUME NEW row \in Row, NEW s \in Sighting, NEW n \in 0..MaxCount
  PROVE  /\ TaintUpdated(row, s, n) \in Row /\ HeaderUpdated(row, s, n) \in Row
         /\ TaintUpdated(row, s, n).vul = row.vul /\ HeaderUpdated(row, s, n).vul = row.vul
         /\ TaintUpdated(row, s, n).status = row.status
         /\ HeaderUpdated(row, s, n).status = row.status
<1>1. AddOne(n) \in 0..MaxCount BY StoreAssumption DEF AddOne
<1>. QED BY <1>1 DEF TaintUpdated, HeaderUpdated, Row

\* What either save_vul inserts is a row of the vulnerability that is not ignored.
LEMMA CreatedTyped ==
  ASSUME NEW v \in Vul, NEW s \in Sighting
  PROVE  /\ TaintRow(v, s) \in Row /\ HeaderRow(v, s) \in Row
         /\ TaintRow(v, s).vul = v /\ HeaderRow(v, s).vul = v
         /\ TaintRow(v, s).status # "IGNORE" /\ HeaderRow(v, s).status # "IGNORE"
  BY StoreAssumption DEF TaintRow, HeaderRow, Row

\* Whoever is idle is in a state of the type.
LEMMA IdleTyped == IdleWorker \in WorkerType /\ IdleUser \in UserType
  BY NoRowTyped, StoreAssumption DEF IdleWorker, IdleUser, WorkerType, UserType

\* A worker that begins a save (StartSave) is in a state of the type.
LEMMA StartTyped ==
  ASSUME NEW s \in Sighting, NEW b \in BOOLEAN
  PROVE  [IdleWorker EXCEPT !.pc = "add", !.sighting = s, !.ignored = b] \in WorkerType
  BY IdleTyped DEF IdleWorker, WorkerType

\* A worker that is not idle works on a sighting.
LEMMA AtTyped ==
  ASSUME TypeOK, NEW w \in Worker, worker[w].pc # "idle"
  PROVE  /\ worker[w] \in WorkerType /\ worker[w].sighting \in Sighting
         /\ VulAt(w) \in Vul /\ LockAt(w) \in Lock
         /\ worker[w].row \in 0..MaxRows /\ worker[w].counts \in 0..MaxCount
<1>1. worker[w] \in WorkerType BY DEF TypeOK
<1>2. worker[w].sighting \in Sighting BY <1>1 DEF WorkerType
<1>. QED BY <1>1, <1>2, StoreAssumption DEF WorkerType, VulAt, LockAt

\* A worker that goes away leaves a well-typed cache (KeyLeftBy).
LEMMA KeyLeftTyped == TypeOK => \A w : KeyLeftBy(w) \in [Lock -> Worker \cup {"free", "left"}]
  BY DEF TypeOK, KeyLeftBy

\* A write of a user leaves the workers well typed (Noticed).
LEMMA NoticedTyped ==
  ASSUME TypeOK, NEW table
  PROVE  Noticed(table) \in [Worker -> WorkerType]
<1>1. \A w \in Worker : worker[w] \in WorkerType BY DEF TypeOK
<1>2. \A w \in Worker : (worker[w].ignored /\ IgnoredIn(table, VulAt(w))) \in BOOLEAN BY Zenon
<1>3. \A t \in WorkerType, b \in BOOLEAN : [t EXCEPT !.ignored = b] \in WorkerType
  BY DEF WorkerType
<1>. QED BY <1>1, <1>2, <1>3 DEF Noticed

\* The empty table and idle workers satisfy the type invariant.
THEOREM InitTyped == Init => TypeOK
  BY NoRowTyped, IdleTyped, StoreAssumption DEF Init, TypeOK

\* A field of a worker may change within its type.
LEMMA WorkerExcept ==
  ASSUME TypeOK, NEW w \in Worker, NEW t \in WorkerType
  PROVE  [worker EXCEPT ![w] = t] \in [Worker -> WorkerType]
  BY DEF TypeOK

\* Every action of save_vul, of the cache and of the users keeps the type invariant.
THEOREM StepTyped == TypeOK /\ [Next]_vars => TypeOK'
<1>. SUFFICES ASSUME TypeOK, [Next]_vars PROVE TypeOK'
  OBVIOUS
<1>. USE StoreAssumption
<1>1. CASE UNCHANGED vars BY <1>1 DEF TypeOK, vars
<1>2. ASSUME NEW s \in Sighting, QueueScan(s) PROVE TypeOK'
  BY <1>2 DEF QueueScan, tables, TypeOK
<1>3. ASSUME NEW s \in Sighting, NEW w \in Worker, StartSave(w, s) PROVE TypeOK'
  <2>1. messages' \in [Sighting -> Nat] BY <1>3 DEF StartSave, TypeOK
  <2>2. IgnoredIn(rows, VulOf[s]) \in BOOLEAN BY Zenon DEF IgnoredIn
  <2>3. [IdleWorker EXCEPT !.pc = "add", !.sighting = s,
                           !.ignored = IgnoredIn(rows, VulOf[s])] \in WorkerType
    BY <2>2, StartTyped
  <2>4. worker' \in [Worker -> WorkerType]
    BY <1>3, <2>3, WorkerExcept DEF StartSave, TypeOK
  <2>. QED BY <1>3, <2>1, <2>4 DEF StartSave, tables, TypeOK
<1>4. ASSUME NEW w \in Worker, SaveVul(w) PROVE TypeOK'
  <2>. worker[w].pc # "idle"
    BY <1>4 DEF SaveVul, AddKey, CheckKey, CheckIgnore, FindRow, UpdateRow, CreateRow,
                StorePool, StorePoolRaises, ReleaseKey
  <2>. USE AtTyped, KeyLeftTyped
  <2>1. CASE AddKey(w)
    <3>1. worker' \in [Worker -> WorkerType]
      BY <2>1, WorkerExcept DEF AddKey, WorkerType
    <3>. QED BY <2>1, <3>1 DEF AddKey, tables, TypeOK
  <2>2. CASE CheckKey(w)
    <3>1. worker' \in [Worker -> WorkerType]
      BY <2>2, WorkerExcept, IdleTyped DEF CheckKey, WorkerType
    <3>. QED BY <2>2, <3>1 DEF CheckKey, tables, TypeOK
  <2>3. CASE CheckIgnore(w)
    <3>1. worker' \in [Worker -> WorkerType]
      <4>1. CASE worker' = [worker EXCEPT ![w] = IdleWorker]
        BY <4>1, WorkerExcept, IdleTyped
      <4>2. CASE worker' = [worker EXCEPT ![w].pc = "find"]
        <5>1. [worker[w] EXCEPT !.pc = "find"] \in WorkerType BY DEF WorkerType
        <5>. QED BY <4>2, <5>1, WorkerExcept
      <4>. QED BY <2>3, <4>1, <4>2, Zenon DEF CheckIgnore
    <3>. QED BY <2>3, <3>1 DEF CheckIgnore, tables, TypeOK
  <2>4. CASE FindRow(w)
    <3>1. \A r \in RowsOf(VulAt(w)) : r \in 0..MaxRows /\ rows[r].counts \in 0..MaxCount
      <4>1. \A r \in RowsOf(VulAt(w)) : r \in RowId BY DEF RowsOf
      <4>2. \A r \in RowId : rows[r] \in Row BY DEF TypeOK
      <4>. QED BY <4>1, <4>2 DEF RowId, Row
    <3>2. \A r \in RowsOf(VulAt(w)) :
            [worker[w] EXCEPT !.pc = "update", !.row = r, !.counts = rows[r].counts] \in WorkerType
      BY <3>1 DEF WorkerType
    <3>3. [worker[w] EXCEPT !.pc = "create"] \in WorkerType BY DEF WorkerType
    <3>4. worker' \in [Worker -> WorkerType]
      <4>1. CASE worker' = [worker EXCEPT ![w].pc = "create"] BY <4>1, <3>3, WorkerExcept
      <4>2. CASE \E r \in RowsOf(VulAt(w)) : worker' = [worker EXCEPT ![w] =
                   [@ EXCEPT !.pc = "update", !.row = r, !.counts = rows[r].counts]]
        <5>1. PICK r \in RowsOf(VulAt(w)) : worker' = [worker EXCEPT ![w] =
                [@ EXCEPT !.pc = "update", !.row = r, !.counts = rows[r].counts]]
          BY <4>2
        <5>2. [worker[w] EXCEPT !.pc = "update", !.row = r, !.counts = rows[r].counts]
                \in WorkerType
          BY <3>2
        <5>. QED BY <5>1, <5>2, WorkerExcept
      <4>. QED BY <2>4, <4>1, <4>2 DEF FindRow
    <3>. QED BY <2>4, <3>4 DEF FindRow, tables, TypeOK
  <2>5. CASE UpdateRow(w)
    <3>1. worker[w].row \in RowId => rows[worker[w].row] \in Row BY DEF TypeOK
    <3>2. rows' \in [RowId -> Row]
      <4>1. CASE UNCHANGED rows BY <4>1 DEF TypeOK
      <4>2. CASE worker[w].row \notin RowId BY <2>5, <4>2 DEF UpdateRow, TypeOK
      <4>3. CASE worker[w].row \in RowId
        <5>1. /\ TaintUpdated(rows[worker[w].row], worker[w].sighting, worker[w].counts) \in Row
              /\ HeaderUpdated(rows[worker[w].row], worker[w].sighting, worker[w].counts) \in Row
          BY <4>3, <3>1, UpdatedTyped
        <5>. QED BY <2>5, <5>1 DEF UpdateRow, TypeOK
      <4>. QED BY <4>1, <4>2, <4>3
    <3>3. [worker[w] EXCEPT !.pc = AfterWrite(VulAt(w))] \in WorkerType
      BY DEF WorkerType, AfterWrite
    <3>4. worker' \in [Worker -> WorkerType]
      BY <2>5, <3>3, WorkerExcept, IdleTyped DEF UpdateRow
    <3>. QED BY <2>5, <3>2, <3>4 DEF UpdateRow, TypeOK
  <2>6. CASE CreateRow(w)
    <3>1. lastId' \in 0..MaxRows BY <2>6 DEF CreateRow, TypeOK
    <3>2. rows' \in [RowId -> Row] BY <2>6, CreatedTyped DEF CreateRow, TypeOK
    <3>3. [worker[w] EXCEPT !.pc = AfterWrite(VulAt(w)), !.row = lastId'] \in WorkerType
      BY <3>1 DEF WorkerType, AfterWrite
    <3>4. worker' \in [Worker -> WorkerType] BY <2>6, <3>3, WorkerExcept DEF CreateRow
    <3>. QED BY <2>6, <3>1, <3>2, <3>4 DEF CreateRow, TypeOK
  <2>7. CASE StorePool(w)
    <3>1. pools' \in [RowId -> SUBSET Sighting]
      <4>1. \A r \in RowId : pools[r] \cup {worker[w].sighting} \in SUBSET Sighting
        BY DEF TypeOK
      <4>2. {worker[w].sighting} \in SUBSET Sighting OBVIOUS
      <4>. QED BY <2>7, <4>1, <4>2 DEF StorePool, TypeOK
    <3>2. worker' \in [Worker -> WorkerType]
      BY <2>7, WorkerExcept, IdleTyped DEF StorePool, WorkerType
    <3>. QED BY <2>7, <3>1, <3>2 DEF StorePool, TypeOK
  <2>8. CASE ReleaseKey(w)
    <3>1. worker' \in [Worker -> WorkerType]
      BY <2>8, WorkerExcept, IdleTyped DEF ReleaseKey, WorkerType
    <3>. QED BY <2>8, <3>1 DEF ReleaseKey, tables, TypeOK
  <2>9. CASE StorePoolRaises(w)
    <3>1. worker' \in [Worker -> WorkerType]
      BY <2>9, WorkerExcept, IdleTyped DEF StorePoolRaises
    <3>. QED BY <2>9, <3>1 DEF StorePoolRaises, tables, TypeOK
  <2>. QED BY <1>4, <2>1, <2>2, <2>3, <2>4, <2>5, <2>6, <2>7, <2>8, <2>9 DEF SaveVul
<1>5. ASSUME NEW w \in Worker, Crash(w) PROVE TypeOK'
  <2>1. worker' \in [Worker -> WorkerType] BY <1>5, WorkerExcept, IdleTyped DEF Crash
  <2>2. messages' \in [Sighting -> Nat] BY <1>5, AtTyped DEF Crash, TypeOK
  <2>. QED BY <1>5, <2>1, <2>2, KeyLeftTyped DEF Crash, tables, TypeOK
<1>6. ASSUME NEW l \in Lock, ExpireKey(l) PROVE TypeOK'
  BY <1>6 DEF ExpireKey, tables, TypeOK
<1>7. ASSUME NEW u \in User, NEW r \in RowId, ReadForDelete(u, r) PROVE TypeOK'
  <2>0. [rows[r] EXCEPT !.isDel = TRUE] \in Row
    <3>1. rows[r] \in Row BY DEF TypeOK
    <3>. QED BY <3>1 DEF Row
  <2>1. [pc |-> "delete", row |-> r, copy |-> [rows[r] EXCEPT !.isDel = TRUE]] \in UserType
    BY <2>0 DEF UserType, RowId
  <2>. QED BY <1>7, <2>1 DEF ReadForDelete, tables, TypeOK
<1>8. ASSUME NEW u \in User, NEW r \in RowId, NEW st \in UserStatus, ReadForStatus(u, r, st)
      PROVE  TypeOK'
  <2>0. [rows[r] EXCEPT !.status = st] \in Row
    <3>1. rows[r] \in Row BY DEF TypeOK
    <3>. QED BY <3>1 DEF Row
  <2>1. [pc |-> "status", row |-> r, copy |-> [rows[r] EXCEPT !.status = st]] \in UserType
    BY <2>0 DEF UserType, RowId
  <2>. QED BY <1>8, <2>1 DEF ReadForStatus, tables, TypeOK
<1>9. ASSUME NEW u \in User, SaveCopy(u) PROVE TypeOK'
  <2>1. user[u].copy \in Row BY DEF TypeOK, UserType
  <2>. QED BY <1>9, <2>1, IdleTyped, NoticedTyped DEF SaveCopy, TypeOK
<1>10. ASSUME NEW r \in RowId, DeleteRow(r) PROVE TypeOK'
  BY <1>10, NoRowTyped, NoticedTyped DEF DeleteRow, TypeOK
<1>. QED BY <1>1, <1>2, <1>3, <1>4, <1>5, <1>6, <1>7, <1>8, <1>9, <1>10 DEF Next, UserStep

\* Every column, message, key and worker keeps its type, whatever is interleaved.
THEOREM TypeCorrect == Spec => []TypeOK
  BY InitTyped, StepTyped, PTL DEF Spec

--------------------------------------------------------------------------------
(* What one step may change.                                                 *)

\* Users write the table, and let the workers notice what is ignored no more.
UserWrites == (\E u \in User : SaveCopy(u)) \/ (\E r \in RowId : DeleteRow(r))

\* The table is written by workers that update or create a row, and by users.
LEMMA RowWriters ==
  [Next]_vars =>
    \/ UNCHANGED <<rows, lastId>>
    \/ \E w \in Worker : UpdateRow(w) /\ UNCHANGED lastId
    \/ \E w \in Worker : CreateRow(w)
    \/ UserWrites /\ UNCHANGED lastId
  BY DEF Next, vars, tables, QueueScan, StartSave, SaveVul, AddKey, CheckKey, CheckIgnore,
         FindRow, UpdateRow, CreateRow, StorePool, StorePoolRaises, ReleaseKey, Crash, ExpireKey, UserStep,
         ReadForStatus, ReadForDelete, SaveCopy, DeleteRow, UserWrites

\* A worker moves in its own steps; users only make it notice.
LEMMA WorkerMoves ==
  ASSUME TypeOK, [Next]_vars, NEW w \in Worker
  PROVE  \/ worker'[w] = worker[w]
         \/ (\E s \in Sighting : StartSave(w, s)) \/ SaveVul(w) \/ Crash(w)
         \/ UserWrites /\ worker' = Noticed(rows')
<1>1. \A x \in Worker : \A t : [worker EXCEPT ![x] = t][w] = IF w = x THEN t ELSE worker[w]
  BY DEF TypeOK
<1>2. CASE UNCHANGED vars BY <1>2 DEF vars
<1>3. ASSUME NEW s \in Sighting, QueueScan(s) PROVE worker'[w] = worker[w]
  BY <1>3 DEF QueueScan
<1>4. ASSUME NEW s \in Sighting, NEW x \in Worker, StartSave(x, s), x # w
      PROVE  worker'[w] = worker[w]
  <2>1. \/ UNCHANGED worker
        \/ worker' = [worker EXCEPT ![x] = [IdleWorker EXCEPT
             !.pc = "add", !.sighting = s, !.ignored = IgnoredIn(rows, VulOf[s])]]
    BY <1>4, Zenon DEF StartSave
  <2>. QED BY <1>1, <1>4, <2>1
<1>5. ASSUME NEW x \in Worker, SaveVul(x), x # w PROVE worker'[w] = worker[w]
  <2>1. CASE AddKey(x) BY <1>1, <1>5, <2>1 DEF AddKey
  <2>2. CASE CheckKey(x) BY <1>1, <1>5, <2>2 DEF CheckKey
  <2>3. CASE CheckIgnore(x)
    <3>1. CASE worker' = [worker EXCEPT ![x] = IdleWorker] BY <1>1, <1>5, <3>1
    <3>2. CASE worker' = [worker EXCEPT ![x].pc = "find"] BY <1>1, <1>5, <3>2
    <3>. QED BY <2>3, <3>1, <3>2, Zenon DEF CheckIgnore
  <2>4. CASE FindRow(x)
    <3>1. CASE worker' = [worker EXCEPT ![x].pc = "create"] BY <1>1, <1>5, <3>1
    <3>2. ASSUME NEW r, worker' = [worker EXCEPT ![x] =
                   [@ EXCEPT !.pc = "update", !.row = r, !.counts = rows[r].counts]]
          PROVE  worker'[w] = worker[w]
      BY <1>1, <1>5, <3>2
    <3>. QED BY <2>4, <3>1, <3>2, Zenon DEF FindRow
  <2>5. CASE UpdateRow(x)
    <3>1. CASE worker' = [worker EXCEPT ![x] = IdleWorker] BY <1>1, <1>5, <3>1
    <3>2. CASE worker' = [worker EXCEPT ![x].pc = AfterWrite(VulAt(x))] BY <1>1, <1>5, <3>2
    <3>. QED BY <2>5, <3>1, <3>2, Zenon DEF UpdateRow
  <2>6. CASE CreateRow(x) BY <1>1, <1>5, <2>6 DEF CreateRow
  <2>7. CASE StorePool(x) BY <1>1, <1>5, <2>7 DEF StorePool
  <2>8. CASE ReleaseKey(x) BY <1>1, <1>5, <2>8 DEF ReleaseKey
  <2>9. CASE StorePoolRaises(x) BY <1>1, <1>5, <2>9 DEF StorePoolRaises
  <2>. QED BY <1>5, <2>1, <2>2, <2>3, <2>4, <2>5, <2>6, <2>7, <2>8, <2>9 DEF SaveVul
<1>6. ASSUME NEW x \in Worker, Crash(x), x # w PROVE worker'[w] = worker[w]
  BY <1>1, <1>6 DEF Crash
<1>7. ASSUME NEW l \in Lock, ExpireKey(l) PROVE worker'[w] = worker[w]
  BY <1>7 DEF ExpireKey
<1>8. CASE UserStep
  BY <1>8 DEF UserStep, UserWrites, ReadForStatus, ReadForDelete, SaveCopy, DeleteRow
<1>. QED BY <1>2, <1>3, <1>4, <1>5, <1>6, <1>7, <1>8 DEF Next

\* Noticing changes nothing but the history.
LEMMA NoticedKeeps ==
  ASSUME TypeOK, NEW w \in Worker, worker' = Noticed(rows')
  PROVE  /\ worker'[w].pc = worker[w].pc /\ worker'[w].sighting = worker[w].sighting
         /\ worker'[w].row = worker[w].row
         /\ worker'[w].ignored <=> worker[w].ignored /\ IgnoredIn(rows, VulAt(w))'
<1>1. worker[w] \in WorkerType BY DEF TypeOK
<1>2. worker'[w] = [worker[w] EXCEPT !.ignored = @ /\ IgnoredIn(rows', VulAt(w))]
  BY DEF Noticed
<1>3. worker'[w].sighting = worker[w].sighting BY <1>1, <1>2 DEF WorkerType
<1>4. VulAt(w)' = VulAt(w) BY <1>3 DEF VulAt
<1>5. IgnoredIn(rows', VulAt(w)) <=> IgnoredIn(rows, VulAt(w))' BY <1>4 DEF IgnoredIn
<1>. QED BY <1>1, <1>2, <1>3, <1>5 DEF WorkerType

\* An update leaves every row but the worker's alone, and of that one it keeps the
\* vulnerability and the status.
LEMMA UpdateRowWrites ==
  ASSUME TypeOK, NEW w \in Worker, UpdateRow(w), NEW r \in RowId
  PROVE  /\ rows'[r].vul = rows[r].vul /\ rows'[r].status = rows[r].status
         /\ rows'[r] # rows[r] => Exists(r)
<1>. DEFINE s == worker[w].sighting
            n == worker[w].counts
            t == IF VulAt(w) \in Taint THEN TaintUpdated(rows[r], s, n)
                                       ELSE HeaderUpdated(rows[r], s, n)
<1>1. s \in Sighting /\ n \in 0..MaxCount BY AtTyped DEF UpdateRow
<1>2. rows[r] \in Row BY DEF TypeOK
<1>3. TaintUpdated(rows[r], s, n).vul = rows[r].vul /\ HeaderUpdated(rows[r], s, n).vul = rows[r].vul
  BY <1>1, <1>2, UpdatedTyped
<1>4. /\ TaintUpdated(rows[r], s, n).status = rows[r].status
      /\ HeaderUpdated(rows[r], s, n).status = rows[r].status
  BY <1>1, <1>2, UpdatedTyped
<1>5. t.vul = rows[r].vul /\ t.status = rows[r].status BY <1>3, <1>4
<1>6. rows'[r] = rows[r] \/ (worker[w].row = r /\ Exists(r) /\ rows'[r] = t)
  BY DEF UpdateRow, TypeOK
<1>. HIDE DEF t
<1>. QED BY <1>5, <1>6

\* Ids are never given twice, and as long as nobody deletes rows a row keeps its
\* vulnerability.
LEMMA RowsStep ==
  ASSUME TypeOK, RowsKnown, UsersKnown, [Next]_vars
  PROVE  /\ lastId <= lastId'
         /\ \A r \in RowId : r > lastId' => ~Exists(r)'
         /\ ~HardDelete => \A r \in RowId : r <= lastId => rows'[r].vul = rows[r].vul
<1>. USE StoreAssumption DEF RowId
<1>1. CASE UNCHANGED <<rows, lastId>> BY <1>1 DEF RowsKnown, Exists, TypeOK
<1>2. ASSUME NEW w \in Worker, UpdateRow(w), UNCHANGED lastId
      PROVE  /\ \A r \in RowId : r > lastId => ~Exists(r)'
             /\ \A r \in RowId : rows'[r].vul = rows[r].vul
  <2>1. \A r \in RowId : rows'[r].vul = rows[r].vul /\ (rows'[r] # rows[r] => Exists(r))
    BY <1>2, UpdateRowWrites
  <2>2. ASSUME NEW r \in RowId, r > lastId PROVE ~Exists(r)'
    <3>1. rows[r] = NoRow BY <2>2 DEF RowsKnown, Exists
    <3>2. rows'[r] = rows[r] BY <2>1, <3>1 DEF Exists
    <3>. QED BY <3>1, <3>2 DEF Exists
  <2>. QED BY <2>1, <2>2
<1>3. ASSUME NEW w \in Worker, CreateRow(w)
      PROVE  /\ lastId' = lastId + 1
             /\ \A r \in RowId : r # lastId + 1 => rows'[r] = rows[r]
  BY <1>3 DEF CreateRow, TypeOK
<1>4. ASSUME NEW u \in User, SaveCopy(u), UNCHANGED lastId
      PROVE  /\ \A r \in RowId : r > lastId => ~Exists(r)'
             /\ ~HardDelete => \A r \in RowId : rows'[r].vul = rows[r].vul
  BY <1>4 DEF SaveCopy, TypeOK, UsersKnown, RowsKnown, Exists
<1>5. ASSUME NEW q \in RowId, DeleteRow(q), UNCHANGED lastId
      PROVE  /\ \A r \in RowId : r > lastId => ~Exists(r)'
             /\ HardDelete
  BY <1>5 DEF DeleteRow, TypeOK, RowsKnown, Exists
<1>. QED BY <1>1, <1>2, <1>3, <1>4, <1>5, RowWriters DEF UserWrites, TypeOK, RowsKnown, Exists

\* The rows of a vulnerability stay the same, but for the one a worker creates.
LEMMA RowsOfStep ==
  ASSUME TypeOK, RowsKnown, UsersKnown, [Next]_vars, ~HardDelete, NEW v \in Vul
  PROVE  \/ RowsOf(v)' = RowsOf(v)
         \/ \E w \in Worker : /\ CreateRow(w) /\ VulAt(w) = v
                              /\ RowsOf(v)' = RowsOf(v) \cup {lastId + 1}
<1>. USE StoreAssumption DEF RowId
<1>1. RowsOf(v) = {r \in RowId : r <= lastId /\ rows[r].vul = v}
  BY DEF RowsOf, RowsKnown, Exists, NoRow, TypeOK
<1>2. CASE UNCHANGED lastId
  <2>1. RowsOf(v)' = {r \in RowId : r <= lastId /\ rows'[r].vul = v}
    BY <1>2, RowsStep DEF RowsOf, Exists, NoRow, TypeOK
  <2>. QED BY <1>1, <2>1, RowsStep
<1>3. ASSUME NEW w \in Worker, CreateRow(w)
      PROVE  RowsOf(v)' = IF VulAt(w) = v THEN RowsOf(v) \cup {lastId + 1} ELSE RowsOf(v)
  <2>. worker[w].pc # "idle" BY <1>3 DEF CreateRow
  <2>1. lastId + 1 \in RowId /\ lastId' = lastId + 1 BY <1>3 DEF CreateRow, TypeOK
  <2>2. rows'[lastId + 1].vul = VulAt(w) BY <1>3, <2>1, AtTyped, CreatedTyped DEF CreateRow, TypeOK
  <2>3. \A r \in RowId : r # lastId + 1 => rows'[r] = rows[r] BY <1>3 DEF CreateRow, TypeOK
  <2>4. VulAt(w) \in Vul BY AtTyped
  <2>5. \A r \in RowId : r \in RowsOf(v)' <=> rows'[r].vul = v BY DEF RowsOf, Exists, NoRow
  <2>6. \A r \in RowId : r \in RowsOf(v) <=> rows[r].vul = v BY DEF RowsOf, Exists, NoRow
  <2>7. rows[lastId + 1].vul # v BY <2>1 DEF RowsKnown, Exists, NoRow, TypeOK
  <2>8. \A r \in RowId : r \in RowsOf(v)' <=>
          r \in RowsOf(v) \/ (r = lastId + 1 /\ VulAt(w) = v)
    BY <2>2, <2>3, <2>5, <2>6, <2>7
  <2>9. RowsOf(v) \subseteq RowId /\ RowsOf(v)' \subseteq RowId BY DEF RowsOf
  <2>. QED BY <2>1, <2>8, <2>9
<1>. QED BY <1>2, <1>3, RowWriters

\* But for the users' writes, an ignored row stays ignored, and stays what it is.
LEMMA IgnoredKept ==
  ASSUME TypeOK, RowsKnown, [Next]_vars, ~UserWrites, NEW v \in Vul, IgnoredIn(rows, v)
  PROVE  IgnoredIn(rows', v)
<1>. USE StoreAssumption DEF RowId
<1>1. PICK r \in RowId : rows[r].status = "IGNORE" /\ Ident[rows[r].vul] = Ident[v]
  BY DEF IgnoredIn
<1>2. rows[r] \in Row BY DEF TypeOK
<1>3. Exists(r) /\ r <= lastId BY <1>1 DEF RowsKnown, Exists, NoRow, TypeOK
<1>4. rows'[r].status = rows[r].status /\ rows'[r].vul = rows[r].vul
  <2>1. CASE UNCHANGED <<rows, lastId>> BY <2>1
  <2>2. ASSUME NEW w \in Worker, UpdateRow(w)
        PROVE  rows'[r].status = rows[r].status /\ rows'[r].vul = rows[r].vul
    BY <2>2, UpdateRowWrites
  <2>3. ASSUME NEW w \in Worker, CreateRow(w) PROVE rows'[r] = rows[r]
    BY <1>3, <2>3 DEF CreateRow, TypeOK
  <2>. QED BY <2>1, <2>2, <2>3, RowWriters
<1>. QED BY <1>1, <1>4 DEF IgnoredIn

--------------------------------------------------------------------------------
(* What workers and users remember.                                          *)

\* Rows keep their vulnerability while workers and users write them.
LEMMA RowsKnownStep ==
  ASSUME TypeOK, RowsKnown, UsersKnown, [Next]_vars PROVE RowsKnown'
<1>. USE StoreAssumption DEF RowId
<1>1. CASE UNCHANGED lastId BY <1>1, RowsStep DEF RowsKnown, Exists, TypeOK
<1>2. ASSUME NEW w \in Worker, CreateRow(w) PROVE RowsKnown'
  <2>. worker[w].pc # "idle" BY <1>2 DEF CreateRow
  <2>1. lastId + 1 \in RowId /\ lastId' = lastId + 1 BY <1>2 DEF CreateRow, TypeOK
  <2>2. rows'[lastId + 1].vul = VulAt(w) /\ VulAt(w) \in Vul
    BY <1>2, <2>1, AtTyped, CreatedTyped DEF CreateRow, TypeOK
  <2>3. \A r \in RowId : r <= lastId' => r <= lastId \/ r = lastId + 1 BY <2>1 DEF TypeOK
  <2>4. \A r \in RowId : r <= lastId' /\ ~HardDelete => rows'[r].vul \in Vul
    BY <2>2, <2>3, RowsStep DEF RowsKnown
  <2>. QED BY <2>4, RowsStep DEF RowsKnown
<1>. QED BY <1>1, <1>2, RowWriters

\* A worker's own step keeps its sighting and its history, or it starts anew.
LEMMA OwnStep ==
  ASSUME TypeOK, NEW w \in Worker, SaveVul(w) \/ Crash(w), worker'[w].pc # "idle"
  PROVE  /\ worker[w].pc # "idle" /\ SaveVul(w)
         /\ worker'[w].sighting = worker[w].sighting
         /\ worker'[w].ignored = worker[w].ignored
         /\ VulAt(w)' = VulAt(w) /\ LockAt(w)' = LockAt(w)
<1>1. worker'[w] # IdleWorker BY DEF IdleWorker
<1>2. \A t : [worker EXCEPT ![w] = t][w] = t BY DEF TypeOK
<1>3. worker[w] \in WorkerType BY DEF TypeOK
<1>4. ~Crash(w) BY <1>1, <1>2 DEF Crash
<1>5. worker'[w].sighting = worker[w].sighting /\ worker'[w].ignored = worker[w].ignored
  <2>1. CASE AddKey(w) BY <1>2, <1>3, <2>1 DEF AddKey, WorkerType
  <2>2. CASE CheckKey(w) BY <1>1, <1>2, <1>3, <2>2 DEF CheckKey, WorkerType
  <2>3. CASE CheckIgnore(w)
    <3>1. worker' = [worker EXCEPT ![w].pc = "find"]
      BY <1>1, <1>2, <2>3, Zenon DEF CheckIgnore
    <3>. QED BY <1>2, <1>3, <3>1 DEF WorkerType
  <2>4. CASE FindRow(w)
    <3>1. CASE worker' = [worker EXCEPT ![w].pc = "create"] BY <1>2, <1>3, <3>1 DEF WorkerType
    <3>2. ASSUME NEW r, worker' = [worker EXCEPT ![w] =
                   [@ EXCEPT !.pc = "update", !.row = r, !.counts = rows[r].counts]]
          PROVE  worker'[w].sighting = worker[w].sighting /\ worker'[w].ignored = worker[w].ignored
      BY <1>2, <1>3, <3>2 DEF WorkerType
    <3>. QED BY <2>4, <3>1, <3>2, Zenon DEF FindRow
  <2>5. CASE UpdateRow(w)
    <3>1. worker' = [worker EXCEPT ![w].pc = AfterWrite(VulAt(w))]
      BY <1>1, <1>2, <2>5, Zenon DEF UpdateRow
    <3>. QED BY <1>2, <1>3, <3>1 DEF WorkerType
  <2>6. CASE CreateRow(w) BY <1>2, <1>3, <2>6 DEF CreateRow, WorkerType
  <2>7. CASE StorePool(w) BY <1>1, <1>2, <1>3, <2>7 DEF StorePool, WorkerType
  <2>8. CASE ReleaseKey(w) BY <1>1, <1>2, <1>3, <2>8 DEF ReleaseKey, WorkerType
  <2>9. ~StorePoolRaises(w) BY <1>1, <1>2 DEF StorePoolRaises
  <2>. QED BY <1>4, <2>1, <2>2, <2>3, <2>4, <2>5, <2>6, <2>7, <2>8, <2>9 DEF SaveVul
<1>6. worker[w].pc # "idle"
  BY <1>4 DEF SaveVul, AddKey, CheckKey, CheckIgnore, FindRow, UpdateRow, CreateRow,
              StorePool, StorePoolRaises, ReleaseKey
<1>. QED BY <1>4, <1>5, <1>6 DEF VulAt, LockAt

\* Whoever starts a save has just looked whether its vulnerability is ignored.
LEMMA Started ==
  ASSUME TypeOK, NEW w \in Worker, NEW s \in Sighting, StartSave(w, s),
         worker'[w] # worker[w]
  PROVE  /\ worker'[w].pc = "add" /\ VulAt(w)' = VulOf[s]
         /\ worker'[w].ignored = IgnoredIn(rows, VulOf[s])
         /\ UNCHANGED <<rows, lastId>>
<1>1. worker'[w] = [IdleWorker EXCEPT
        !.pc = "add", !.sighting = s, !.ignored = IgnoredIn(rows, VulOf[s])]
  BY DEF StartSave, TypeOK
<1>2. worker'[w].sighting = s BY <1>1 DEF IdleWorker
<1>. QED BY <1>1, <1>2 DEF StartSave, tables, VulAt, IdleWorker

\* A row that somebody remembers stays where it is.
LEMMA RememberedKept ==
  ASSUME TypeOK, RowsKnown, UsersKnown, [Next]_vars, NEW r \in 1..lastId
  PROVE  r \in 1..lastId' /\ (~HardDelete => rows'[r].vul = rows[r].vul)
<1>1. lastId \in 0..MaxRows /\ lastId' \in 0..MaxRows BY StepTyped DEF TypeOK
<1>2. r \in RowId /\ r <= lastId BY <1>1, StoreAssumption DEF RowId
<1>. QED BY <1>1, <1>2, RowsStep

\* What workers remember of rows and of ignored vulnerabilities stays right at each step.
LEMMA WorkersKnownStep ==
  ASSUME TypeOK, RowsKnown, WorkersKnown, UsersKnown, [Next]_vars
  PROVE  WorkersKnown'
<1>. USE StoreAssumption DEF RowId
<1>. SUFFICES ASSUME NEW w \in Worker
              PROVE  /\ (worker[w].pc # "idle" /\ worker[w].ignored
                           => IgnoredIn(rows, VulAt(w)))'
                     /\ (worker[w].pc \in {"update", "pool", "release"} =>
                           /\ worker[w].row \in 1..lastId
                           /\ ~HardDelete => rows[worker[w].row].vul = VulAt(w))'
  BY DEF WorkersKnown
<1>1. CASE UserWrites /\ worker' = Noticed(rows')
  <2>1. UNCHANGED lastId BY <1>1 DEF UserWrites, SaveCopy, DeleteRow
  <2>2. VulAt(w)' = VulAt(w) BY <1>1, NoticedKeeps DEF VulAt
  <2>3. worker[w].pc \in {"update", "pool", "release"} =>
          /\ worker[w].row \in 1..lastId'
          /\ ~HardDelete => rows'[worker[w].row].vul = VulAt(w)
    BY RememberedKept DEF WorkersKnown
  <2>. QED BY <1>1, <2>2, <2>3, NoticedKeeps
<1>2. ASSUME NEW s \in Sighting, StartSave(w, s), worker'[w] # worker[w]
      PROVE  /\ worker'[w].pc = "add"
             /\ (worker[w].ignored => IgnoredIn(rows, VulAt(w)))'
  BY <1>2, Started
<1>3. CASE worker'[w] = worker[w] /\ ~UserWrites
  <2>1. VulAt(w)' = VulAt(w) BY <1>3 DEF VulAt
  <2>2. worker[w].pc # "idle" => VulAt(w) \in Vul BY AtTyped
  <2>3. (worker[w].pc # "idle" /\ worker[w].ignored => IgnoredIn(rows, VulAt(w)))'
    BY <1>3, <2>1, <2>2, IgnoredKept DEF WorkersKnown
  <2>4. worker[w].pc \in {"update", "pool", "release"} =>
          /\ worker[w].row \in 1..lastId'
          /\ ~HardDelete => rows'[worker[w].row].vul = VulAt(w)
    BY RememberedKept DEF WorkersKnown
  <2>. QED BY <1>3, <2>1, <2>3, <2>4
<1>4. CASE (SaveVul(w) \/ Crash(w)) /\ worker'[w].pc # "idle" /\ ~UserWrites
  <2>1. /\ worker[w].pc # "idle" /\ SaveVul(w)
        /\ worker'[w].ignored = worker[w].ignored /\ VulAt(w)' = VulAt(w)
    BY <1>4, OwnStep
  <2>2. VulAt(w) \in Vul BY <2>1, AtTyped
  <2>3. (worker[w].pc # "idle" /\ worker[w].ignored => IgnoredIn(rows, VulAt(w)))'
    BY <1>4, <2>1, <2>2, IgnoredKept DEF WorkersKnown
  <2>4. ASSUME worker'[w].pc \in {"update", "pool", "release"}
        PROVE  /\ worker'[w].row \in 1..lastId'
               /\ ~HardDelete => rows'[worker'[w].row].vul = VulAt(w)
    <3>. USE <2>4
    <3>0. worker[w] \in WorkerType /\ \A t : [worker EXCEPT ![w] = t][w] = t BY DEF TypeOK
    <3>1. ~AddKey(w) /\ ~CheckKey(w) /\ ~CheckIgnore(w)
      <4>1. ~AddKey(w) BY <3>0 DEF AddKey, WorkerType
      <4>2. ~CheckKey(w) BY <3>0 DEF CheckKey, WorkerType, IdleWorker
      <4>3. worker' # [worker EXCEPT ![w].pc = "find"] BY <3>0 DEF WorkerType
      <4>4. worker' # [worker EXCEPT ![w] = IdleWorker]
        <5>1. IdleWorker.pc = "idle" BY DEF IdleWorker
        <5>. QED BY <3>0, <5>1
      <4>5. ~CheckIgnore(w) BY <4>3, <4>4, Zenon DEF CheckIgnore
      <4>. QED BY <4>1, <4>2, <4>5
    <3>2. CASE worker[w].pc \in {"update", "pool", "release"} /\ worker'[w].row = worker[w].row
      BY <3>2, RememberedKept DEF WorkersKnown
    <3>3. CASE FindRow(w)
      <4>1. worker' # [worker EXCEPT ![w].pc = "create"] BY <3>0 DEF WorkerType
      <4>2. PICK r \in RowsOf(VulAt(w)) : worker' = [worker EXCEPT ![w] =
              [@ EXCEPT !.pc = "update", !.row = r, !.counts = rows[r].counts]]
        BY <3>3, <4>1, Zenon DEF FindRow
      <4>3. worker'[w].row = r
        <5>1. worker'[w] = [worker[w] EXCEPT !.pc = "update", !.row = r, !.counts = rows[r].counts]
          BY <3>0, <4>2
        <5>. QED BY <3>0, <5>1 DEF WorkerType
      <4>4. r \in RowId /\ Exists(r) /\ rows[r].vul = VulAt(w) BY <4>2 DEF RowsOf
      <4>5. r \in 1..lastId BY <4>4 DEF RowsKnown, TypeOK
      <4>. QED BY <3>3, <4>3, <4>4, <4>5 DEF FindRow, tables
    <3>4. CASE CreateRow(w)
      <4>1. worker'[w].row = lastId + 1 BY <3>0, <3>4 DEF CreateRow, WorkerType
      <4>2. lastId' = lastId + 1 /\ lastId + 1 \in RowId BY <3>4 DEF CreateRow, TypeOK
      <4>3. rows'[lastId + 1].vul = VulAt(w)
        BY <2>1, <3>4, <4>2, AtTyped, CreatedTyped DEF CreateRow, TypeOK
      <4>. QED BY <4>1, <4>2, <4>3 DEF TypeOK
    <3>5. CASE UpdateRow(w)
      <4>1. worker' # [worker EXCEPT ![w] = IdleWorker]
        <5>1. IdleWorker.pc = "idle" BY DEF IdleWorker
        <5>. QED BY <3>0, <5>1
      <4>2. worker' = [worker EXCEPT ![w].pc = AfterWrite(VulAt(w))]
        BY <3>5, <4>1, Zenon DEF UpdateRow
      <4>3. worker[w].pc = "update" BY <3>5 DEF UpdateRow
      <4>. QED BY <3>0, <3>2, <4>2, <4>3 DEF WorkerType
    <3>6. CASE StorePool(w)
      BY <3>0, <3>2, <3>6 DEF StorePool, WorkerType, IdleWorker
    <3>7. CASE ReleaseKey(w)
      BY <3>0, <3>2, <3>7 DEF ReleaseKey, WorkerType, IdleWorker
    <3>8. ~StorePoolRaises(w) BY <3>0 DEF StorePoolRaises, IdleWorker
    <3>. QED BY <2>1, <3>1, <3>3, <3>4, <3>5, <3>6, <3>7, <3>8 DEF SaveVul
  <2>. QED BY <2>1, <2>3, <2>4
<1>5. UserWrites => worker' = Noticed(rows') BY DEF UserWrites, SaveCopy, DeleteRow
<1>. QED BY <1>1, <1>2, <1>3, <1>4, <1>5, WorkerMoves

\* A user that begins to change a row holds a copy of it.
UserReads(u, r) == ReadForDelete(u, r) \/ \E st \in UserStatus : ReadForStatus(u, r, st)

\* A user's request moves in its own steps, and ends with its save.
LEMMA UserMoves ==
  ASSUME TypeOK, [Next]_vars, NEW u \in User, user'[u].pc # "idle"
  PROVE  user'[u] = user[u] \/ \E r \in RowId : UserReads(u, r)
<1>1. \A x \in User : \A t : [user EXCEPT ![x] = t][u] = IF u = x THEN t ELSE user[u]
  BY DEF TypeOK
<1>2. CASE user' = user BY <1>2
<1>3. CASE user' # user
  <2>1. UserStep
    BY <1>3 DEF Next, vars, QueueScan, StartSave, SaveVul, AddKey, CheckKey, CheckIgnore,
                FindRow, UpdateRow, CreateRow, StorePool, StorePoolRaises, ReleaseKey, Crash, ExpireKey
  <2>2. ASSUME NEW x \in User, SaveCopy(x) PROVE user'[u] = user[u]
    BY <1>1, <2>2 DEF SaveCopy, IdleUser
  <2>3. ~\E r \in RowId : DeleteRow(r) BY <1>3 DEF DeleteRow
  <2>4. ASSUME NEW x \in User, NEW r \in RowId, x # u,
               ReadForDelete(x, r) \/ \E st \in UserStatus : ReadForStatus(x, r, st)
        PROVE  user'[u] = user[u]
    <3>1. CASE ReadForDelete(x, r) BY <1>1, <2>4, <3>1 DEF ReadForDelete
    <3>2. ASSUME NEW st \in UserStatus, ReadForStatus(x, r, st) PROVE user'[u] = user[u]
      BY <1>1, <2>4, <3>2 DEF ReadForStatus
    <3>. QED BY <2>4, <3>1, <3>2
  <2>. QED BY <2>1, <2>2, <2>3, <2>4 DEF UserStep, UserReads
<1>. QED BY <1>2, <1>3

\* What a user has read stays the row of the same vulnerability at each step.
LEMMA UsersKnownStep ==
  ASSUME TypeOK, RowsKnown, UsersKnown, [Next]_vars
  PROVE  UsersKnown'
<1>. USE StoreAssumption DEF RowId
<1>. SUFFICES ASSUME NEW u \in User, user'[u].pc # "idle"
              PROVE  /\ user'[u].row \in 1..lastId'
                     /\ ~HardDelete => user'[u].copy.vul = rows'[user'[u].row].vul
  BY DEF UsersKnown
<1>1. CASE user'[u] = user[u] BY <1>1, RememberedKept DEF UsersKnown
<1>2. ASSUME NEW r \in RowId, ReadForDelete(u, r) PROVE user'[u].row = r
        /\ user'[u].copy.vul = rows[r].vul /\ UNCHANGED <<rows, lastId>> /\ Exists(r)
  <2>1. rows[r] \in Row BY DEF TypeOK
  <2>. QED BY <1>2, <2>1 DEF ReadForDelete, TypeOK, tables, Row
<1>3. ASSUME NEW r \in RowId, NEW st \in UserStatus, ReadForStatus(u, r, st)
      PROVE  user'[u].row = r
        /\ user'[u].copy.vul = rows[r].vul /\ UNCHANGED <<rows, lastId>> /\ Exists(r)
  <2>1. rows[r] \in Row BY DEF TypeOK
  <2>. QED BY <1>3, <2>1 DEF ReadForStatus, TypeOK, tables, Row
<1>4. user'[u] = user[u] \/ \E r \in RowId : UserReads(u, r) BY UserMoves
<1>5. ASSUME NEW r \in RowId, Exists(r) PROVE r \in 1..lastId
  BY <1>5 DEF RowsKnown, TypeOK
<1>. QED BY <1>1, <1>2, <1>3, <1>4, <1>5 DEF UserReads

--------------------------------------------------------------------------------
(* The lock, and what it protects.                                           *)

\* Past the lock a worker has a row, or holds the key of a vulnerability without one.
LEMMA WriterHasRow ==
  ASSUME TypeOK, RowsKnown, WorkersKnown, ~HardDelete, NEW w \in Worker,
         worker[w].pc \in {"update", "pool", "release"}
  PROVE  RowsOf(VulAt(w)) # {}
<1>. USE StoreAssumption DEF RowId
<1>1. worker[w].row \in 1..lastId /\ rows[worker[w].row].vul = VulAt(w) BY DEF WorkersKnown
<1>2. worker[w].row \in RowId /\ VulAt(w) \in Vul BY <1>1, AtTyped DEF TypeOK
<1>3. Exists(worker[w].row) BY <1>1, <1>2 DEF Exists, NoRow
<1>. QED BY <1>1, <1>2, <1>3 DEF RowsOf

\* A worker that goes away leaves its key to expire.
KeyLeaver(x) == CheckIgnore(x) \/ UpdateRow(x) \/ StorePoolRaises(x) \/ Crash(x)

\* A key changes when a worker adds it, leaves it, or deletes it, or when it expires.
LEMMA KeyWriters ==
  ASSUME TypeOK, [Next]_vars, NEW l \in Lock
  PROVE  \/ cache'[l] = cache[l]
         \/ \E x \in Worker : AddKey(x) /\ LockAt(x) = l /\ cache[l] = "free" /\ cache'[l] = x
         \/ \E x \in Worker : KeyLeaver(x)
                                /\ cache[l] = x /\ cache'[l] = "left"
         \/ \E x \in Worker : ReleaseKey(x) /\ LockAt(x) = l
         \/ ExpireKey(l)
<1>1. \A k \in Lock : \A t : [cache EXCEPT ![k] = t][l] = IF l = k THEN t ELSE cache[l]
  BY DEF TypeOK
<1>2. \A x : KeyLeftBy(x)[l] = IF cache[l] = x THEN "left" ELSE cache[l] BY DEF KeyLeftBy
<1>3. CASE UNCHANGED cache BY <1>3
<1>4. ASSUME NEW x \in Worker, AddKey(x)
      PROVE  cache'[l] = cache[l] \/ (LockAt(x) = l /\ cache[l] = "free" /\ cache'[l] = x)
  <2>1. LockAt(x) \in Lock BY <1>4, AtTyped DEF AddKey
  <2>. QED BY <1>1, <1>4, <2>1 DEF AddKey
<1>5. ASSUME NEW x \in Worker, cache' = KeyLeftBy(x)
      PROVE  cache'[l] = cache[l] \/ (cache[l] = x /\ cache'[l] = "left")
  BY <1>2, <1>5
<1>6. ASSUME NEW x \in Worker, ReleaseKey(x)
      PROVE  cache'[l] = cache[l] \/ LockAt(x) = l
  <2>1. LockAt(x) \in Lock BY <1>6, AtTyped DEF ReleaseKey
  <2>. QED BY <1>1, <1>6, <2>1 DEF ReleaseKey
<1>7. ASSUME NEW k \in Lock, ExpireKey(k), k # l PROVE cache'[l] = cache[l]
  BY <1>1, <1>7 DEF ExpireKey
<1>8. \/ UNCHANGED cache
      \/ \E x \in Worker : AddKey(x)
      \/ \E x \in Worker : KeyLeaver(x) /\ cache' = KeyLeftBy(x)
      \/ \E x \in Worker : ReleaseKey(x)
      \/ \E k \in Lock : ExpireKey(k)
  BY Zenon DEF Next, vars, tables, QueueScan, StartSave, SaveVul, CheckKey, CheckIgnore,
         FindRow, UpdateRow, CreateRow, StorePool, StorePoolRaises, Crash, UserStep,
         ReadForStatus, ReadForDelete, SaveCopy, DeleteRow, KeyLeaver
<1>. QED BY <1>3, <1>4, <1>5, <1>6, <1>7, <1>8

\* The part of LockBacked that one worker has to keep.
Backed(w) ==
  worker[w].pc # "idle" /\ VulAt(w) \in Taint =>
    /\ worker[w].pc = "check" => cache[LockAt(w)] # "free" \/ RowsOf(VulAt(w)) # {}
    /\ worker[w].pc \in {"ignore", "find"} => cache[LockAt(w)] = w \/ RowsOf(VulAt(w)) # {}
    /\ worker[w].pc = "create" => cache[LockAt(w)] = w /\ RowsOf(VulAt(w)) = {}

\* Others do not take away what a worker relies on.
LEMMA OthersKeep ==
  ASSUME TypeOK, RowsKnown, WorkersKnown, UsersKnown, LockBacked, [Next]_vars,
         ~HardDelete, ~SlowWorker, NEW w \in Worker, ~SaveVul(w), ~Crash(w),
         worker[w].pc # "idle", VulAt(w) \in Taint
  PROVE  /\ RowsOf(VulAt(w)) # {} => RowsOf(VulAt(w))' # {} \/ VulAt(w)' # VulAt(w)
         /\ worker[w].pc = "check" /\ cache[LockAt(w)] # "free" =>
              cache'[LockAt(w)] # "free" \/ RowsOf(VulAt(w)) # {}
         /\ cache[LockAt(w)] = w => cache'[LockAt(w)] = w \/ RowsOf(VulAt(w)) # {}
<1>. DEFINE v == VulAt(w)
            l == LockAt(w)
<1>0. v \in Vul /\ l \in Lock /\ worker[w].sighting \in Sighting BY AtTyped
<1>1. RowsOf(v) # {} => RowsOf(VulAt(w))' # {} \/ VulAt(w)' # VulAt(w)
  <2>. SUFFICES ASSUME RowsOf(v) # {}, VulAt(w)' = v PROVE RowsOf(VulAt(w))' # {}
    OBVIOUS
  <2>1. RowsOf(v)' # {} BY <1>0, RowsOfStep
  <2>. QED BY <2>1 DEF RowsOf
<1>2. ASSUME NEW x \in Worker, ReleaseKey(x), LockAt(x) = l PROVE RowsOf(v) # {}
  <2>1. worker[x].sighting \in Sighting BY <1>2, AtTyped DEF ReleaseKey
  <2>2. VulAt(x) = v BY <1>0, <1>2, <2>1, TaintLockAssumption DEF VulAt, LockAt
  <2>. QED BY <1>2, <2>2, WriterHasRow DEF ReleaseKey
<1>3. ExpireKey(l) => worker[w].pc # "check" /\ cache[l] # w BY DEF ExpireKey, Unused
<1>5. \A x \in Worker : x # "free" /\ x # "left" BY StoreAssumption
<1>6. cache[l] = w => ~\E x \in Worker : KeyLeaver(x)
                                           /\ cache[l] = x
  BY DEF SaveVul, KeyLeaver
<1>. QED BY <1>0, <1>1, <1>2, <1>3, <1>5, <1>6, KeyWriters

\* At each step the key of a tainted flow excludes others until there is a row.
LEMMA LockBackedStep ==
  ASSUME TypeOK, RowsKnown, WorkersKnown, UsersKnown, LockBacked, [Next]_vars
  PROVE  LockBacked'
<1>. SUFFICES ASSUME ~HardDelete, ~SlowWorker, NEW w \in Worker PROVE Backed(w)'
  BY DEF LockBacked, Backed
<1>1. \A x \in Worker : Backed(x) BY DEF LockBacked, Backed
<1>2. CASE /\ worker'[w].pc = worker[w].pc /\ worker'[w].sighting = worker[w].sighting
           /\ ~SaveVul(w) /\ ~Crash(w)
  <2>. SUFFICES ASSUME worker[w].pc # "idle", VulAt(w) \in Taint PROVE Backed(w)'
    BY <1>2 DEF Backed, VulAt
  <2>1. VulAt(w)' = VulAt(w) /\ LockAt(w)' = LockAt(w) BY <1>2 DEF VulAt, LockAt
  <2>2. ASSUME worker[w].pc = "create" PROVE RowsOf(VulAt(w))' = {}
    <3>1. cache[LockAt(w)] = w /\ RowsOf(VulAt(w)) = {} BY <1>1, <2>2 DEF Backed
    <3>2. ASSUME NEW x \in Worker, CreateRow(x), VulAt(x) = VulAt(w) PROVE FALSE
      <4>1. worker[x].pc = "create" BY <3>2 DEF CreateRow
      <4>2. cache[LockAt(x)] = x BY <1>1, <3>2, <4>1 DEF Backed
      <4>3. worker[x].sighting \in Sighting /\ worker[w].sighting \in Sighting
        BY <4>1, AtTyped
      <4>4. LockAt(x) = LockAt(w) BY <3>2, <4>3, TaintLockAssumption DEF VulAt, LockAt
      <4>5. x = w BY <3>1, <4>2, <4>4
      <4>. QED BY <1>2, <3>2, <4>5 DEF SaveVul
    <3>3. VulAt(w) \in Vul BY AtTyped
    <3>4. \A v : v = VulAt(w) => (RowsOf(v)' = RowsOf(v) => RowsOf(VulAt(w))' = {})
      BY <2>1, <3>1 DEF RowsOf
    <3>. QED BY <3>2, <3>3, <3>4, RowsOfStep
  <2>. QED BY <1>1, <1>2, <2>1, <2>2, OthersKeep DEF Backed
<1>3. ASSUME NEW s \in Sighting, StartSave(w, s), worker'[w] # worker[w] PROVE Backed(w)'
  BY <1>3, Started DEF Backed
<1>4. CASE (SaveVul(w) \/ Crash(w)) /\ worker'[w].pc # "idle"
  <2>1. /\ worker[w].pc # "idle" /\ SaveVul(w)
        /\ VulAt(w)' = VulAt(w) /\ LockAt(w)' = LockAt(w)
    BY <1>4, OwnStep
  <2>2. /\ worker[w] \in WorkerType /\ \A t : [worker EXCEPT ![w] = t][w] = t
        /\ LockAt(w) \in Lock /\ \A t : [cache EXCEPT ![LockAt(w)] = t][LockAt(w)] = t
    BY <2>1, AtTyped DEF TypeOK
  <2>3. UNCHANGED rows => (RowsOf(VulAt(w))' = RowsOf(VulAt(w)))
    BY <2>1 DEF RowsOf, Exists
  <2>4. CASE AddKey(w)
    <3>1. worker'[w].pc = "check" BY <2>2, <2>4 DEF AddKey, WorkerType
    <3>2. cache'[LockAt(w)] # "free"
      BY <2>2, <2>4, StoreAssumption DEF AddKey
    <3>. QED BY <2>1, <3>1, <3>2 DEF Backed
  <2>5. CASE CheckKey(w)
    <3>1. cache[LockAt(w)] \in {"free", w}
      BY <1>4, <2>2, <2>5 DEF CheckKey, IdleWorker
    <3>2. worker'[w].pc = IF VulAt(w) \in Taint THEN "ignore" ELSE "find"
      BY <2>2, <2>5, <3>1 DEF CheckKey, WorkerType
    <3>3. UNCHANGED <<rows, cache>> /\ worker[w].pc = "check" BY <2>5 DEF CheckKey, tables
    <3>. QED BY <1>1, <2>1, <2>3, <3>1, <3>2, <3>3 DEF Backed
  <2>6. CASE CheckIgnore(w)
    <3>1. worker' # [worker EXCEPT ![w] = IdleWorker] BY <1>4, <2>2 DEF IdleWorker
    <3>2. worker' = [worker EXCEPT ![w].pc = "find"] /\ UNCHANGED cache
      BY <2>6, <3>1, Zenon DEF CheckIgnore
    <3>3. worker'[w].pc = "find" BY <2>2, <3>2 DEF WorkerType
    <3>4. UNCHANGED rows /\ worker[w].pc = "ignore" BY <2>6 DEF CheckIgnore, tables
    <3>. QED BY <1>1, <2>1, <2>3, <3>2, <3>3, <3>4 DEF Backed
  <2>7. CASE FindRow(w)
    <3>1. UNCHANGED <<rows, cache>> /\ worker[w].pc = "find" BY <2>7 DEF FindRow, tables
    <3>2. CASE RowsOf(VulAt(w)) = {} /\ worker' = [worker EXCEPT ![w].pc = "create"]
      <4>1. worker'[w].pc = "create" BY <2>2, <3>2 DEF WorkerType
      <4>. QED BY <1>1, <2>1, <2>3, <3>1, <3>2, <4>1 DEF Backed
    <3>3. ASSUME NEW r, worker' = [worker EXCEPT ![w] =
                   [@ EXCEPT !.pc = "update", !.row = r, !.counts = rows[r].counts]]
          PROVE  worker'[w].pc = "update"
      BY <2>2, <3>3 DEF WorkerType
    <3>4. worker'[w].pc = "update" => Backed(w)' BY DEF Backed
    <3>. QED BY <2>7, <3>2, <3>3, <3>4, Zenon DEF FindRow
  <2>8. CASE UpdateRow(w) \/ CreateRow(w) \/ StorePool(w) \/ ReleaseKey(w)
    <3>1. worker'[w].pc \in {"pool", "release"}
      <4>1. CASE UpdateRow(w)
        <5>1. worker' # [worker EXCEPT ![w] = IdleWorker] BY <1>4, <2>2 DEF IdleWorker
        <5>2. worker' = [worker EXCEPT ![w].pc = AfterWrite(VulAt(w))]
          BY <4>1, <5>1, Zenon DEF UpdateRow
        <5>. QED BY <2>2, <5>2 DEF WorkerType, AfterWrite
      <4>2. CASE CreateRow(w) BY <2>2, <4>2 DEF CreateRow, WorkerType, AfterWrite
      <4>3. CASE StorePool(w) BY <1>4, <2>2, <4>3 DEF StorePool, WorkerType, IdleWorker
      <4>4. CASE ReleaseKey(w) BY <1>4, <2>2, <4>4 DEF ReleaseKey, WorkerType, IdleWorker
      <4>. QED BY <2>8, <4>1, <4>2, <4>3, <4>4
    <3>. QED BY <3>1 DEF Backed
  <2>9. ~StorePoolRaises(w) BY <1>4, <2>2 DEF StorePoolRaises, IdleWorker
  <2>. QED BY <2>1, <2>4, <2>5, <2>6, <2>7, <2>8, <2>9 DEF SaveVul
<1>5. worker'[w].pc = "idle" => Backed(w)' BY DEF Backed
<1>6. CASE worker' = Noticed(rows') /\ ~SaveVul(w) /\ ~Crash(w) BY <1>2, <1>6, NoticedKeeps
<1>. QED BY <1>2, <1>3, <1>4, <1>5, <1>6, WorkerMoves

\* No step gives a tainted flow a second row: only CreateRow adds one, to none.
LEMMA TaintOnceStep ==
  ASSUME TypeOK, RowsKnown, WorkersKnown, UsersKnown, LockBacked, TaintOnce, [Next]_vars
  PROVE  TaintOnce'
<1>. SUFFICES ASSUME ~HardDelete, ~SlowWorker, NEW v \in Taint PROVE Single(v)'
  BY DEF TaintOnce
<1>1. v \in Vul BY StoreAssumption
<1>2. Single(v) BY DEF TaintOnce
<1>3. ASSUME NEW w \in Worker, CreateRow(w), VulAt(w) = v PROVE RowsOf(v) = {}
  BY <1>3 DEF CreateRow, LockBacked
<1>4. CASE RowsOf(v)' = RowsOf(v) BY <1>2, <1>4 DEF Single
<1>5. CASE RowsOf(v)' = {lastId + 1} BY <1>5 DEF Single
<1>. QED BY <1>1, <1>3, <1>4, <1>5, RowsOfStep

\* No step takes a save whose vulnerability was ignored all along past CheckIgnore.
LEMMA IgnoreStep ==
  ASSUME TypeOK, WorkersKnown, IgnoreHonoured, [Next]_vars
  PROVE  IgnoreHonoured'
<1>. SUFFICES ASSUME NEW w \in Worker, worker'[w].pc \in {"find", "update", "create"},
                     VulAt(w)' \in Taint
              PROVE  ~worker'[w].ignored
  BY DEF IgnoreHonoured
<1>1. CASE worker'[w] = worker[w] BY <1>1 DEF IgnoreHonoured, VulAt
<1>2. CASE worker' = Noticed(rows')
  <2>1. VulAt(w)' = VulAt(w) BY <1>2, NoticedKeeps DEF VulAt
  <2>. QED BY <1>2, <2>1, NoticedKeeps DEF IgnoreHonoured
<1>3. CASE SaveVul(w) \/ Crash(w)
  <2>1. /\ worker[w].pc # "idle" /\ SaveVul(w)
        /\ worker'[w].ignored = worker[w].ignored /\ VulAt(w)' = VulAt(w)
    BY <1>3, OwnStep
  <2>2. worker[w] \in WorkerType /\ \A t : [worker EXCEPT ![w] = t][w] = t BY DEF TypeOK
  <2>3. CASE worker[w].pc = "find" BY <2>1, <2>3 DEF IgnoreHonoured
  <2>4. CASE CheckIgnore(w)
    <3>1. worker' # [worker EXCEPT ![w] = IdleWorker] BY <2>2 DEF IdleWorker
    <3>2. ~IgnoredIn(rows, VulAt(w)) BY <2>4, <3>1, Zenon DEF CheckIgnore
    <3>. QED BY <2>1, <3>2 DEF WorkersKnown
  <2>5. ~CheckKey(w)
    <3>1. CASE CheckKey(w)
      <4>1. worker'[w].pc \in {"ignore", "idle"}
        BY <2>1, <2>2, <3>1 DEF CheckKey, WorkerType, IdleWorker
      <4>. QED BY <4>1
    <3>. QED BY <3>1
  <2>6. ~AddKey(w) BY <2>2 DEF AddKey, WorkerType
  <2>7. CASE worker[w].pc \in {"update", "create"} BY <2>1, <2>7 DEF IgnoreHonoured
  <2>8. CASE StorePool(w) BY <2>2, <2>8 DEF StorePool, WorkerType, IdleWorker
  <2>9. CASE ReleaseKey(w) BY <2>2, <2>9 DEF ReleaseKey, WorkerType, IdleWorker
  <2>10. CASE StorePoolRaises(w) BY <2>2, <2>10 DEF StorePoolRaises, IdleWorker
  <2>. QED BY <2>1, <2>3, <2>4, <2>5, <2>6, <2>7, <2>8, <2>9, <2>10 DEF SaveVul, FindRow, UpdateRow, CreateRow
<1>4. ASSUME NEW s \in Sighting, StartSave(w, s), worker'[w] # worker[w] PROVE FALSE
  BY <1>4, Started
<1>. QED BY <1>1, <1>2, <1>3, <1>4, WorkerMoves

--------------------------------------------------------------------------------
(* The evidence of a row, and its status.                                    *)

\* A worker of vul_handler.save_vul that has only its key left to delete has written the
\* pool of its row: what makes EvidenceStored inductive, since such a worker is counted
\* by it and goes away without a trace.
PoolWritten ==
  ~HardDelete => \A w \in Worker :
    worker[w].pc = "release" /\ VulAt(w) \in Taint => pools[worker[w].row] # {}

\* The pools of a row are written by StorePool alone, unless rows are deleted.
LEMMA PoolWriters ==
  ASSUME TypeOK, [Next]_vars, ~HardDelete, NEW r \in RowId
  PROVE  \/ pools'[r] = pools[r]
         \/ (\E w \in Worker : StorePool(w) /\ worker[w].row = r) /\ pools'[r] # {}
<1>1. CASE UNCHANGED pools BY <1>1
<1>2. ASSUME NEW w \in Worker, StorePool(w)
      PROVE  pools'[r] = pools[r] \/ (worker[w].row = r /\ pools'[r] # {})
  BY <1>2 DEF StorePool, TypeOK
<1>3. UNCHANGED pools \/ \E w \in Worker : StorePool(w)
  BY Zenon DEF Next, vars, tables, QueueScan, StartSave, SaveVul, AddKey, CheckKey,
         CheckIgnore, FindRow, UpdateRow, CreateRow, StorePoolRaises, ReleaseKey, Crash,
         ExpireKey, UserStep, ReadForStatus, ReadForDelete, SaveCopy, DeleteRow
<1>. QED BY <1>1, <1>2, <1>3

\* Evidence that is there, or about to be written, stays so: a worker that has a pool to
\* write and can write it does so before it goes.
LEMMA EvidenceKept ==
  ASSUME TypeOK, PoolWritten, [Next]_vars, ~HardDelete, \A w \in Worker : ~Crash(w),
         NEW r \in RowId, HasEvidence(r)
  PROVE  HasEvidence(r)'
<1>1. CASE pools[r] # {}
  <2>1. pools'[r] # {} BY <1>1, PoolWriters
  <2>. QED BY <2>1 DEF HasEvidence
<1>2. ASSUME NEW w \in Worker, worker[w].pc \in {"pool", "release"}, worker[w].row = r,
             worker[w].sighting \notin Replayed
      PROVE  \/ /\ worker'[w].pc \in {"pool", "release"} /\ worker'[w].row = r
                /\ worker'[w].sighting \notin Replayed
             \/ pools'[r] # {}
  <2>1. worker[w] \in WorkerType /\ \A t : [worker EXCEPT ![w] = t][w] = t BY DEF TypeOK
  <2>2. CASE worker'[w] = worker[w] BY <1>2, <2>2
  <2>3. CASE worker' = Noticed(rows') BY <1>2, <2>3, NoticedKeeps
  <2>4. CASE StorePool(w) BY <1>2, <2>4 DEF StorePool, TypeOK
  <2>5. CASE ReleaseKey(w)
    <3>1. CASE VulAt(w) \in Taint BY <1>2, <2>5, <3>1 DEF ReleaseKey, tables, PoolWritten
    <3>2. CASE VulAt(w) \notin Taint BY <1>2, <2>1, <2>5, <3>2 DEF ReleaseKey, WorkerType
    <3>. QED BY <3>1, <3>2
  <2>6. /\ ~\E s \in Sighting : StartSave(w, s)
        /\ SaveVul(w) => StorePool(w) \/ ReleaseKey(w)
    BY <1>2 DEF SaveVul, StartSave, AddKey, CheckKey, CheckIgnore, FindRow, UpdateRow,
                CreateRow, StorePoolRaises
  <2>. QED BY <2>2, <2>3, <2>4, <2>5, <2>6, WorkerMoves
<1>. QED BY <1>1, <1>2 DEF HasEvidence

\* No step brings a worker to its last write without the pool before it.
LEMMA PoolWrittenStep ==
  ASSUME TypeOK, WorkersKnown, PoolWritten, [Next]_vars PROVE PoolWritten'
<1>. SUFFICES ASSUME ~HardDelete, NEW w \in Worker, worker'[w].pc = "release",
                     VulAt(w)' \in Taint
              PROVE  pools'[worker'[w].row] # {}
  BY DEF PoolWritten
<1>. USE StoreAssumption DEF RowId
<1>1. worker[w] \in WorkerType /\ \A t : [worker EXCEPT ![w] = t][w] = t BY DEF TypeOK
<1>2. ASSUME worker[w].pc = "release", worker'[w].row = worker[w].row, VulAt(w)' = VulAt(w)
      PROVE  pools'[worker'[w].row] # {}
  <2>1. worker[w].row \in RowId BY <1>2 DEF WorkersKnown, TypeOK
  <2>. QED BY <1>2, <2>1, PoolWriters DEF PoolWritten
<1>3. CASE worker'[w] = worker[w] BY <1>2, <1>3 DEF VulAt
<1>4. CASE worker' = Noticed(rows') BY <1>2, <1>4, NoticedKeeps DEF VulAt
<1>5. CASE SaveVul(w) \/ Crash(w)
  <2>1. SaveVul(w) /\ VulAt(w)' = VulAt(w) BY <1>5, OwnStep
  <2>2. CASE StorePool(w)
    <3>1. worker[w].row \in RowId BY <2>2 DEF StorePool, WorkersKnown, TypeOK
    <3>2. worker'[w].row = worker[w].row BY <1>1, <2>1, <2>2 DEF StorePool, WorkerType
    <3>. QED BY <2>2, <3>1, <3>2 DEF StorePool, TypeOK
  <2>3. ~UpdateRow(w)
    <3>1. CASE worker' = [worker EXCEPT ![w] = IdleWorker] BY <1>1, <3>1 DEF IdleWorker
    <3>2. CASE worker' = [worker EXCEPT ![w].pc = AfterWrite(VulAt(w))]
      <4>1. AfterWrite(VulAt(w)) = "pool" BY <2>1 DEF AfterWrite
      <4>2. worker'[w] = [worker[w] EXCEPT !.pc = "pool"] BY <1>1, <3>2, <4>1
      <4>. QED BY <1>1, <4>2 DEF WorkerType
    <3>. QED BY <3>1, <3>2, Zenon DEF UpdateRow
  <2>4. ~CreateRow(w)
    <3>1. AfterWrite(VulAt(w)) = "pool" BY <2>1 DEF AfterWrite
    <3>2. CASE CreateRow(w)
      <4>1. worker'[w] = [worker[w] EXCEPT !.pc = "pool", !.row = lastId + 1]
        BY <1>1, <3>1, <3>2 DEF CreateRow
      <4>. QED BY <1>1, <4>1 DEF WorkerType
    <3>. QED BY <3>2
  <2>5. ~AddKey(w) /\ ~CheckKey(w) /\ ~ReleaseKey(w)
    BY <1>1, <2>1 DEF AddKey, CheckKey, ReleaseKey, WorkerType, IdleWorker
  <2>6. ~CheckIgnore(w)
    <3>1. CASE worker' = [worker EXCEPT ![w] = IdleWorker] BY <1>1, <3>1 DEF IdleWorker
    <3>2. ASSUME worker' = [worker EXCEPT ![w].pc = "find"] PROVE FALSE
      <4>1. worker'[w].pc = "find" BY <1>1, <3>2 DEF WorkerType
      <4>. QED BY <4>1
    <3>. QED BY <3>1, <3>2, Zenon DEF CheckIgnore
  <2>7. ~FindRow(w)
    <3>1. CASE worker' = [worker EXCEPT ![w].pc = "create"] BY <1>1, <3>1 DEF WorkerType
    <3>2. ASSUME NEW r, worker' = [worker EXCEPT ![w] =
                   [@ EXCEPT !.pc = "update", !.row = r, !.counts = rows[r].counts]]
          PROVE  FALSE
      BY <1>1, <3>2 DEF WorkerType
    <3>. QED BY <3>1, <3>2, Zenon DEF FindRow
  <2>8. ~StorePoolRaises(w) BY <1>1 DEF StorePoolRaises, IdleWorker
  <2>. QED BY <2>1, <2>2, <2>3, <2>4, <2>5, <2>6, <2>7, <2>8 DEF SaveVul
<1>6. ASSUME NEW s \in Sighting, StartSave(w, s), worker'[w] # worker[w] PROVE FALSE
  BY <1>6, Started
<1>. QED BY <1>3, <1>4, <1>5, <1>6, WorkerMoves

\* Whoever writes a row has its evidence to write, or is a replay.
LEMMA WriterAtWork ==
  ASSUME TypeOK, NEW w \in Worker, NEW r \in RowId, rows'[r] # rows[r],
         UpdateRow(w) \/ CreateRow(w)
  PROVE  HasEvidence(r)' \/ rows'[r].seen \in Replayed
<1>1. worker[w] \in WorkerType /\ \A t : [worker EXCEPT ![w] = t][w] = t BY DEF TypeOK
<1>2. AfterWrite(VulAt(w)) \in {"pool", "release"} BY DEF AfterWrite
<1>3. rows[r] \in Row BY DEF TypeOK
<1>4. CASE UpdateRow(w)
  <2>1. worker' = [worker EXCEPT ![w].pc = AfterWrite(VulAt(w))] /\ worker[w].row = r
    BY <1>4 DEF UpdateRow, TypeOK
  <2>2. /\ worker'[w].pc \in {"pool", "release"} /\ worker'[w].row = r
        /\ worker'[w].sighting = worker[w].sighting
    BY <1>1, <1>2, <2>1 DEF WorkerType
  <2>3. \/ rows'[r] = TaintUpdated(rows[r], worker[w].sighting, worker[w].counts)
        \/ rows'[r] = HeaderUpdated(rows[r], worker[w].sighting, worker[w].counts)
    BY <1>4, <2>1 DEF UpdateRow, TypeOK
  <2>4. rows'[r].seen = worker[w].sighting
    BY <1>3, <2>3 DEF TaintUpdated, HeaderUpdated, Row
  <2>. QED BY <2>2, <2>4 DEF HasEvidence
<1>5. CASE CreateRow(w)
  <2>1. r = lastId + 1 BY <1>5 DEF CreateRow, TypeOK
  <2>2. /\ worker'[w].pc \in {"pool", "release"} /\ worker'[w].row = r
        /\ worker'[w].sighting = worker[w].sighting
    BY <1>1, <1>2, <1>5, <2>1 DEF CreateRow, WorkerType
  <2>3. rows'[r].seen = worker[w].sighting
    BY <1>5, <2>1 DEF CreateRow, TypeOK, TaintRow, HeaderRow
  <2>. QED BY <2>2, <2>3 DEF HasEvidence
<1>. QED BY <1>4, <1>5

\* A worker is killed only in a step that counts it, and killed workers stay counted.
LEMMA CrashCounted ==
  ASSUME TypeOK, [Next]_vars
  PROVE  (crashes > 0 => crashes' > 0) /\ \A w \in Worker : Crash(w) => crashes' > 0
<1>1. \A w \in Worker : Crash(w) => crashes' = crashes + 1 BY DEF Crash
<1>2. UNCHANGED crashes \/ crashes' = crashes + 1
  BY Zenon DEF Next, vars, QueueScan, StartSave, SaveVul, AddKey, CheckKey, CheckIgnore,
       FindRow, UpdateRow, CreateRow, StorePool, StorePoolRaises, ReleaseKey, Crash,
       ExpireKey, UserStep, ReadForStatus, ReadForDelete, SaveCopy, DeleteRow
<1>. QED BY <1>1, <1>2, StoreAssumption DEF TypeOK

\* What users hold copies of has evidence, or their copies were written by a replay: what
\* makes EvidenceStored inductive, since a stale save brings the copy back.
CopiesBacked ==
  crashes > 0 \/ HardDelete \/ \A u \in User : user[u].pc # "idle" =>
    HasEvidence(user[u].row) \/ user[u].copy.seen \in Replayed

\* No step leaves a row without evidence and without somebody who writes it.
LEMMA EvidenceStep ==
  ASSUME TypeOK, UsersKnown, PoolWritten, EvidenceStored, CopiesBacked, [Next]_vars
  PROVE  EvidenceStored' /\ CopiesBacked'
<1>. USE StoreAssumption DEF RowId
<1>. SUFFICES ASSUME ~(crashes' > 0), ~HardDelete
              PROVE  /\ \A r \in RowId : (Exists(r) => HasEvidence(r) \/ rows[r].seen \in Replayed)'
                     /\ \A u \in User : (user[u].pc # "idle" =>
                          HasEvidence(user[u].row) \/ user[u].copy.seen \in Replayed)'
  BY DEF EvidenceStored, CopiesBacked
<1>1. ~(crashes > 0) /\ \A w \in Worker : ~Crash(w) BY CrashCounted
<1>2. \A r \in RowId : HasEvidence(r) => HasEvidence(r)' BY <1>1, EvidenceKept
<1>3. \A r \in RowId : Exists(r) => HasEvidence(r)' \/ rows[r].seen \in Replayed
  BY <1>1, <1>2 DEF EvidenceStored
<1>4. ASSUME NEW u \in User, user[u].pc # "idle", NEW r, r = user[u].row
      PROVE  HasEvidence(r)' \/ user[u].copy.seen \in Replayed
  <2>1. r \in RowId BY <1>4 DEF UsersKnown, TypeOK
  <2>2. HasEvidence(r) \/ user[u].copy.seen \in Replayed BY <1>1, <1>4 DEF CopiesBacked
  <2>. QED BY <1>2, <2>1, <2>2
<1>5. ASSUME NEW r \in RowId, Exists(r)'
      PROVE  HasEvidence(r)' \/ rows'[r].seen \in Replayed
  <2>1. CASE rows'[r] = rows[r] BY <1>3, <1>5, <2>1 DEF Exists
  <2>2. ASSUME NEW w \in Worker, UpdateRow(w) \/ CreateRow(w), rows'[r] # rows[r]
        PROVE  HasEvidence(r)' \/ rows'[r].seen \in Replayed
    BY <2>2, WriterAtWork
  <2>3. ASSUME NEW u \in User, SaveCopy(u), rows'[r] # rows[r]
        PROVE  HasEvidence(r)' \/ rows'[r].seen \in Replayed
    <3>1. user[u].row = r /\ rows'[r] = user[u].copy /\ user[u].pc # "idle"
      BY <2>3 DEF SaveCopy, TypeOK
    <3>. QED BY <1>4, <3>1
  <2>4. ~\E q \in RowId : DeleteRow(q) BY DEF DeleteRow
  <2>. QED BY <2>1, <2>2, <2>3, <2>4, RowWriters DEF UserWrites
<1>6. ASSUME NEW u \in User, user'[u].pc # "idle", NEW q, q = user'[u].row
      PROVE  HasEvidence(q)' \/ user'[u].copy.seen \in Replayed
  <2>1. CASE user'[u] = user[u] BY <1>4, <1>6, <2>1
  <2>2. ASSUME NEW r \in RowId, UserReads(u, r)
        PROVE  HasEvidence(q)' \/ user'[u].copy.seen \in Replayed
    <3>1. user'[u].row = r /\ user'[u].copy.seen = rows[r].seen /\ Exists(r)
      <4>1. rows[r] \in Row BY DEF TypeOK
      <4>. QED BY <2>2, <4>1 DEF UserReads, ReadForDelete, ReadForStatus, TypeOK, Row
    <3>. QED BY <1>3, <1>6, <3>1
  <2>. QED BY <1>6, <2>1, <2>2, UserMoves
<1>. QED BY <1>5, <1>6

\* The status of a row that stays is written by the user who holds a copy of it, who then
\* is done with it.
LEMMA StatusStep ==
  ASSUME TypeOK, RowsKnown, [Next]_vars, NEW r \in RowId, Exists(r), Exists(r)',
         rows[r].status # rows'[r].status
  PROVE  \E u \in User : user[u].row = r /\ user'[u] # user[u]
<1>. USE StoreAssumption DEF RowId
<1>1. ~UNCHANGED rows OBVIOUS
<1>2. ASSUME NEW w \in Worker, UpdateRow(w) PROVE FALSE BY <1>2, UpdateRowWrites
<1>3. ASSUME NEW w \in Worker, CreateRow(w) PROVE FALSE
  <2>1. rows[lastId + 1] = NoRow /\ lastId + 1 \in RowId
    BY <1>3 DEF CreateRow, RowsKnown, Exists, TypeOK
  <2>2. r # lastId + 1 BY <2>1 DEF Exists
  <2>. QED BY <1>3, <2>2 DEF CreateRow, TypeOK
<1>4. ASSUME NEW u \in User, SaveCopy(u) PROVE user[u].row = r /\ user'[u] # user[u]
  <2>1. user[u].row = r BY <1>4 DEF SaveCopy, TypeOK
  <2>2. user'[u].pc = "idle" BY <1>4 DEF SaveCopy, TypeOK, IdleUser
  <2>. QED BY <1>4, <2>1, <2>2 DEF SaveCopy
<1>5. ASSUME NEW q \in RowId, DeleteRow(q) PROVE FALSE
  BY <1>5 DEF DeleteRow, TypeOK, Exists
<1>. QED BY <1>1, <1>2, <1>3, <1>4, <1>5, RowWriters DEF UserWrites

--------------------------------------------------------------------------------
(* The theorems.                                                             *)

IInv == TypeOK /\ StoreBacked /\ TaintOnce /\ IgnoreHonoured

\* The inductive invariant holds at the start.
THEOREM InitIInv == Init => IInv
<1>. SUFFICES ASSUME Init PROVE IInv
  OBVIOUS
<1>1. TypeOK BY InitTyped
<1>2. \A v : RowsOf(v) = {} BY DEF Init, RowsOf, Exists
<1>3. \A w \in Worker : worker[w].pc = "idle" BY DEF Init, IdleWorker
<1>4. \A u \in User : user[u].pc = "idle" BY DEF Init, IdleUser
<1>5. RowsKnown BY StoreAssumption DEF Init, RowsKnown, Exists, RowId
<1>. QED BY <1>1, <1>2, <1>3, <1>4, <1>5
       DEF IInv, StoreBacked, WorkersKnown, UsersKnown, LockBacked, TaintOnce, Single,
           IgnoreHonoured

\* Every step of workers, cache and users keeps the inductive invariant.
THEOREM StepIInv == IInv /\ [Next]_vars => IInv'
  BY StepTyped, RowsKnownStep, WorkersKnownStep, UsersKnownStep, LockBackedStep,
     TaintOnceStep, IgnoreStep
  DEF IInv, StoreBacked

\* The inductive invariant holds in every reachable state of the storage.
THEOREM IInvAlways == Spec => []IInv
  BY InitIInv, StepIInv, PTL DEF Spec

\* The key does its work until there is a row, and what workers and users remember of rows
\* and of ignored vulnerabilities stays right (vul_handler.save_vul, VulStatus.post).
THEOREM StoreAlwaysBacked == Spec => []StoreBacked
<1>1. IInv => StoreBacked BY DEF IInv
<1>. QED BY <1>1, IInvAlways, PTL

\* A tainted flow is stored in one row, for any number of workers and sightings, when
\* nobody deletes rows and no key expires in use (vul_handler.save_vul).
THEOREM TaintStoredOnce == Spec => []TaintOnce
<1>1. IInv => TaintOnce BY DEF IInv
<1>. QED BY <1>1, IInvAlways, PTL

\* What the project has ignored all along is not stored again, with deleted rows, expired
\* keys and stale saves of users in between (vul_handler.save_vul).
THEOREM IgnoreAlwaysHonoured == Spec => []IgnoreHonoured
<1>1. IInv => IgnoreHonoured BY DEF IInv
<1>. QED BY <1>1, IInvAlways, PTL

\* While no worker is killed and nobody deletes rows, only replays leave a row without the
\* pool or url that shows it: any other row has it, or the worker that wrote the row has
\* still to write it, however users' stale saves come in between (save_vul, and
\* VulMethodPool or IastHeaderVulnerability, are two writes).
THEOREM EvidenceAlwaysStored == Spec => []EvidenceStored
<1>. DEFINE EInv == PoolWritten /\ EvidenceStored /\ CopiesBacked
<1>1. Init => EInv
  BY DEF Init, IdleWorker, IdleUser, Exists, PoolWritten, EvidenceStored, CopiesBacked
<1>2. IInv /\ EInv /\ [Next]_vars => EInv'
  BY PoolWrittenStep, EvidenceStep DEF IInv, StoreBacked
<1>3. EInv => EvidenceStored OBVIOUS
<1>. QED BY <1>1, <1>2, <1>3, IInvAlways, PTL DEF Spec

\* No scan changes the status of a row, with any number of workers and users between
\* the read and the write of each other (update_fields of both save_vul).
THEOREM StatusChangedByUsers == Spec => StatusOnlyByUsers
<1>1. IInv /\ [Next]_vars =>
        [\A r \in RowId : Exists(r) /\ Exists(r)' /\ rows[r].status # rows'[r].status
           => \E u \in User : user[u].row = r /\ user'[u] # user[u]]_rows
  BY StatusStep DEF IInv, StoreBacked
<1>. QED BY <1>1, IInvAlways, PTL DEF Spec, StatusOnlyByUsers

================================================================================
