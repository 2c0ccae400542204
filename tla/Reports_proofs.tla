----------------------------- MODULE Reports_proofs -----------------------------
(* Proofs about the components of Reports, for any number of handlers, users,  *)
(* vulnerabilities, findings and marks.                                        *)
EXTENDS Reports, FiniteSetTheorems, SequenceTheorems, NaturalsInduction, WellFoundedInduction, TLAPS

\* The component at work stays the same.
LEMMA PartStays == [Next]_vars => UNCHANGED part
  BY DEF Next, vars

--------------------------------------------------------------------------------
(* DirectFindings: what handlers remember.                                     *)

FindingRow == [kind: direct!Kind, key: Weakness, uri: {"key", "tuple"}, isDel: BOOLEAN,
               status: {"CONFIRMED", "OTHER"}, counts: Nat]
Report == [step: {"idle", "create", "update", "prune", "finish"}, kind: direct!Kind,
           id: 0..MaxReports, row: FindingRow \cup {direct!NoRow}]

FindingsTyped ==
  /\ rows \in [direct!Id -> FindingRow \cup {direct!NoRow}]
  /\ worker \in [Handler -> Report]

\* The handlers that have found or created a row and not yet pruned the older ones.
Holds(w, i) == worker[w].step \in {"update", "prune"} /\ worker[w].id = i
SameFinding(row, w) == row.kind = worker[w].kind /\ row.key = worker[w].row.key

\* A handler writes a row of the kind it was asked about.
HandlersKnown == \A w \in Handler :
  /\ worker[w].step # "idle" => worker[w].row \in FindingRow /\ worker[w].row.kind = worker[w].kind
  /\ worker[w].step \in {"update", "prune"} => worker[w].id \in direct!Id \cap logged

\* Ids are not given twice, so what several handlers know of an id agrees.
IdsAgree ==
  /\ \A i \in direct!Id : direct!Exists(i) => i \in logged
  /\ \A w \in Handler, i \in direct!Id :
       Holds(w, i) => /\ direct!Exists(i) => SameFinding(rows[i], w)
                      /\ \A x \in Handler : Holds(x, i) => SameFinding(worker[x].row, w)

\* Before a handler prunes, a row of its finding that is not older is there.
NewestStays == \A w \in Handler :
  worker[w].step = "prune" /\ <<worker[w].kind, worker[w].row.key>> \notin removed =>
    \E j \in direct!Of(worker[w].kind, worker[w].row.key) : j >= worker[w].id

FindingsSafe == FindingsTyped /\ HandlersKnown /\ IdsAgree /\ NewestStays

\* The row a finding is created with, and the row after a report was added to it.
LEMMA RowsWritten ==
  /\ \A kind \in direct!Kind, key \in Weakness :
       /\ direct!New(kind, key) \in FindingRow
       /\ direct!New(kind, key).kind = kind /\ direct!New(kind, key).key = key
  /\ \A row \in FindingRow :
       /\ direct!Updated(row) \in FindingRow /\ row # direct!NoRow
       /\ direct!Updated(row).kind = row.kind /\ direct!Updated(row).key = row.key
<1>1. \A kind \in direct!Kind, key \in Weakness :
        /\ direct!New(kind, key) \in FindingRow
        /\ direct!New(kind, key).kind = kind /\ direct!New(kind, key).key = key
  BY DEF direct!New, FindingRow
<1>2. ASSUME NEW row \in FindingRow
      PROVE  /\ direct!Updated(row) \in FindingRow /\ row # direct!NoRow
             /\ direct!Updated(row).kind = row.kind /\ direct!Updated(row).key = row.key
  <2>1. row # direct!NoRow
    BY DEF FindingRow, direct!NoRow, direct!Kind
  <2>2. CASE row.kind = "normal"
    <3>1. PICK c \in Nat : c = row.counts + 1
      BY DEF FindingRow
    <3>2. direct!Updated(row) = [row EXCEPT !.counts = c, !.status = "CONFIRMED"]
      BY <2>2, <3>1 DEF direct!Updated
    <3>3. /\ [row EXCEPT !.counts = c, !.status = "CONFIRMED"] \in FindingRow
          /\ [row EXCEPT !.counts = c, !.status = "CONFIRMED"].kind = row.kind
          /\ [row EXCEPT !.counts = c, !.status = "CONFIRMED"].key = row.key
      BY DEF FindingRow
    <3>. QED BY <2>1, <3>2, <3>3
  <2>3. CASE row.kind # "normal"
    <3>1. direct!Updated(row) = [row EXCEPT !.uri = "tuple"]
      BY <2>3 DEF direct!Updated
    <3>. QED BY <2>1, <3>1 DEF FindingRow
  <2>. QED BY <2>2, <2>3
<1>. QED BY <1>1, <1>2

\* What it means that a row of a finding is there.
LEMMA OfFinding ==
  ASSUME NEW kind, NEW key, NEW i
  PROVE  i \in direct!Of(kind, key) <=>
           i \in direct!Id /\ direct!Exists(i) /\ rows[i].kind = kind /\ rows[i].key = key
  BY DEF direct!Of

\* The same in the next state.
LEMMA OfFindingNext ==
  ASSUME NEW kind, NEW key, NEW i
  PROVE  i \in direct!Of(kind, key)' <=>
           i \in direct!Id /\ rows'[i] # direct!NoRow /\ rows'[i].kind = kind /\ rows'[i].key = key
  BY DEF direct!Of, direct!Exists, direct!Id

\* A row that is there is a row.
LEMMA RowThere ==
  ASSUME FindingsTyped, NEW i \in direct!Id, direct!Exists(i)
  PROVE  rows[i] \in FindingRow
  BY DEF FindingsTyped, direct!Exists

\* Finding a row: the handler remembers it, or that it has to create one.
LEMMA FindRowSafe ==
  ASSUME FindingsSafe, NEW w \in Handler, NEW kind \in direct!Kind, NEW key \in Weakness,
         direct!FindRow(w, kind, key)
  PROVE  FindingsSafe'
<1>. USE DEF FindingsSafe
<1>1. /\ rows' = rows /\ logged' = logged /\ removed' = removed
      /\ \/ worker' = [worker EXCEPT ![w] = [step |-> "create", kind |-> kind, id |-> 0, row |-> direct!New(kind, key)]]
         \/ \E i \in direct!Candidates(kind, key) :
              worker' = [worker EXCEPT ![w] = [step |-> "update", kind |-> kind, id |-> i, row |-> rows[i]]]
  BY DEF direct!FindRow
<1>2. CASE worker' = [worker EXCEPT ![w] = [step |-> "create", kind |-> kind, id |-> 0, row |-> direct!New(kind, key)]]
  <2>1. PICK r : r = direct!New(kind, key)
    OBVIOUS
  <2>2. r \in FindingRow /\ r.kind = kind
    BY <2>1, RowsWritten
  <2>3. /\ worker'[w] = [step |-> "create", kind |-> kind, id |-> 0, row |-> r]
        /\ \A x \in Handler : x # w => worker'[x] = worker[x]
        /\ worker' \in [Handler -> Report]
    BY <1>2, <2>1, <2>2, ReportsAssumption DEF FindingsTyped, Report
  <2>4. FindingsTyped'
    BY <1>1, <2>3 DEF FindingsTyped
  <2>5. HandlersKnown'
    BY <1>1, <2>2, <2>3 DEF HandlersKnown
  <2>6. IdsAgree'
    BY <1>1, <2>3 DEF IdsAgree, Holds, SameFinding, direct!Exists
  <2>7. NewestStays'
    BY <1>1, <2>3 DEF NewestStays, direct!Of, direct!Exists
  <2>. QED BY <2>4, <2>5, <2>6, <2>7
<1>3. ASSUME NEW i \in direct!Candidates(kind, key),
             worker' = [worker EXCEPT ![w] = [step |-> "update", kind |-> kind, id |-> i, row |-> rows[i]]]
      PROVE  FindingsSafe'
  <2>1. /\ i \in direct!Id /\ direct!Exists(i) /\ rows[i].kind = kind
    BY DEF direct!Candidates, direct!Of
  <2>2. rows[i] \in FindingRow /\ i \in logged /\ i \in 0..MaxReports
    BY <2>1, RowThere DEF IdsAgree, direct!Id
  <2>3. /\ worker'[w] = [step |-> "update", kind |-> kind, id |-> i, row |-> rows[i]]
        /\ \A x \in Handler : x # w => worker'[x] = worker[x]
        /\ worker' \in [Handler -> Report]
    BY <1>3, <2>2 DEF FindingsTyped, Report
  <2>4. FindingsTyped'
    BY <1>1, <2>3 DEF FindingsTyped
  <2>5. HandlersKnown'
    BY <1>1, <2>1, <2>2, <2>3 DEF HandlersKnown
  <2>6. IdsAgree'
    BY <1>1, <2>1, <2>3 DEF IdsAgree, Holds, SameFinding, direct!Exists
  <2>7. NewestStays'
    BY <1>1, <2>3 DEF NewestStays, direct!Of, direct!Exists
  <2>. QED BY <2>4, <2>5, <2>6, <2>7
<1>. QED BY <1>1, <1>2, <1>3

\* A row that is created has an id that nobody holds, and is the newest.
LEMMA CreateRowSafe ==
  ASSUME FindingsSafe, NEW w \in Handler, direct!CreateRow(w)
  PROVE  FindingsSafe'
<1>. USE DEF FindingsSafe
<1>1. PICK i \in direct!Id :
        /\ ~direct!Exists(i) /\ i \notin logged
        /\ rows' = [rows EXCEPT ![i] = worker[w].row] /\ logged' = logged \cup {i}
        /\ worker' = [worker EXCEPT ![w].step = "prune", ![w].id = i]
        /\ removed' = removed /\ worker[w].step = "create"
  BY DEF direct!CreateRow
<1>2. PICK row \in FindingRow : row = worker[w].row /\ row.kind = worker[w].kind
  BY <1>1 DEF HandlersKnown
<1>3. /\ worker'[w].step = "prune" /\ worker'[w].id = i /\ worker'[w].row = row /\ worker'[w].kind = worker[w].kind
      /\ \A x \in Handler : x # w => worker'[x] = worker[x]
      /\ worker' \in [Handler -> Report]
  <2>1. i \in 0..MaxReports /\ worker[w] \in Report
    BY ReportsAssumption DEF FindingsTyped, direct!Id
  <2>2. worker'[w] = [worker[w] EXCEPT !.step = "prune", !.id = i]
    BY <1>1 DEF FindingsTyped
  <2>3. /\ [worker[w] EXCEPT !.step = "prune", !.id = i] \in Report
        /\ worker'[w].step = "prune" /\ worker'[w].id = i /\ worker'[w].row = row /\ worker'[w].kind = worker[w].kind
    BY <1>2, <2>1, <2>2 DEF Report
  <2>. QED BY <1>1, <2>2, <2>3 DEF FindingsTyped
<1>4. /\ rows'[i] = row /\ \A j \in direct!Id : j # i => rows'[j] = rows[j]
      /\ rows' \in [direct!Id -> FindingRow \cup {direct!NoRow}]
      /\ row # direct!NoRow
  BY <1>1, <1>2, RowsWritten DEF FindingsTyped
<1>5. FindingsTyped'
  BY <1>3, <1>4 DEF FindingsTyped
<1>6. HandlersKnown'
  BY <1>1, <1>2, <1>3 DEF HandlersKnown
<1>7. \A x \in Handler : x # w => ~(worker[x].step \in {"update", "prune"} /\ worker[x].id = i)
  BY <1>1 DEF HandlersKnown
<1>8. IdsAgree'
  BY <1>1, <1>2, <1>3, <1>4, <1>7 DEF IdsAgree, Holds, SameFinding, direct!Exists
<1>9. NewestStays'
  <2>1. SUFFICES ASSUME NEW x \in Handler, NEW kind, NEW key,
                        kind = worker'[x].kind, key = worker'[x].row.key,
                        worker'[x].step = "prune", <<kind, key>> \notin removed
                 PROVE  \E j \in direct!Of(kind, key)' : j >= worker'[x].id
    BY <1>1 DEF NewestStays
  <2>2. CASE x = w
    <3>1. i \in direct!Of(kind, key)'
      BY <1>2, <1>3, <1>4, <2>1, <2>2, OfFindingNext
    <3>2. i >= worker'[x].id
      BY <1>3, <2>2, ReportsAssumption DEF direct!Id
    <3>. QED BY <3>1, <3>2
  <2>3. CASE x # w
    <3>1. PICK j \in direct!Of(kind, key) : j >= worker[x].id
      BY <1>1, <1>3, <2>1, <2>3 DEF NewestStays
    <3>2. j # i /\ j \in direct!Id /\ rows'[j] = rows[j]
      BY <1>1, <1>4, <3>1 DEF direct!Of
    <3>. QED BY <1>3, <2>3, <3>1, <3>2, OfFinding, OfFindingNext DEF direct!Exists
  <2>. QED BY <2>2, <2>3
<1>. QED BY <1>5, <1>6, <1>8, <1>9

\* A row is written back as the row of the finding that it was read as.
LEMMA RowWritten ==
  ASSUME FindingsSafe, NEW w \in Handler, direct!UpdateRow(w)
  PROVE  LET id == worker[w].id IN
         /\ id \in direct!Id
         /\ rows'[id] \in FindingRow /\ SameFinding(rows'[id], w) /\ rows'[id] # direct!NoRow
         /\ \A j \in direct!Id : j # id => rows'[j] = rows[j]
         /\ rows' \in [direct!Id -> FindingRow \cup {direct!NoRow}]
         /\ direct!Exists(id) => SameFinding(rows[id], w)
<1>. USE DEF FindingsSafe
<1>1. worker[w].step = "update" /\ rows' = [rows EXCEPT ![worker[w].id] = direct!Updated(worker[w].row)]
  BY DEF direct!UpdateRow
<1>2. worker[w].row \in FindingRow /\ worker[w].row.kind = worker[w].kind /\ worker[w].id \in direct!Id
  BY <1>1 DEF HandlersKnown
<1>3. PICK row \in FindingRow : /\ row = direct!Updated(worker[w].row) /\ row # direct!NoRow
                               /\ row.kind = worker[w].kind /\ row.key = worker[w].row.key
  BY <1>2, RowsWritten
<1>4. rows' = [rows EXCEPT ![worker[w].id] = row]
  BY <1>1, <1>3
<1>5. direct!Exists(worker[w].id) => SameFinding(rows[worker[w].id], w)
  BY <1>1, <1>2 DEF IdsAgree, Holds
<1>. QED BY <1>2, <1>3, <1>4, <1>5 DEF FindingsTyped, SameFinding

\* A row that is written back keeps the rows of each finding.
LEMMA UpdateKeepsRows ==
  ASSUME FindingsSafe, NEW w \in Handler, direct!UpdateRow(w), NEW kind, NEW key,
         NEW j \in direct!Of(kind, key)
  PROVE  j \in direct!Of(kind, key)'
<1>1. CASE j = worker[w].id
  BY <1>1, RowWritten, OfFinding, OfFindingNext DEF SameFinding
<1>2. CASE j # worker[w].id
  BY <1>2, RowWritten, OfFinding, OfFindingNext DEF direct!Exists
<1>. QED BY <1>1, <1>2

\* Writing a row back.
LEMMA UpdateRowSafe ==
  ASSUME FindingsSafe, NEW w \in Handler, direct!UpdateRow(w)
  PROVE  FindingsSafe'
<1>. USE DEF FindingsSafe
<1>1. /\ worker[w].step = "update" /\ worker' = [worker EXCEPT ![w].step = "prune"]
      /\ logged' = logged /\ removed' = removed
  BY DEF direct!UpdateRow
<1>2. PICK id \in direct!Id :
        /\ id = worker[w].id /\ id \in logged
        /\ rows'[id] \in FindingRow /\ SameFinding(rows'[id], w) /\ rows'[id] # direct!NoRow
        /\ \A j \in direct!Id : j # id => rows'[j] = rows[j]
        /\ rows' \in [direct!Id -> FindingRow \cup {direct!NoRow}]
  BY <1>1, RowWritten DEF HandlersKnown
<1>3. /\ worker'[w].step = "prune" /\ worker'[w].id = id /\ worker'[w].row = worker[w].row /\ worker'[w].kind = worker[w].kind
      /\ \A x \in Handler : x # w => worker'[x] = worker[x]
      /\ worker' \in [Handler -> Report]
  BY <1>1, <1>2 DEF FindingsTyped, Report
<1>4. FindingsTyped'
  BY <1>2, <1>3 DEF FindingsTyped
<1>5. HandlersKnown'
  BY <1>1, <1>2, <1>3 DEF HandlersKnown
<1>6. \A x \in Handler, i \in direct!Id : Holds(x, i)' <=> Holds(x, i)
  BY <1>1, <1>2, <1>3 DEF Holds
<1>7. \A x \in Handler : worker'[x].kind = worker[x].kind /\ worker'[x].row = worker[x].row
  BY <1>3
<1>8. IdsAgree'
  <2>1. \A i \in direct!Id : direct!Exists(i)' => i \in logged'
    BY <1>1, <1>2 DEF IdsAgree, direct!Exists
  <2>2. ASSUME NEW x \in Handler, NEW i \in direct!Id, Holds(x, i), rows'[i] # direct!NoRow
        PROVE  rows'[i].kind = worker[x].kind /\ rows'[i].key = worker[x].row.key
    <3>1. CASE i = id
      <4>1. Holds(w, i)
        BY <1>1, <1>2, <3>1 DEF Holds
      <4>2. SameFinding(worker[w].row, x)
        BY <2>2, <4>1 DEF IdsAgree
      <4>3. worker[w].row.kind = worker[w].kind
        BY <1>1 DEF HandlersKnown
      <4>. QED BY <1>2, <3>1, <4>2, <4>3 DEF SameFinding
    <3>2. CASE i # id
      BY <1>2, <2>2, <3>2 DEF IdsAgree, SameFinding, direct!Exists
    <3>. QED BY <3>1, <3>2
  <2>. QED BY <1>6, <1>7, <2>1, <2>2 DEF IdsAgree, SameFinding, direct!Exists
<1>9. NewestStays'
  <2>1. SUFFICES ASSUME NEW x \in Handler, NEW kind, NEW key,
                        kind = worker[x].kind, key = worker[x].row.key,
                        worker'[x].step = "prune", <<kind, key>> \notin removed
                 PROVE  \E j \in direct!Of(kind, key)' : j >= worker'[x].id
    BY <1>1, <1>7 DEF NewestStays
  <2>2. CASE x = w
    <3>1. id \in direct!Of(kind, key)'
      BY <1>2, <2>1, <2>2, OfFindingNext DEF SameFinding
    <3>2. id >= worker'[x].id
      BY <1>2, <1>3, <2>2, ReportsAssumption DEF direct!Id
    <3>. QED BY <3>1, <3>2
  <2>3. CASE x # w
    <3>1. PICK j \in direct!Of(kind, key) : j >= worker[x].id
      BY <1>3, <2>1, <2>3 DEF NewestStays
    <3>. QED BY <1>3, <2>3, <3>1, UpdateKeepsRows
  <2>. QED BY <2>2, <2>3
<1>. QED BY <1>4, <1>5, <1>8, <1>9

\* Of a finding that no user removed, pruning leaves a row: the newest.
LEMMA PruneKeepsRows ==
  ASSUME FindingsSafe, NEW w \in Handler, direct!PruneOlder(w), NEW kind, NEW key,
         <<kind, key>> \notin removed, NEW i \in direct!Of(kind, key)
  PROVE  \E j \in direct!Of(kind, key)' : j >= i
<1>. USE DEF FindingsSafe
<1>1. PICK old : old = direct!Older(worker[w].id, worker[w].kind, worker[w].row.key)
  OBVIOUS
<1>2. worker[w].step = "prune" /\ rows' = [j \in direct!Id |-> IF j \in old THEN direct!NoRow ELSE rows[j]]
  BY <1>1 DEF direct!PruneOlder
<1>3. \A j \in old : rows[j].kind = worker[w].kind /\ rows[j].key = worker[w].row.key /\ j < worker[w].id
  BY <1>1, OfFinding DEF direct!Older
<1>4. ASSUME NEW k, NEW y, NEW j \in direct!Of(k, y), j \notin old
      PROVE  j \in direct!Of(k, y)'
  BY <1>2, <1>4, OfFinding, OfFindingNext DEF direct!Exists
<1>5. CASE i \in old
  <2>1. kind = worker[w].kind /\ key = worker[w].row.key /\ i < worker[w].id
    BY <1>3, <1>5, OfFinding
  <2>2. PICK j \in direct!Of(kind, key) : j >= worker[w].id
    BY <1>2, <2>1 DEF NewestStays
  <2>3. worker[w].id \in Nat /\ i \in Nat /\ j \in Nat
    BY ReportsAssumption, <2>2 DEF FindingsTyped, Report, direct!Of, direct!Id
  <2>4. j \notin old /\ j >= i
    BY <1>3, <2>1, <2>2, <2>3
  <2>. QED BY <1>4, <2>2, <2>4
<1>6. CASE i \notin old
  <2>1. i >= i
    BY ReportsAssumption DEF direct!Of, direct!Id
  <2>. QED BY <1>4, <1>6, <2>1
<1>. QED BY <1>5, <1>6

\* Pruning older rows.
LEMMA PruneOlderSafe ==
  ASSUME FindingsSafe, NEW w \in Handler, direct!PruneOlder(w)
  PROVE  FindingsSafe'
<1>. USE DEF FindingsSafe
<1>1. /\ worker[w].step = "prune" /\ worker' = [worker EXCEPT ![w].step = "finish"]
      /\ logged' = logged /\ removed' = removed
  BY DEF direct!PruneOlder
<1>2. /\ \A j \in direct!Id : rows'[j] = rows[j] \/ rows'[j] = direct!NoRow
      /\ rows' \in [direct!Id -> FindingRow \cup {direct!NoRow}]
  BY DEF direct!PruneOlder, FindingsTyped
<1>3. /\ worker'[w].step = "finish" /\ worker'[w].row = worker[w].row /\ worker'[w].kind = worker[w].kind
      /\ \A x \in Handler : x # w => worker'[x] = worker[x]
      /\ worker' \in [Handler -> Report]
  BY <1>1 DEF FindingsTyped, Report
<1>4. FindingsTyped'
  BY <1>2, <1>3 DEF FindingsTyped
<1>5. HandlersKnown'
  BY <1>1, <1>3 DEF HandlersKnown
<1>6. IdsAgree'
  BY <1>1, <1>2, <1>3 DEF IdsAgree, Holds, SameFinding, direct!Exists
<1>7. NewestStays'
  <2>1. SUFFICES ASSUME NEW x \in Handler, NEW kind, NEW key, x # w,
                        kind = worker[x].kind, key = worker[x].row.key,
                        worker[x].step = "prune", <<kind, key>> \notin removed
                 PROVE  \E j \in direct!Of(kind, key)' : j >= worker[x].id
    BY <1>1, <1>3 DEF NewestStays
  <2>2. PICK i \in direct!Of(kind, key) : i >= worker[x].id
    BY <2>1 DEF NewestStays
  <2>3. PICK j \in direct!Of(kind, key)' : j >= i
    BY <2>1, PruneKeepsRows
  <2>4. worker[x].id \in Nat /\ i \in Nat /\ j \in Nat
    BY ReportsAssumption, <2>2, <2>3, OfFinding, OfFindingNext DEF FindingsTyped, Report, direct!Id
  <2>. QED BY <2>2, <2>3, <2>4
<1>. QED BY <1>4, <1>5, <1>6, <1>7

\* The end of a report.
LEMMA FinishSafe ==
  ASSUME FindingsSafe, NEW w \in Handler, direct!Finish(w)
  PROVE  FindingsSafe'
<1>. USE DEF FindingsSafe
<1>1. worker' = [worker EXCEPT ![w] = direct!Idle] /\ rows' = rows /\ logged' = logged /\ removed' = removed
  BY DEF direct!Finish
<1>2. /\ worker'[w].step = "idle"
      /\ \A x \in Handler : x # w => worker'[x] = worker[x]
      /\ worker' \in [Handler -> Report]
  BY <1>1, ReportsAssumption DEF FindingsTyped, Report, direct!Idle, direct!Kind
<1>3. FindingsTyped'
  BY <1>1, <1>2 DEF FindingsTyped
<1>4. HandlersKnown'
  BY <1>1, <1>2 DEF HandlersKnown
<1>5. IdsAgree'
  BY <1>1, <1>2 DEF IdsAgree, Holds, SameFinding, direct!Exists
<1>6. NewestStays'
  BY <1>1, <1>2 DEF NewestStays, direct!Of, direct!Exists
<1>. QED BY <1>3, <1>4, <1>5, <1>6

\* What a user does to a row: the row goes and its finding counts as removed, or
\* the row remains one of its finding.
UserWrites(i) ==
  /\ direct!Exists(i)
  /\ rows' \in [direct!Id -> FindingRow \cup {direct!NoRow}]
  /\ \A j \in direct!Id : j # i => rows'[j] = rows[j]
  /\ removed \subseteq removed'
  /\ \/ rows'[i] = direct!NoRow /\ <<rows[i].kind, rows[i].key>> \in removed'
     \/ rows'[i] # direct!NoRow /\ rows'[i].kind = rows[i].kind /\ rows'[i].key = rows[i].key
  /\ logged' = logged /\ worker' = worker

\* Both edits of users are such.
LEMMA UsersWrite ==
  ASSUME FindingsSafe, NEW i \in direct!Id
  PROVE  /\ direct!DeleteRow(i) => UserWrites(i)
         /\ \A isDel \in BOOLEAN, st \in {"CONFIRMED", "OTHER"} :
              direct!EditRow(i, isDel, st) => UserWrites(i)
<1>. USE DEF FindingsSafe
<1>1. direct!DeleteRow(i) => UserWrites(i)
  BY DEF direct!DeleteRow, UserWrites, FindingsTyped
<1>2. ASSUME NEW isDel \in BOOLEAN, NEW st \in {"CONFIRMED", "OTHER"}, direct!EditRow(i, isDel, st)
      PROVE  UserWrites(i)
  <2>1. /\ direct!Exists(i) /\ rows' = [rows EXCEPT ![i].isDel = isDel, ![i].status = st]
        /\ removed \subseteq removed' /\ logged' = logged /\ worker' = worker
    BY <1>2 DEF direct!EditRow
  <2>2. PICK row \in FindingRow : row = rows[i]
    BY <2>1, RowThere
  <2>3. PICK new : new = [row EXCEPT !.isDel = isDel, !.status = st]
    OBVIOUS
  <2>4. rows' = [rows EXCEPT ![i] = new]
    BY <2>1, <2>2, <2>3 DEF FindingsTyped
  <2>5. new \in FindingRow /\ new.kind = row.kind /\ new.key = row.key
    BY <2>3 DEF FindingRow
  <2>6. new # direct!NoRow
    BY <2>5, RowsWritten
  <2>7. /\ rows' \in [direct!Id -> FindingRow \cup {direct!NoRow}] /\ rows'[i] = new
        /\ \A j \in direct!Id : j # i => rows'[j] = rows[j]
    BY <2>4, <2>5 DEF FindingsTyped
  <2>. QED BY <2>1, <2>2, <2>5, <2>6, <2>7 DEF UserWrites
<1>. QED BY <1>1, <1>2

\* Users remove rows only of findings that count as removed.
LEMMA UsersKeepRows ==
  ASSUME NEW i \in direct!Id, UserWrites(i), NEW kind, NEW key,
         <<kind, key>> \notin removed', NEW j \in direct!Of(kind, key)
  PROVE  j \in direct!Of(kind, key)'
<1>1. CASE j = i
  BY <1>1, OfFinding, OfFindingNext DEF UserWrites
<1>2. CASE j # i
  BY <1>2, OfFinding, OfFindingNext DEF UserWrites, direct!Exists
<1>. QED BY <1>1, <1>2

\* What users do.
LEMMA UsersSafe ==
  ASSUME FindingsSafe, NEW i \in direct!Id, UserWrites(i)
  PROVE  FindingsSafe'
<1>. USE DEF FindingsSafe
<1>1. FindingsTyped'
  BY DEF FindingsTyped, UserWrites
<1>2. HandlersKnown'
  BY DEF HandlersKnown, UserWrites
<1>3. IdsAgree'
  <2>1. \A j \in direct!Id : rows'[j] # direct!NoRow =>
          direct!Exists(j) /\ rows'[j].kind = rows[j].kind /\ rows'[j].key = rows[j].key
    BY DEF UserWrites, direct!Exists
  <2>. QED BY <2>1 DEF IdsAgree, Holds, SameFinding, direct!Exists, UserWrites
<1>4. NewestStays'
  <2>1. SUFFICES ASSUME NEW x \in Handler, NEW kind, NEW key,
                        kind = worker[x].kind, key = worker[x].row.key,
                        worker[x].step = "prune", <<kind, key>> \notin removed'
                 PROVE  \E j \in direct!Of(kind, key)' : j >= worker[x].id
    BY DEF NewestStays, UserWrites
  <2>2. <<kind, key>> \notin removed
    BY <2>1 DEF UserWrites
  <2>3. PICK j \in direct!Of(kind, key) : j >= worker[x].id
    BY <2>1, <2>2 DEF NewestStays
  <2>. QED BY <2>1, <2>3, UsersKeepRows
<1>. QED BY <1>1, <1>2, <1>3, <1>4

\* Every step keeps the invariant.
LEMMA FindingsStay ==
  ASSUME FindingsSafe, direct!Next
  PROVE  FindingsSafe'
<1>1. ASSUME NEW w \in Handler,
             \/ \E kind \in direct!Kind, key \in Weakness : direct!FindRow(w, kind, key)
             \/ direct!CreateRow(w) \/ direct!UpdateRow(w) \/ direct!PruneOlder(w) \/ direct!Finish(w)
      PROVE  FindingsSafe'
  BY <1>1, FindRowSafe, CreateRowSafe, UpdateRowSafe, PruneOlderSafe, FinishSafe
<1>2. ASSUME NEW i \in direct!Id,
             \/ direct!DeleteRow(i)
             \/ direct!EditRow(i, TRUE, rows[i].status) \/ direct!EditRow(i, FALSE, "OTHER")
      PROVE  FindingsSafe'
  <2>1. direct!Exists(i) => rows[i].status \in {"CONFIRMED", "OTHER"}
    BY RowThere DEF FindingsSafe, FindingRow
  <2>2. direct!DeleteRow(i) => FindingsSafe'
    BY UsersWrite, UsersSafe
  <2>3. ASSUME direct!EditRow(i, TRUE, rows[i].status)
        PROVE  FindingsSafe'
    <3>1. PICK st \in {"CONFIRMED", "OTHER"} : st = rows[i].status
      BY <2>1, <2>3 DEF direct!EditRow
    <3>. QED BY <2>3, <3>1, UsersWrite, UsersSafe
  <2>4. direct!EditRow(i, FALSE, "OTHER") => FindingsSafe'
    BY UsersWrite, UsersSafe
  <2>. QED BY <1>2, <2>2, <2>3, <2>4
<1>. QED BY <1>1, <1>2, Zenon DEF direct!Next

\* Nothing of the findings changes when no handler or user acts.
LEMMA FindingsRest ==
  ASSUME FindingsSafe, UNCHANGED findingVars
  PROVE  FindingsSafe'
<1>1. rows' = rows /\ logged' = logged /\ worker' = worker /\ removed' = removed
  BY DEF findingVars
<1>. QED BY <1>1 DEF FindingsSafe, FindingsTyped, HandlersKnown, IdsAgree, NewestStays,
           Holds, SameFinding, direct!Exists, direct!Of

\* The first state.
LEMMA FindingsBegin == direct!Init => FindingsSafe
<1>1. ASSUME direct!Init
      PROVE  /\ rows \in [direct!Id -> FindingRow \cup {direct!NoRow}]
             /\ \A i \in direct!Id : ~direct!Exists(i)
             /\ worker \in [Handler -> Report] /\ \A w \in Handler : worker[w].step = "idle"
  BY <1>1, ReportsAssumption DEF direct!Init, direct!Exists, direct!Idle, direct!Kind, Report
<1>. QED BY <1>1 DEF FindingsSafe, FindingsTyped, HandlersKnown, IdsAgree, NewestStays, Holds

\* The invariant of the findings.
LEMMA FindingsInv == Spec => [](part = "direct" => FindingsSafe)
<1>1. Init => (part = "direct" => FindingsSafe)
  BY FindingsBegin DEF Init
<1>2. (part = "direct" => FindingsSafe) /\ [Next]_vars => (part = "direct" => FindingsSafe)'
  BY PartStays, FindingsStay, FindingsRest DEF Next, vars
<1>. QED BY <1>1, <1>2, PTL DEF Spec

\* A step of a handler or user keeps the last row of each finding that is not removed.
LEMMA FindingSteps ==
  ASSUME FindingsSafe, direct!Next
  PROVE  direct!FindingStep
<1>1. SUFFICES ASSUME NEW kind \in direct!Kind, NEW key \in Weakness, NEW i \in direct!Of(kind, key),
                      <<kind, key>> \notin removed'
               PROVE  \E j : j \in direct!Of(kind, key)'
  BY DEF direct!FindingStep
<1>2. ASSUME NEW w \in Handler, direct!UpdateRow(w)
      PROVE  \E j : j \in direct!Of(kind, key)'
  BY <1>1, <1>2, UpdateKeepsRows
<1>3. ASSUME NEW w \in Handler, direct!PruneOlder(w)
      PROVE  \E j : j \in direct!Of(kind, key)'
  BY <1>1, <1>3, PruneKeepsRows DEF direct!PruneOlder
<1>4. ASSUME NEW w \in Handler, direct!CreateRow(w)
      PROVE  \E j : j \in direct!Of(kind, key)'
  <2>1. PICK j \in direct!Id : ~direct!Exists(j) /\ rows' = [rows EXCEPT ![j] = worker[w].row]
    BY <1>4 DEF direct!CreateRow
  <2>2. i \in direct!Id /\ i # j
    BY <2>1, OfFinding
  <2>3. rows'[i] = rows[i]
    BY <2>1, <2>2 DEF FindingsSafe, FindingsTyped
  <2>. QED BY <2>3, OfFinding, OfFindingNext DEF direct!Exists
<1>5. ASSUME rows' = rows
      PROVE  \E j : j \in direct!Of(kind, key)'
  BY <1>5, OfFinding, OfFindingNext DEF direct!Exists
<1>6. ASSUME NEW n \in direct!Id,
             \/ direct!DeleteRow(n)
             \/ direct!EditRow(n, TRUE, rows[n].status) \/ direct!EditRow(n, FALSE, "OTHER")
      PROVE  \E j : j \in direct!Of(kind, key)'
  <2>1. direct!Exists(n)
    BY <1>6 DEF direct!DeleteRow, direct!EditRow
  <2>2. PICK st \in {"CONFIRMED", "OTHER"} : st = rows[n].status
    BY <2>1, RowThere DEF FindingsSafe, FindingRow
  <2>3. UserWrites(n)
    BY <1>6, <2>2, UsersWrite
  <2>. QED BY <1>1, <2>3, UsersKeepRows
<1>7. \A w \in Handler : (\E k \in direct!Kind, y \in Weakness : direct!FindRow(w, k, y)) \/ direct!Finish(w) => rows' = rows
  BY DEF direct!FindRow, direct!Finish
<1>. QED BY <1>2, <1>3, <1>4, <1>5, <1>6, <1>7, Zenon DEF direct!Next

\* A reported vulnerability that no user deletes keeps a row, however the reports of
\* it interleave (NormalVulnHandler.save, HardEncodeVulHandler.save).
THEOREM FindingAlwaysKept == Spec => FindingKept
<1>1. (part = "direct" => FindingsSafe) /\ [Next]_vars => [part = "direct" => direct!FindingStep]_vars
  <2>1. ASSUME part = "direct" => FindingsSafe, Next, part = "direct"
        PROVE  direct!FindingStep
    <3>1. direct!Next
      BY <2>1 DEF Next
    <3>. QED BY <2>1, <3>1, FindingSteps
  <2>. QED BY <2>1
<1>. QED BY <1>1, FindingsInv, PTL DEF Spec, FindingKept

--------------------------------------------------------------------------------
(* VulLog: every status that was saved is told, by the log, by a worker that   *)
(* has still to log it, or not any more since the worker was killed.           *)

LogStatus == UserStatus \cup {"CONFIRMED", "PENDING", "none"}
LogJob == [type: {"idle", "CHANGE_STATUS", "DELETE", "VUL_RECHECK", "VUL_FOUND"}, asked: SUBSET LoggedVul,
           todo: SUBSET LoggedVul, saved: SUBSET LoggedVul, read: [LoggedVul -> LogStatus]]

LogTyped == status \in [LoggedVul -> LogStatus] /\ job \in [Writer -> LogJob]

\* The job has saved the status and will log it.
Untold(j, v, s) == j.type # "DELETE" /\ v \in j.saved /\ j.read[v] = s
Told(v, s) ==
  \/ \E e \in log : e.vul = v /\ e.status = s
  \/ v \in lost
  \/ \E w \in Writer : Untold(job[w], v, s)

GivenTold == \A v \in LoggedVul, s \in LogStatus : <<v, s>> \in given => Told(v, s)

\* What jobs saved was given, and deletions write a status that was given.
JobsGiven == \A w \in Writer, v \in LoggedVul :
  v \in job[w].saved \/ (job[w].type = "DELETE" /\ v \in job[w].todo) => <<v, job[w].read[v]>> \in given
StatusGiven == \A v \in LoggedVul : vullog!Exists(v) => <<v, status[v]>> \in given
ChangesGiven == \A e \in log : e.type = "CHANGE_STATUS" => <<e.vul, e.status>> \in given

LogSafe == LogTyped /\ GivenTold /\ JobsGiven /\ StatusGiven /\ ChangesGiven

\* A job that begins.
LEMMA IdleJob ==
  /\ vullog!Idle \in LogJob
  /\ \A v, s : ~Untold(vullog!Idle, v, s)
  /\ vullog!Idle.saved = {} /\ vullog!Idle.todo = {}
  BY DEF vullog!Idle, LogJob, Untold, LogStatus

\* What is told stays told when one worker goes on, and what it had to tell is in
\* the log, still to be told or lost.
LEMMA ToldStays ==
  ASSUME job \in [Writer -> LogJob], NEW w \in Writer, NEW j \in LogJob, job' = [job EXCEPT ![w] = j],
         log \subseteq log', lost \subseteq lost', NEW v \in LoggedVul, NEW s, Told(v, s),
         Untold(job[w], v, s) => Untold(j, v, s) \/ v \in lost' \/ \E e \in log' : e.vul = v /\ e.status = s
  PROVE  Told(v, s)'
<1>1. job'[w] = j /\ \A x \in Writer : x # w => job'[x] = job[x]
  OBVIOUS
<1>2. CASE \E e \in log : e.vul = v /\ e.status = s
  BY <1>2 DEF Told
<1>3. CASE v \in lost
  BY <1>3 DEF Told
<1>4. ASSUME NEW x \in Writer, Untold(job[x], v, s)
      PROVE  Told(v, s)'
  <2>1. CASE x = w
    BY <1>1, <1>4, <2>1 DEF Told, Untold
  <2>2. CASE x # w
    BY <1>1, <1>4, <2>2 DEF Told, Untold
  <2>. QED BY <2>1, <2>2
<1>. QED BY <1>2, <1>3, <1>4 DEF Told

\* A request that reads the rows it will write.
LEMMA BeginSafe ==
  ASSUME LogSafe, NEW w \in Writer, NEW type, NEW S \in SUBSET LoggedVul, NEW read \in [LoggedVul -> LogStatus],
         type = "CHANGE_STATUS" \/ (type = "DELETE" /\ read = status),
         vullog!Begin(w, type, S, read)
  PROVE  LogSafe'
<1>. USE DEF LogSafe
<1>1. PICK j : j = [type |-> type, asked |-> S, todo |-> {v \in S \ deleted : vullog!Exists(v)},
                    saved |-> {}, read |-> read]
  OBVIOUS
<1>2. /\ job[w] = vullog!Idle /\ job' = [job EXCEPT ![w] = j]
      /\ status' = status /\ given' = given /\ log' = log /\ lost' = lost
  BY <1>1 DEF vullog!Begin
<1>3. j \in LogJob /\ j.saved = {} /\ j.type = type /\ j.read = read /\ \A v \in j.todo : vullog!Exists(v)
  BY <1>1 DEF LogJob
<1>4. job'[w] = j /\ \A x \in Writer : x # w => job'[x] = job[x]
  BY <1>2 DEF LogTyped
<1>5. LogTyped'
  BY <1>2, <1>3 DEF LogTyped
<1>6. GivenTold'
  BY <1>2, <1>3, IdleJob, ToldStays DEF LogTyped, GivenTold
<1>7. JobsGiven'
  <2>1. \A v \in LoggedVul : type = "DELETE" /\ v \in j.todo => <<v, read[v]>> \in given
    BY <1>3 DEF StatusGiven
  <2>. QED BY <1>2, <1>3, <1>4, <2>1 DEF JobsGiven
<1>8. StatusGiven' /\ ChangesGiven'
  BY <1>2 DEF StatusGiven, ChangesGiven, vullog!Exists
<1>. QED BY <1>5, <1>6, <1>7, <1>8

\* A status is saved and will be logged: by Save of a status of a user, by
\* SaveStatus at once.
LEMMA SaveStatusSafe ==
  ASSUME LogSafe, NEW w \in Writer, NEW type \in {"VUL_RECHECK", "VUL_FOUND"}, NEW v \in LoggedVul,
         NEW st \in LogStatus, vullog!SaveStatus(w, type, v, st)
  PROVE  LogSafe'
<1>. USE DEF LogSafe
<1>1. PICK j : j = [type |-> type, asked |-> {v}, todo |-> {}, saved |-> {v}, read |-> [x \in LoggedVul |-> st]]
  OBVIOUS
<1>2. /\ job[w] = vullog!Idle /\ job' = [job EXCEPT ![w] = j] /\ status' = [status EXCEPT ![v] = st]
      /\ given' = given \cup {<<v, st>>} /\ log' = log /\ lost' = lost
  BY <1>1 DEF vullog!SaveStatus
<1>3. j \in LogJob /\ j.saved = {v} /\ j.type = type /\ j.read[v] = st /\ j.todo = {}
  BY <1>1 DEF LogJob
<1>4. job'[w] = j /\ \A x \in Writer : x # w => job'[x] = job[x]
  BY <1>2 DEF LogTyped
<1>5. LogTyped'
  BY <1>2, <1>3 DEF LogTyped
<1>6. GivenTold'
  <2>1. Told(v, st)'
    BY <1>3, <1>4 DEF Told, Untold
  <2>2. ASSUME NEW u \in LoggedVul, NEW s \in LogStatus, <<u, s>> \in given
        PROVE  Told(u, s)'
    BY <1>2, <1>3, <2>2, IdleJob, ToldStays DEF LogTyped, GivenTold
  <2>. QED BY <1>2, <2>1, <2>2 DEF GivenTold
<1>7. JobsGiven'
  BY <1>2, <1>3, <1>4 DEF JobsGiven
<1>8. StatusGiven'
  BY <1>2 DEF StatusGiven, vullog!Exists, LogTyped
<1>9. ChangesGiven'
  BY <1>2 DEF ChangesGiven
<1>. QED BY <1>5, <1>6, <1>7, <1>8, <1>9

\* save() of one row that a request read.
LEMMA SaveSafe ==
  ASSUME LogSafe, NEW w \in Writer, vullog!Save(w)
  PROVE  LogSafe'
<1>. USE DEF LogSafe
<1>1. PICK v \in job[w].todo, s \in LogStatus :
        /\ s = job[w].read[v] /\ status' = [status EXCEPT ![v] = s]
        /\ given' = given \cup {<<v, s>>} /\ log' = log /\ lost' = lost
        /\ job' = [job EXCEPT ![w].todo = @ \ {v}, ![w].saved = @ \cup {v}]
  <2>1. PICK v \in job[w].todo :
          /\ status' = [status EXCEPT ![v] = job[w].read[v]]
          /\ given' = given \cup {<<v, job[w].read[v]>>} /\ log' = log /\ lost' = lost
          /\ job' = [job EXCEPT ![w].todo = @ \ {v}, ![w].saved = @ \cup {v}]
    BY DEF vullog!Save
  <2>2. job[w].read[v] \in LogStatus
    BY DEF LogTyped, LogJob
  <2>. QED BY <2>1, <2>2
<1>2. PICK j : j = [job[w] EXCEPT !.todo = @ \ {v}, !.saved = @ \cup {v}]
  OBVIOUS
<1>3. v \in LoggedVul /\ s \in LogStatus /\ job[w] \in LogJob
  BY <1>1 DEF LogTyped, LogJob
<1>4. /\ j \in LogJob /\ j.saved = job[w].saved \cup {v} /\ j.type = job[w].type /\ j.read = job[w].read
      /\ j.todo \subseteq job[w].todo
  BY <1>2, <1>3 DEF LogJob
<1>5. job' = [job EXCEPT ![w] = j]
  BY <1>1, <1>2 DEF LogTyped
<1>6. job'[w] = j /\ \A x \in Writer : x # w => job'[x] = job[x]
  BY <1>5 DEF LogTyped
<1>7. LogTyped'
  BY <1>1, <1>3, <1>4, <1>5 DEF LogTyped
<1>8. \A u, t : Untold(job[w], u, t) => Untold(j, u, t)
  BY <1>4 DEF Untold
<1>9. GivenTold'
  <2>1. ASSUME NEW u \in LoggedVul, NEW t \in LogStatus, <<u, t>> \in given
        PROVE  Told(u, t)'
    BY <1>1, <1>4, <1>5, <1>8, <2>1, ToldStays DEF LogTyped, GivenTold
  <2>2. CASE job[w].type = "DELETE"
    <3>1. <<v, s>> \in given
      BY <1>1, <1>3, <2>2 DEF JobsGiven
    <3>. QED BY <1>1, <2>1, <3>1 DEF GivenTold
  <2>3. CASE job[w].type # "DELETE"
    <3>1. Untold(job'[w], v, s)
      BY <1>1, <1>4, <1>6, <2>3 DEF Untold
    <3>2. Told(v, s)'
      BY <3>1 DEF Told, Untold
    <3>. QED BY <1>1, <2>1, <3>2 DEF GivenTold
  <2>. QED BY <2>2, <2>3
<1>10. JobsGiven'
  <2>1. SUFFICES ASSUME NEW x \in Writer, NEW u \in LoggedVul,
                        \/ u \in job'[x].saved
                        \/ job'[x].type = "DELETE" /\ u \in job'[x].todo
                 PROVE  <<u, job'[x].read[u]>> \in given'
    BY DEF JobsGiven
  <2>2. CASE x = w /\ u = v
    BY <1>1, <1>4, <1>6, <2>2
  <2>3. CASE x = w /\ u # v
    <3>1. job'[x].read[u] = job[w].read[u]
      BY <1>4, <1>6, <2>3
    <3>2. u \in job[w].saved \/ (job[w].type = "DELETE" /\ u \in job[w].todo)
      BY <1>4, <1>6, <2>1, <2>3
    <3>3. <<u, job[w].read[u]>> \in given
      BY <3>2 DEF JobsGiven
    <3>. QED BY <1>1, <3>1, <3>3
  <2>4. CASE x # w
    <3>1. job'[x] = job[x]
      BY <1>6, <2>4
    <3>2. u \in job[x].saved \/ (job[x].type = "DELETE" /\ u \in job[x].todo)
      BY <2>1, <3>1
    <3>3. <<u, job[x].read[u]>> \in given
      BY <3>2 DEF JobsGiven
    <3>. QED BY <1>1, <3>1, <3>3
  <2>. QED BY <2>2, <2>3, <2>4
<1>11. StatusGiven'
  BY <1>1 DEF StatusGiven, vullog!Exists, LogTyped
<1>12. ChangesGiven'
  BY <1>1 DEF ChangesGiven
<1>. QED BY <1>7, <1>9, <1>10, <1>11, <1>12

\* Logging what was saved.
LEMMA LogStepSafe ==
  ASSUME LogSafe, NEW w \in Writer, vullog!Log(w)
  PROVE  LogSafe'
<1>. USE DEF LogSafe
<1>1. PICK new : new = vullog!Entries(job[w].type, vullog!Logged(job[w]), job[w].read)
  OBVIOUS
<1>2. /\ log' = log \cup new /\ job' = [job EXCEPT ![w] = vullog!Idle]
      /\ status' = status /\ given' = given /\ lost' = lost
  BY <1>1 DEF vullog!Log
<1>3. \A v, s : Untold(job[w], v, s) => \E e \in new : e.vul = v /\ e.status = s
  <2>1. SUFFICES ASSUME NEW v, NEW s, Untold(job[w], v, s)
                 PROVE  \E e \in new : e.vul = v /\ e.status = s
    OBVIOUS
  <2>2. v \in vullog!Logged(job[w]) /\ job[w].read[v] = s
    BY <2>1 DEF Untold, vullog!Logged
  <2>3. [type |-> job[w].type, vul |-> v, status |-> job[w].read[v]] \in new
    BY <1>1, <2>2 DEF vullog!Entries
  <2>. QED BY <2>2, <2>3
<1>4. \A e \in new : e.vul \in job[w].saved /\ e.status = job[w].read[e.vul]
  BY <1>1 DEF vullog!Entries, vullog!Logged
<1>5. job[w].saved \subseteq LoggedVul
  BY DEF LogTyped, LogJob
<1>6. LogTyped'
  BY <1>2, IdleJob DEF LogTyped
<1>7. GivenTold'
  <2>1. \A v, s : Untold(job[w], v, s) => \E e \in log' : e.vul = v /\ e.status = s
    BY <1>2, <1>3
  <2>2. log \subseteq log' /\ lost \subseteq lost'
    BY <1>2
  <2>3. vullog!Idle \in LogJob
    BY IdleJob
  <2>4. SUFFICES ASSUME NEW u \in LoggedVul, NEW t \in LogStatus, Told(u, t)
                 PROVE  Told(u, t)'
    BY <1>2 DEF GivenTold
  <2>5. Untold(job[w], u, t) => \E e \in log' : e.vul = u /\ e.status = t
    BY <2>1
  <2>6. job \in [Writer -> LogJob] /\ job' = [job EXCEPT ![w] = vullog!Idle]
    BY <1>2 DEF LogTyped
  <2>. QED BY <2>2, <2>3, <2>4, <2>5, <2>6, ToldStays
<1>8. JobsGiven'
  BY <1>2, IdleJob DEF JobsGiven, LogTyped
<1>9. StatusGiven'
  BY <1>2 DEF StatusGiven, vullog!Exists
<1>10. ChangesGiven'
  <2>1. \A e \in new : <<e.vul, e.status>> \in given
    <3>1. SUFFICES ASSUME NEW e \in new
                   PROVE  <<e.vul, e.status>> \in given
      OBVIOUS
    <3>2. e.vul \in LoggedVul /\ e.vul \in job[w].saved /\ e.status = job[w].read[e.vul]
      BY <1>4, <1>5
    <3>3. <<e.vul, job[w].read[e.vul]>> \in given
      BY <3>2 DEF JobsGiven
    <3>. QED BY <3>2, <3>3
  <2>. QED BY <1>2, <2>1 DEF ChangesGiven
<1>. QED BY <1>6, <1>7, <1>8, <1>9, <1>10

\* A worker is killed.
LEMMA CrashSafe ==
  ASSUME LogSafe, NEW w \in Writer, vullog!Crash(w)
  PROVE  LogSafe'
<1>. USE DEF LogSafe
<1>1. /\ lost' = lost \cup job[w].saved /\ job' = [job EXCEPT ![w] = vullog!Idle]
      /\ status' = status /\ given' = given /\ log' = log
  BY DEF vullog!Crash
<1>2. LogTyped'
  BY <1>1, IdleJob DEF LogTyped
<1>3. GivenTold'
  <2>1. \A v, s : Untold(job[w], v, s) => v \in lost'
    BY <1>1 DEF Untold
  <2>. QED BY <1>1, <2>1, IdleJob, ToldStays DEF LogTyped, GivenTold
<1>4. JobsGiven'
  BY <1>1, IdleJob DEF JobsGiven, LogTyped
<1>5. StatusGiven' /\ ChangesGiven'
  BY <1>1 DEF StatusGiven, ChangesGiven, vullog!Exists
<1>. QED BY <1>2, <1>3, <1>4, <1>5

\* Steps that at most add entries that are not of users.
LEMMA LogGrowsSafe ==
  ASSUME LogSafe, UNCHANGED <<status, given, job, lost>>, log \subseteq log',
         \A e \in log' \ log : e.type # "CHANGE_STATUS"
  PROVE  LogSafe'
<1>1. \A v, s : Told(v, s) => Told(v, s)'
  BY DEF Told
<1>2. GivenTold'
  BY <1>1 DEF LogSafe, GivenTold
<1>. QED BY <1>2 DEF LogSafe, LogTyped, JobsGiven, StatusGiven, ChangesGiven, vullog!Exists

\* Every step keeps the invariant.
LEMMA LogStays ==
  ASSUME LogSafe, vullog!Next
  PROVE  LogSafe'
<1>1. ASSUME NEW w \in Writer, NEW S \in SUBSET LoggedVul, vullog!PostDelete(w, S)
      PROVE  LogSafe'
  BY <1>1, BeginSafe DEF vullog!PostDelete, LogSafe, LogTyped
<1>2. ASSUME NEW w \in Writer, NEW S \in SUBSET LoggedVul, NEW st \in UserStatus, vullog!PostStatus(w, S, st)
      PROVE  LogSafe'
  <2>1. PICK read \in [LoggedVul -> LogStatus] : read = [v \in LoggedVul |-> st]
    BY DEF LogStatus
  <2>2. vullog!Begin(w, "CHANGE_STATUS", S, read)
    BY <1>2, <2>1, Zenon DEF vullog!PostStatus
  <2>3. PICK type : type = "CHANGE_STATUS" /\ vullog!Begin(w, type, S, read)
    BY <2>2
  <2>. QED BY <2>3, BeginSafe
<1>3. ASSUME NEW w \in Writer, NEW v \in LoggedVul, vullog!Confirm(w, v) \/ vullog!Find(w, v)
      PROVE  LogSafe'
  BY <1>3, SaveStatusSafe DEF vullog!Confirm, vullog!Find, LogStatus
<1>4. ASSUME NEW v \in LoggedVul, NEW st, vullog!FindAgain(v) \/ vullog!LogOnly(v, st)
      PROVE  LogSafe'
  BY <1>4, LogGrowsSafe DEF vullog!FindAgain, vullog!LogOnly, vullog!Entries
<1>. QED BY <1>1, <1>2, <1>3, <1>4, SaveSafe, LogStepSafe, CrashSafe, Zenon DEF vullog!Next

\* The log tells of the changes users made, and explains the status that a
\* vulnerability has (vul_log.py and its callers).
THEOREM LogAlwaysTells == Spec => []LogTells
<1>1. Init => (part = "vullog" => LogSafe)
  <2>1. vullog!Init => LogSafe
    BY IdleJob DEF vullog!Init, LogSafe, LogTyped, LogStatus, GivenTold, JobsGiven, StatusGiven,
       ChangesGiven, vullog!Exists
  <2>. QED BY <2>1 DEF Init
<1>2. (part = "vullog" => LogSafe) /\ [Next]_vars => (part = "vullog" => LogSafe)'
  <2>1. LogSafe /\ UNCHANGED logVars => LogSafe'
    BY LogGrowsSafe DEF logVars
  <2>. QED BY <2>1, PartStays, LogStays DEF Next, vars
<1>3. (part = "vullog" => LogSafe) => LogTells
  <2>1. LogSafe => vullog!LogTells
    <3>1. SUFFICES ASSUME LogSafe, NEW v \in LoggedVul
          PROVE  /\ \A e \in vullog!ListOf(v, "CHANGE_STATUS") : <<v, e.status>> \in given
                 /\ vullog!Exists(v) => \/ \E e \in vullog!List(v) : e.status = status[v]
                                        \/ v \in lost \/ \E w \in Writer : v \in job[w].saved
      BY DEF vullog!LogTells
    <3>2. \A e \in vullog!ListOf(v, "CHANGE_STATUS") : <<v, e.status>> \in given
      BY <3>1 DEF LogSafe, ChangesGiven, vullog!ListOf, vullog!List
    <3>3. vullog!Exists(v) => Told(v, status[v])
      BY <3>1 DEF LogSafe, StatusGiven, GivenTold, LogTyped
    <3>. QED BY <3>2, <3>3 DEF Told, Untold, vullog!List
  <2>. QED BY <2>1 DEF LogTells
<1>. QED BY <1>1, <1>2, <1>3, PTL DEF Spec

--------------------------------------------------------------------------------
(* DastBinding: a relation is made of marks of both sides, of which the push    *)
(* that is handled brings one; and what shares a mark is related while pushes   *)
(* and scans do not meet.                                                       *)

Handled == [push: Pushes, left: SUBSET Mark, known: BOOLEAN]
Scanned == [vul: BoundVul, mark: Mark, setting: Settings \cup {None}, marked: BOOLEAN]

DastTyped ==
  /\ vulMarks \subseteq BoundVul \X Mark /\ dastMarks \subseteq Dast \X Mark
  /\ rels \subseteq BoundVul \X Dast \X (Mark \cup {"manully"})
  /\ hook \in Handled \cup {None} /\ scan \in Scanned \cup {None}
  /\ setting \in Settings \cup {None} /\ fits \in [Dast -> (SUBSET BoundVul) \cup {None}]
  /\ apart \in BOOLEAN

\* The handled push has the mark and has not stored it yet.
Brings(d, m) == hook # None /\ d = hook.push.dast /\ m \in hook.push.marks

RelsBacked ==
  \A v \in BoundVul, d \in Dast, m \in Mark : <<v, d, m>> \in rels =>
    <<v, m>> \in vulMarks /\ (<<d, m>> \in dastMarks \/ Brings(d, m))

\* What a finding fits is what a push of it said.
Pushed(d) == \E p \in Pushes : p.dast = d /\ fits[d] = p.fits
FitsPushed ==
  /\ \A d \in Dast : fits[d] = None \/ Pushed(d)
  /\ \A d \in Dast, m \in Mark : <<d, m>> \in dastMarks => Pushed(d)
  /\ hook # None => Pushed(hook.push.dast) /\ hook.left \subseteq hook.push.marks
  /\ scan # None => (scan.marked => <<scan.vul, scan.mark>> \in vulMarks)

Related(v, d) == \E m \in Mark \cup {"manully"} : <<v, d, m>> \in rels
\* Every push of the finding fits the vulnerability, and the settings do not exclude it.
Fits(v, d) == \A p \in Pushes : p.dast = d => v \in p.fits
Validated(v) == setting = None \/ v \in setting.strategies

\* The scan that is handled will relate the vulnerability.
Scans(v, m) == scan # None /\ scan.vul = v /\ scan.mark = m

BoundApart == apart =>
  /\ hook = None \/ scan = None
  /\ scan # None => scan.setting = setting
  /\ \A v \in BoundVul, d \in Dast, m \in Mark :
       <<v, m>> \in vulMarks /\ <<d, m>> \in dastMarks /\ Fits(v, d) /\ Validated(v) =>
         Related(v, d) \/ Scans(v, m)
  /\ hook # None => \A v \in BoundVul, m \in hook.push.marks \ hook.left :
       <<v, m>> \in vulMarks /\ Fits(v, hook.push.dast) /\ Validated(v) => Related(v, hook.push.dast)

DastSafe == DastTyped /\ RelsBacked /\ FitsPushed /\ BoundApart

\* The push and the scan that are handled.
LEMMA DastHandled ==
  ASSUME DastTyped
  PROVE  /\ hook # None => /\ hook \in Handled /\ hook.push.dast \in Dast
                           /\ hook.push \in Pushes /\ hook.push.marks \subseteq Mark
         /\ scan # None => scan \in Scanned
  BY ReportsAssumption DEF DastTyped, Handled

\* A push arrives.
LEMMA HookRowSafe ==
  ASSUME DastSafe, NEW p \in Pushes, dast!HookRow(p)
  PROVE  DastSafe'
<1>. USE DEF DastSafe
<1>1. /\ hook = None /\ apart' = (apart /\ scan = None)
      /\ hook' = [push |-> p, left |-> p.marks, known |-> fits[p.dast] # None]
      /\ fits' = IF fits[p.dast] = None THEN [fits EXCEPT ![p.dast] = p.fits] ELSE fits
      /\ UNCHANGED <<vulMarks, dastMarks, rels, setting, scan>>
  BY DEF dast!HookRow
<1>2. p.dast \in Dast /\ p.fits \subseteq BoundVul /\ p.marks \subseteq Mark
  BY ReportsAssumption
<1>3. hook' \in Handled /\ hook'.push = p /\ hook'.left = p.marks
  BY <1>1, <1>2 DEF Handled
<1>4. DastTyped'
  <2>1. apart' \in BOOLEAN
    BY <1>1 DEF DastTyped
  <2>2. fits' \in [Dast -> (SUBSET BoundVul) \cup {None}]
    BY <1>1, <1>2 DEF DastTyped
  <2>. QED BY <1>1, <1>3, <2>1, <2>2 DEF DastTyped
<1>5. RelsBacked'
  BY <1>1 DEF RelsBacked, Brings
<1>6. FitsPushed'
  <2>1. fits'[p.dast] = p.fits \/ (fits'[p.dast] = fits[p.dast] /\ fits[p.dast] # None)
    BY <1>1, <1>2 DEF DastTyped
  <2>2. \A d \in Dast : d # p.dast => fits'[d] = fits[d]
    BY <1>1, <1>2 DEF DastTyped
  <2>3. Pushed(p.dast)'
    BY <1>2, <2>1 DEF FitsPushed, Pushed
  <2>4. \A d \in Dast : Pushed(d) => Pushed(d)'
    BY <2>2, <2>3 DEF Pushed
  <2>5. \A d \in Dast : fits'[d] = None \/ Pushed(d)'
    BY <2>2, <2>3 DEF FitsPushed, Pushed
  <2>6. Pushed(hook.push.dast)'
    BY <1>3, <2>3 DEF Pushed
  <2>. QED BY <1>1, <1>3, <2>4, <2>5, <2>6 DEF FitsPushed
<1>7. BoundApart'
  <2>1. apart' => apart /\ scan = None
    BY <1>1
  <2>2. hook'.push.marks \ hook'.left = {}
    BY <1>3
  <2>. QED BY <1>1, <2>1, <2>2 DEF BoundApart, Fits, Validated, Related, Scans
<1>. QED BY <1>4, <1>5, <1>6, <1>7

\* A mark of the push is matched.
LEMMA HookMatchSafe ==
  ASSUME DastSafe, NEW m \in Mark, dast!HookMatch(m)
  PROVE  DastSafe'
<1>. USE DEF DastSafe
<1>1. PICK d, new :
        /\ hook # None /\ m \in hook.left /\ d = hook.push.dast
        /\ new = {v \in hook.push.fits : <<v, m>> \in vulMarks /\ Validated(v)}
        /\ rels' = rels \cup {<<v, d, m>> : v \in new}
        /\ hook' = [hook EXCEPT !.left = @ \ {m}]
        /\ UNCHANGED <<fits, vulMarks, dastMarks, setting, scan, apart>>
  BY DEF dast!HookMatch, Validated
<1>2. /\ hook \in Handled /\ hook.push \in Pushes /\ hook.push.marks \subseteq Mark
      /\ d \in Dast /\ hook.push.fits \subseteq BoundVul
  BY <1>1, DastHandled, ReportsAssumption
<1>3. hook' \in Handled /\ hook'.push = hook.push /\ hook'.left = hook.left \ {m} /\ hook' # None
  BY <1>1, <1>2, ReportsAssumption DEF Handled
<1>4. \A v, e, n : <<v, e, n>> \in rels' <=> <<v, e, n>> \in rels \/ (v \in new /\ e = d /\ n = m)
  BY <1>1
<1>5. new \subseteq BoundVul /\ \A v \in new : <<v, m>> \in vulMarks
  BY <1>1, <1>2
<1>6. m \in hook.push.marks
  BY <1>1 DEF FitsPushed
<1>7. DastTyped'
  <2>1. rels' \subseteq BoundVul \X Dast \X (Mark \cup {"manully"})
    <3>1. \A v \in new : <<v, d, m>> \in BoundVul \X Dast \X (Mark \cup {"manully"})
      BY <1>2, <1>5
    <3>. QED BY <1>1, <3>1 DEF DastTyped
  <2>. QED BY <1>1, <1>3, <2>1 DEF DastTyped
<1>8. RelsBacked'
  <2>1. \A e, n : Brings(e, n)' <=> Brings(e, n)
    BY <1>1, <1>3 DEF Brings
  <2>2. Brings(d, m)
    BY <1>1, <1>6 DEF Brings
  <2>. QED BY <1>1, <1>4, <1>5, <2>1, <2>2 DEF RelsBacked
<1>9. FitsPushed'
  BY <1>1, <1>3 DEF FitsPushed, Pushed
<1>10. BoundApart'
  <2>1. \A v, e : Related(v, e) => Related(v, e)'
    BY <1>4 DEF Related
  <2>2. \A v, n : /\ Fits(v, n)' <=> Fits(v, n)
                  /\ Validated(v)' <=> Validated(v)
                  /\ Scans(v, n)' <=> Scans(v, n)
    BY <1>1 DEF Fits, Validated, Scans
  <2>3. ASSUME NEW v \in BoundVul, <<v, m>> \in vulMarks, Fits(v, d), Validated(v)
        PROVE  Related(v, d)'
    <3>1. v \in new
      BY <1>1, <1>2, <2>3 DEF Fits
    <3>. QED BY <1>4, <3>1 DEF Related
  <2>4. ASSUME apart, NEW v \in BoundVul, NEW n \in hook.push.marks \ hook'.left,
               <<v, n>> \in vulMarks, Fits(v, d), Validated(v)
        PROVE  Related(v, d)'
    <3>1. CASE n = m
      BY <2>3, <2>4, <3>1
    <3>2. CASE n # m
      BY <1>1, <1>3, <2>1, <2>4, <3>2 DEF BoundApart
    <3>. QED BY <3>1, <3>2
  <2>5. d = hook'.push.dast
    BY <1>1, <1>3
  <2>6. apart => /\ scan = None
                 /\ \A v \in BoundVul, e \in Dast, n \in Mark :
                      <<v, n>> \in vulMarks /\ <<e, n>> \in dastMarks /\ Fits(v, e) /\ Validated(v) =>
                        Related(v, e) \/ Scans(v, n)
    BY <1>1 DEF BoundApart
  <2>. QED BY <1>1, <1>3, <2>1, <2>2, <2>4, <2>5, <2>6 DEF BoundApart
<1>. QED BY <1>7, <1>8, <1>9, <1>10

\* The marks of the push are stored, when all are matched.
LEMMA HookStoreSafe ==
  ASSUME DastSafe, dast!HookStore
  PROVE  DastSafe'
<1>. USE DEF DastSafe
<1>1. PICK d, marks :
        /\ d = hook.push.dast /\ marks = hook.push.marks
        /\ hook # None /\ hook.left = {} /\ hook' = None
        /\ dastMarks' = dastMarks \cup ({d} \X marks)
        /\ UNCHANGED <<fits, vulMarks, rels, setting, scan, apart>>
  BY DEF dast!HookStore
<1>2. d \in Dast /\ marks \subseteq Mark
  BY <1>1, DastHandled
<1>3. \A e, m : <<e, m>> \in dastMarks' <=> <<e, m>> \in dastMarks \/ (e = d /\ m \in marks)
  BY <1>1
<1>4. DastTyped'
  <2>1. dastMarks' \subseteq Dast \X Mark
    BY <1>1, <1>2 DEF DastTyped
  <2>. QED BY <1>1, <2>1 DEF DastTyped
<1>5. RelsBacked'
  BY <1>1, <1>3 DEF RelsBacked, Brings
<1>6. FitsPushed'
  BY <1>1, <1>3 DEF FitsPushed, Pushed
<1>7. BoundApart'
  <2>1. ASSUME apart, NEW v \in BoundVul, NEW m \in marks, <<v, m>> \in vulMarks, Fits(v, d), Validated(v)
        PROVE  Related(v, d)
    <3>1. m \in hook.push.marks \ hook.left
      BY <1>1, <2>1
    <3>. QED BY <1>1, <2>1, <3>1 DEF BoundApart
  <2>2. \A v, e : /\ Fits(v, e)' <=> Fits(v, e)
                  /\ Validated(v)' <=> Validated(v)
                  /\ Scans(v, e)' <=> Scans(v, e)
                  /\ Related(v, e)' <=> Related(v, e)
    BY <1>1 DEF Fits, Validated, Scans, Related
  <2>3. ASSUME apart, NEW v \in BoundVul, NEW e \in Dast, NEW m \in Mark, <<v, m>> \in vulMarks,
               <<e, m>> \in dastMarks', Fits(v, e), Validated(v)
        PROVE  Related(v, e) \/ Scans(v, m)
    <3>1. CASE <<e, m>> \in dastMarks
      BY <2>3, <3>1 DEF BoundApart
    <3>2. CASE e = d /\ m \in marks
      BY <2>1, <2>3, <3>2
    <3>. QED BY <1>3, <2>3, <3>1, <3>2
  <2>4. apart => (scan # None => scan.setting = setting)
    BY DEF BoundApart
  <2>. QED BY <1>1, <2>2, <2>3, <2>4 DEF BoundApart
<1>. QED BY <1>4, <1>5, <1>6, <1>7

\* A scan of a pool begins.
LEMMA ScanReadSafe ==
  ASSUME DastSafe, NEW v \in BoundVul, NEW m \in Mark, dast!ScanRead(v, m)
  PROVE  DastSafe'
<1>. USE DEF DastSafe
<1>1. /\ scan = None /\ scan' = [vul |-> v, mark |-> m, setting |-> setting, marked |-> FALSE]
      /\ apart' = (apart /\ hook = None)
      /\ UNCHANGED <<fits, vulMarks, dastMarks, rels, setting, hook>>
  BY DEF dast!ScanRead
<1>2. scan' \in Scanned /\ scan'.setting = setting /\ ~scan'.marked
  BY <1>1 DEF DastTyped, Scanned
<1>3. DastTyped'
  <2>1. apart' \in BOOLEAN
    BY <1>1 DEF DastTyped
  <2>. QED BY <1>1, <1>2, <2>1 DEF DastTyped
<1>4. RelsBacked'
  BY <1>1 DEF RelsBacked, Brings
<1>5. FitsPushed'
  BY <1>1, <1>2 DEF FitsPushed, Pushed
<1>6. BoundApart'
  <2>1. \A u, e : /\ Fits(u, e)' <=> Fits(u, e)
                  /\ Validated(u)' <=> Validated(u)
                  /\ Related(u, e)' <=> Related(u, e)
                  /\ ~Scans(u, e)
    BY <1>1 DEF Fits, Validated, Scans, Related
  <2>2. apart' => apart /\ hook = None
    BY <1>1
  <2>. QED BY <1>1, <1>2, <2>1, <2>2 DEF BoundApart
<1>. QED BY <1>3, <1>4, <1>5, <1>6

\* The scan stores its mark.
LEMMA ScanMarkSafe ==
  ASSUME DastSafe, dast!ScanMark
  PROVE  DastSafe'
<1>. USE DEF DastSafe
<1>1. PICK v, m :
        /\ v = scan.vul /\ m = scan.mark
        /\ scan # None /\ vulMarks' = vulMarks \cup {<<v, m>>} /\ scan' = [scan EXCEPT !.marked = TRUE]
        /\ UNCHANGED <<fits, dastMarks, rels, setting, hook, apart>>
  BY DEF dast!ScanMark
<1>2. scan \in Scanned /\ v \in BoundVul /\ m \in Mark
  BY <1>1, DastHandled DEF Scanned
<1>3. /\ scan' \in Scanned /\ scan'.vul = v /\ scan'.mark = m /\ scan'.setting = scan.setting
      /\ scan' # None
  BY <1>1, <1>2, ReportsAssumption DEF Scanned
<1>4. \A u, n : <<u, n>> \in vulMarks' <=> <<u, n>> \in vulMarks \/ (u = v /\ n = m)
  BY <1>1
<1>5. DastTyped'
  BY <1>1, <1>2, <1>3 DEF DastTyped
<1>6. RelsBacked'
  BY <1>1, <1>4 DEF RelsBacked, Brings
<1>7. FitsPushed'
  BY <1>1, <1>3, <1>4 DEF FitsPushed, Pushed
<1>8. BoundApart'
  <2>1. \A u, e : /\ Fits(u, e)' <=> Fits(u, e)
                  /\ Validated(u)' <=> Validated(u)
                  /\ Related(u, e)' <=> Related(u, e)
    BY <1>1 DEF Fits, Validated, Related
  <2>2. \A u, n : Scans(u, n)' <=> u = v /\ n = m
    BY <1>3 DEF Scans
  <2>3. \A u, n : Scans(u, n) <=> u = v /\ n = m
    BY <1>1 DEF Scans
  <2>4. ASSUME apart, NEW u \in BoundVul, NEW e \in Dast, NEW n \in Mark, <<u, n>> \in vulMarks',
               <<e, n>> \in dastMarks, Fits(u, e), Validated(u)
        PROVE  Related(u, e) \/ Scans(u, n)
    BY <1>4, <2>3, <2>4 DEF BoundApart
  <2>5. apart => hook = None /\ scan.setting = setting
    BY <1>1 DEF BoundApart
  <2>. QED BY <1>1, <1>3, <2>1, <2>2, <2>3, <2>4, <2>5 DEF BoundApart
<1>. QED BY <1>5, <1>6, <1>7, <1>8

\* The scan looks for the findings of its mark.
LEMMA ScanMatchSafe ==
  ASSUME DastSafe, dast!ScanMatch
  PROVE  DastSafe'
<1>. USE DEF DastSafe
<1>1. PICK v, m, filtered, hits :
        /\ v = scan.vul /\ m = scan.mark
        /\ filtered = (scan.setting # None /\ scan.setting.on /\ v \notin scan.setting.strategies)
        /\ hits = {d \in Dast : <<d, m>> \in dastMarks /\ v \in fits[d]}
        /\ scan # None /\ scan.marked /\ scan' = None
        /\ rels' = IF filtered THEN rels ELSE rels \cup ({v} \X hits \X {m})
        /\ UNCHANGED <<fits, vulMarks, dastMarks, setting, hook, apart>>
  BY DEF dast!ScanMatch
<1>2. scan \in Scanned /\ v \in BoundVul /\ m \in Mark /\ <<v, m>> \in vulMarks
  BY <1>1, DastHandled DEF Scanned, FitsPushed
<1>3. \A u, d, n : <<u, d, n>> \in rels' <=> <<u, d, n>> \in rels \/ (~filtered /\ u = v /\ d \in hits /\ n = m)
  BY <1>1
<1>4. DastTyped'
  <2>1. hits \subseteq Dast
    BY <1>1
  <2>2. \A t \in {v} \X hits \X {m} : t \in BoundVul \X Dast \X (Mark \cup {"manully"})
    BY <1>2, <2>1
  <2>. QED BY <1>1, <2>2 DEF DastTyped
<1>5. RelsBacked'
  BY <1>1, <1>2, <1>3 DEF RelsBacked, Brings
<1>6. FitsPushed'
  BY <1>1 DEF FitsPushed, Pushed
<1>7. BoundApart'
  <2>1. \A u, e : /\ Fits(u, e)' <=> Fits(u, e)
                  /\ Validated(u)' <=> Validated(u)
                  /\ ~Scans(u, e)'
    BY <1>1 DEF Fits, Validated, Scans
  <2>2. \A u, e : Related(u, e) => Related(u, e)'
    BY <1>3 DEF Related
  <2>3. ASSUME apart, NEW e \in Dast, <<e, m>> \in dastMarks, Fits(v, e), Validated(v)
        PROVE  Related(v, e)'
    <3>1. ~filtered
      BY <1>1, <2>3 DEF BoundApart, Validated
    <3>2. v \in fits[e]
      BY <1>2, <2>3 DEF FitsPushed, Pushed, Fits
    <3>3. <<v, e, m>> \in rels'
      BY <1>1, <1>3, <2>3, <3>1, <3>2
    <3>. QED BY <1>2, <3>3 DEF Related
  <2>4. ASSUME apart, NEW u \in BoundVul, NEW e \in Dast, NEW n \in Mark, <<u, n>> \in vulMarks,
               <<e, n>> \in dastMarks, Fits(u, e), Validated(u)
        PROVE  Related(u, e)'
    <3>1. Related(u, e) \/ Scans(u, n)
      BY <2>4 DEF BoundApart
    <3>. QED BY <1>1, <2>2, <2>3, <2>4, <3>1 DEF Scans
  <2>5. apart => hook = None
    BY <1>1 DEF BoundApart
  <2>. QED BY <1>1, <2>1, <2>4, <2>5 DEF BoundApart
<1>. QED BY <1>4, <1>5, <1>6, <1>7

\* Relations that users edit.
LEMMA EditRelationSafe ==
  ASSUME DastSafe, NEW v \in BoundVul, NEW d \in Dast,
         dast!CreateRelation(v, d) \/ dast!DeleteRelation(v, d)
  PROVE  DastSafe'
<1>. USE DEF DastSafe
<1>1. CASE dast!CreateRelation(v, d)
  <2>1. /\ rels' = rels \cup {<<v, d, "manully">>}
        /\ UNCHANGED <<fits, vulMarks, dastMarks, setting, hook, scan, apart>>
    BY <1>1 DEF dast!CreateRelation
  <2>2. DastTyped'
    BY <2>1 DEF DastTyped
  <2>3. RelsBacked'
    <3>1. ASSUME NEW u \in BoundVul, NEW e \in Dast, NEW m \in Mark, <<u, e, m>> \in rels'
          PROVE  <<u, e, m>> \in rels
      BY <2>1, <3>1, ReportsAssumption
    <3>. QED BY <2>1, <3>1 DEF RelsBacked, Brings
  <2>4. FitsPushed'
    BY <2>1 DEF FitsPushed, Pushed
  <2>5. BoundApart'
    <3>1. \A u, e : Related(u, e) => Related(u, e)'
      BY <2>1 DEF Related
    <3>2. \A u, e : /\ Fits(u, e)' <=> Fits(u, e)
                    /\ Validated(u)' <=> Validated(u)
                    /\ Scans(u, e)' <=> Scans(u, e)
      BY <2>1 DEF Fits, Validated, Scans
    <3>3. apart' = apart
      BY <2>1
    <3>. QED BY <2>1, <3>1, <3>2, <3>3 DEF BoundApart
  <2>. QED BY <2>2, <2>3, <2>4, <2>5
<1>2. CASE dast!DeleteRelation(v, d)
  <2>1. /\ rels' \subseteq rels /\ apart' = FALSE
        /\ UNCHANGED <<fits, vulMarks, dastMarks, setting, hook, scan>>
    BY <1>2 DEF dast!DeleteRelation
  <2>. QED BY <2>1 DEF DastTyped, RelsBacked, Brings, FitsPushed, Pushed, BoundApart
<1>. QED BY <1>1, <1>2

\* The setting is changed.
LEMMA ChangeSettingSafe ==
  ASSUME DastSafe, NEW s \in Settings, dast!ChangeSetting(s)
  PROVE  DastSafe'
<1>1. /\ setting' = s /\ apart' = FALSE
      /\ UNCHANGED <<fits, vulMarks, dastMarks, rels, hook, scan>>
  BY DEF dast!ChangeSetting
<1>. QED BY <1>1 DEF DastSafe, DastTyped, RelsBacked, Brings, FitsPushed, Pushed, BoundApart

\* The first state.
LEMMA DastBegin == dast!Init => DastSafe
<1>1. ASSUME dast!Init
      PROVE  /\ vulMarks = {} /\ dastMarks = {} /\ rels = {} /\ apart = TRUE /\ setting \in Settings \cup {None}
             /\ hook = None /\ scan = None /\ fits \in [Dast -> (SUBSET BoundVul) \cup {None}]
             /\ \A d \in Dast : fits[d] = None
  <2>1. fits = [d \in Dast |-> None] /\ vulMarks = {} /\ dastMarks = {} /\ rels = {} /\ apart = TRUE
        /\ setting \in Settings \cup {None} /\ hook = None /\ scan = None
    BY <1>1 DEF dast!Init
  <2>2. fits \in [Dast -> (SUBSET BoundVul) \cup {None}] /\ \A d \in Dast : fits[d] = None
    BY <2>1
  <2>. QED BY <2>1, <2>2
<1>2. dast!Init => DastTyped
  BY <1>1 DEF DastTyped
<1>3. dast!Init => RelsBacked /\ FitsPushed
  BY <1>1 DEF RelsBacked, FitsPushed
<1>4. dast!Init => BoundApart
  BY <1>1 DEF BoundApart
<1>. QED BY <1>2, <1>3, <1>4 DEF DastSafe

\* Every step keeps the invariant.
LEMMA DastStays ==
  ASSUME DastSafe, dast!Next
  PROVE  DastSafe'
  BY HookRowSafe, HookMatchSafe, HookStoreSafe, ScanReadSafe, ScanMarkSafe, ScanMatchSafe,
     EditRelationSafe, ChangeSettingSafe, Zenon DEF dast!Next

\* What is promised follows from the invariant.
LEMMA DastPromised == DastSafe => dast!RelationsAgree
<1>1. SUFFICES ASSUME DastSafe
               PROVE  dast!RelationsAgree
  OBVIOUS
<1>. USE DEF DastSafe
<1>2. ASSUME NEW v \in BoundVul, NEW d \in Dast, NEW n \in Mark, Related(v, d),
             <<v, n>> \in vulMarks, <<d, n>> \in dastMarks
      PROVE  d \in dast!Relatived(v)
  <2>1. \E r \in rels : r[1] = v /\ r[2] = d
    BY <1>2 DEF Related
  <2>. QED BY <1>2, <2>1 DEF dast!Relatived, dast!Shares
<1>3. dast!RelationListed
  <2>1. SUFFICES ASSUME hook = None, NEW r \in rels, r[3] # "manully"
                 PROVE  r[2] \in dast!Relatived(r[1])
    BY DEF dast!RelationListed
  <2>2. PICK v \in BoundVul, d \in Dast, m \in Mark \cup {"manully"} : r = <<v, d, m>>
    <3>1. r \in BoundVul \X Dast \X (Mark \cup {"manully"})
      BY <1>1 DEF DastTyped
    <3>. QED BY <3>1
  <2>3. r[1] = v /\ r[2] = d /\ m \in Mark
    BY <2>1, <2>2
  <2>4. <<v, m>> \in vulMarks /\ <<d, m>> \in dastMarks
    <3>1. <<v, d, m>> \in rels
      BY <2>2
    <3>2. ~Brings(d, m)
      BY <2>1 DEF Brings
    <3>. QED BY <1>1, <2>3, <3>1, <3>2 DEF RelsBacked
  <2>5. Related(v, d)
    BY <2>2, <2>3 DEF Related
  <2>. QED BY <1>2, <2>3, <2>4, <2>5
<1>4. dast!BoundWhenApart
  <2>1. SUFFICES ASSUME apart, hook = None, scan = None, NEW v \in BoundVul, NEW d \in dast!Shares(v),
                        \A p \in Pushes : p.dast = d => v \in p.fits,
                        setting = None \/ v \in setting.strategies
                 PROVE  d \in dast!Relatived(v)
    BY DEF dast!BoundWhenApart
  <2>2. PICK m \in Mark : d \in Dast /\ <<v, m>> \in vulMarks /\ <<d, m>> \in dastMarks
    BY DEF dast!Shares
  <2>3. Related(v, d)
    <3>1. Fits(v, d) /\ Validated(v) /\ ~Scans(v, m)
      BY <2>1 DEF Fits, Validated, Scans
    <3>. QED BY <1>1, <2>1, <2>2, <3>1 DEF BoundApart
  <2>. QED BY <1>2, <2>2, <2>3
<1>. QED BY <1>3, <1>4 DEF dast!RelationsAgree

\* Scan and push bind the same vulnerabilities and findings, whichever comes first
\* (DastWebhook.post, handler_vul).
THEOREM RelationsAlwaysAgree == Spec => []RelationsAgree
<1>1. Init => (part = "dast" => DastSafe)
  BY DastBegin DEF Init
<1>2. (part = "dast" => DastSafe) /\ [Next]_vars => (part = "dast" => DastSafe)'
  <2>1. DastSafe /\ UNCHANGED dastVars => DastSafe'
    <3>1. SUFFICES ASSUME DastSafe, UNCHANGED <<fits, vulMarks, dastMarks, rels, setting, hook, scan, apart>>
                   PROVE  DastSafe'
      BY DEF dastVars
    <3>2. DastTyped' /\ RelsBacked' /\ FitsPushed'
      BY <3>1 DEF DastSafe, DastTyped, RelsBacked, Brings, FitsPushed, Pushed
    <3>3. \A v, e : /\ Related(v, e)' <=> Related(v, e)
                    /\ Fits(v, e)' <=> Fits(v, e)
                    /\ Validated(v)' <=> Validated(v)
                    /\ Scans(v, e)' <=> Scans(v, e)
      BY <3>1 DEF Related, Fits, Validated, Scans
    <3>4. BoundApart'
      BY <3>1, <3>3 DEF DastSafe, BoundApart
    <3>. QED BY <3>2, <3>4 DEF DastSafe
  <2>. QED BY <2>1, PartStays, DastStays DEF Next, vars
<1>3. (part = "dast" => DastSafe) => RelationsAgree
  BY DastPromised DEF RelationsAgree
<1>. QED BY <1>1, <1>2, <1>3, PTL DEF Spec

--------------------------------------------------------------------------------
(* VulSearch: where the index differs from the table a task is queued, and one  *)
(* that is running has read the table, or a later one is queued.                *)

ListRow == [status: ListStatus, is_del: BOOLEAN]
Build == [docs: [ListedVul -> ListStatus \cup {None}], late: Nat]

SearchTyped ==
  /\ listed \in [ListedVul -> ListRow \cup {None}]
  /\ lock \in BOOLEAN /\ queued \in Nat /\ running \in Build \cup {None}

TasksCover ==
  /\ lock => queued >= 1
  /\ running = None => queued >= 1 \/ index = search!Docs
  /\ running # None => running.late <= queued /\ (running.late >= 1 \/ running.docs = search!Docs)

SearchSafe == SearchTyped /\ TasksCover

\* The documents of the table.
LEMMA DocsTyped == SearchTyped => search!Docs \in [ListedVul -> ListStatus \cup {None}]
  BY DEF SearchTyped, search!Docs, ListRow

\* The greater of a number and one.
LEMMA MaxOne == \A n \in Nat : search!Max({n, 1}) \in Nat /\ search!Max({n, 1}) >= 1 /\
                               (n <= 1 => search!Max({n, 1}) = 1) /\ (n >= 1 => search!Max({n, 1}) = n)
<1>1. SUFFICES ASSUME NEW n \in Nat
               PROVE  /\ n <= 1 => search!Max({n, 1}) = 1
                      /\ n >= 1 => search!Max({n, 1}) = n
  OBVIOUS
<1>2. PICK m : m = search!Max({n, 1})
  OBVIOUS
<1>3. \E x \in {n, 1} : \A y \in {n, 1} : x >= y
  <2>1. CASE n <= 1
    BY <2>1
  <2>2. CASE n >= 1
    BY <2>2
  <2>. QED BY <2>1, <2>2
<1>4. m \in {n, 1} /\ \A y \in {n, 1} : m >= y
  BY <1>2, <1>3 DEF search!Max
<1>. QED BY <1>2, <1>4

\* A write of the table, which queues a task.
LEMMA WriteSafe ==
  ASSUME SearchSafe, NEW r \in [ListedVul -> ListRow \cup {None}], search!Write(r)
  PROVE  SearchSafe'
<1>. USE DEF SearchSafe
<1>1. /\ listed' = r /\ lock' = TRUE /\ queued' = IF lock THEN queued ELSE queued + 1
      /\ running' = IF running = None THEN None
                    ELSE [running EXCEPT !.late = IF lock THEN search!Max({@, 1}) ELSE @ + 1]
  BY DEF search!Write, search!Signal
<1>2. queued' \in Nat /\ queued' >= 1
  BY <1>1 DEF SearchTyped, TasksCover
<1>3. CASE running = None
  BY <1>1, <1>2, <1>3 DEF SearchTyped, TasksCover
<1>4. CASE running # None
  <2>1. running \in Build /\ running.late \in Nat
    BY <1>4 DEF SearchTyped, Build
  <2>2. PICK late : late = IF lock THEN search!Max({running.late, 1}) ELSE running.late + 1
    OBVIOUS
  <2>3. late \in Nat /\ late >= 1 /\ late <= queued'
    BY <1>1, <1>2, <1>4, <2>1, <2>2, MaxOne DEF SearchTyped, TasksCover
  <2>4. running' = [running EXCEPT !.late = late]
    BY <1>1, <1>4, <2>2
  <2>5. running' \in Build /\ running'.late = late
    BY <2>1, <2>3, <2>4 DEF Build
  <2>6. running' # None
    BY <2>5, ReportsAssumption DEF Build
  <2>. QED BY <1>1, <1>2, <2>3, <2>5, <2>6 DEF SearchTyped, TasksCover
<1>. QED BY <1>3, <1>4

\* What scans and users write is a table.
LEMMA WritesTyped ==
  ASSUME SearchTyped, NEW v \in ListedVul
  PROVE  /\ search!Save(v) => \E r \in [ListedVul -> ListRow \cup {None}] : search!Write(r)
         /\ \A u \in Reader, s \in ListStatus :
              search!VulStatus(u, v, s) => \E r \in [ListedVul -> ListRow \cup {None}] : search!Write(r)
         /\ \A u \in Reader :
              search!VulDelete(u, v) => \E r \in [ListedVul -> ListRow \cup {None}] : search!Write(r)
<1>. USE DEF SearchTyped
<1>1. ASSUME search!Save(v)
      PROVE  \E r \in [ListedVul -> ListRow \cup {None}] : search!Write(r)
  <2>1. PICK row : row = IF listed[v] = None THEN [status |-> "pending", is_del |-> FALSE]
                         ELSE [listed[v] EXCEPT !.is_del = FALSE]
    OBVIOUS
  <2>2. row \in ListRow
    BY <2>1, ReportsAssumption DEF ListRow
  <2>3. PICK r : r = [listed EXCEPT ![v] = row]
    OBVIOUS
  <2>4. r = [listed EXCEPT ![v] = IF @ = None THEN [status |-> "pending", is_del |-> FALSE]
                                  ELSE [@ EXCEPT !.is_del = FALSE]]
    BY <2>1, <2>3
  <2>5. search!Write(r)
    BY <1>1, <2>4, Zenon DEF search!Save
  <2>. QED BY <2>2, <2>3, <2>5
<1>2. ASSUME NEW u \in Reader, NEW s \in ListStatus, search!VulStatus(u, v, s)
      PROVE  \E r \in [ListedVul -> ListRow \cup {None}] : search!Write(r)
  <2>1. listed[v] \in ListRow
    BY <1>2 DEF search!VulStatus, search!Undeleted
  <2>2. PICK r : r = [listed EXCEPT ![v].status = s]
    OBVIOUS
  <2>3. r \in [ListedVul -> ListRow \cup {None}]
    BY <2>1, <2>2 DEF ListRow
  <2>4. search!Write(r)
    BY <1>2, <2>2, Zenon DEF search!VulStatus
  <2>. QED BY <2>3, <2>4
<1>3. ASSUME NEW u \in Reader, search!VulDelete(u, v)
      PROVE  \E r \in [ListedVul -> ListRow \cup {None}] : search!Write(r)
  <2>1. PICK r : r = [listed EXCEPT ![v] = None]
    OBVIOUS
  <2>2. search!Write(r)
    BY <1>3, <2>1, Zenon DEF search!VulDelete
  <2>. QED BY <2>1, <2>2
<1>. QED BY <1>1, <1>2, <1>3

\* Deleting several.
LEMMA DelVulManyTyped ==
  ASSUME SearchTyped, NEW u \in Reader, NEW S \in SUBSET ListedVul, search!DelVulMany(u, S)
  PROVE  \E r \in [ListedVul -> ListRow \cup {None}] : search!Write(r)
<1>1. PICK gone : gone = S \cap search!Undeleted(u)
  OBVIOUS
<1>2. \A v \in gone : listed[v] \in ListRow
  BY <1>1 DEF search!Undeleted, SearchTyped
<1>3. PICK r : r = [v \in ListedVul |-> IF v \in gone THEN [listed[v] EXCEPT !.is_del = TRUE] ELSE listed[v]]
  OBVIOUS
<1>4. r \in [ListedVul -> ListRow \cup {None}]
  BY <1>2, <1>3 DEF SearchTyped, ListRow
<1>5. search!Write(r)
  BY <1>1, <1>3, Zenon DEF search!DelVulMany
<1>. QED BY <1>4, <1>5

\* The tasks.
LEMMA TasksSafe ==
  ASSUME SearchSafe,
         search!LockExpires \/ search!BuildReads \/ search!BuildCommits \/ search!BuildFails
  PROVE  SearchSafe'
<1>. USE DEF SearchSafe
<1>1. CASE search!LockExpires
  BY <1>1 DEF search!LockExpires, SearchTyped, TasksCover, search!Docs
<1>2. CASE search!BuildReads
  <2>1. /\ search!Due /\ running' = [docs |-> search!Docs, late |-> 0] /\ queued' = queued - 1
        /\ listed' = listed /\ index' = index /\ lock' = lock
    BY <1>2 DEF search!BuildReads
  <2>2. running' \in Build /\ running'.docs = search!Docs /\ running'.late = 0
    BY <2>1, DocsTyped DEF Build
  <2>3. running' # None
    BY <2>2, ReportsAssumption DEF Build
  <2>4. queued' \in Nat /\ (lock => queued' >= 1)
    BY <2>1 DEF search!Due, SearchTyped
  <2>5. search!Docs' = search!Docs
    BY <2>1 DEF search!Docs
  <2>. QED BY <2>1, <2>2, <2>3, <2>4, <2>5 DEF SearchTyped, TasksCover
<1>3. CASE search!BuildCommits
  <2>1. /\ running # None /\ index' = running.docs /\ running' = None /\ lock' = FALSE
        /\ listed' = listed /\ queued' = queued
    BY <1>3 DEF search!BuildCommits
  <2>2. search!Docs' = search!Docs
    BY <2>1 DEF search!Docs
  <2>3. running.late \in Nat
    BY <2>1 DEF SearchTyped, Build
  <2>4. queued' \in Nat /\ (queued' >= 1 \/ index' = search!Docs)
    BY <2>1, <2>3 DEF SearchTyped, TasksCover
  <2>5. SearchTyped'
    BY <2>1, <2>4 DEF SearchTyped
  <2>. QED BY <2>1, <2>2, <2>4, <2>5 DEF TasksCover
<1>4. CASE search!BuildFails
  <2>1. /\ running # None /\ queued > running.late /\ queued' = queued - 1 /\ lock' = FALSE
        /\ listed' = listed /\ index' = index /\ running' = running
    BY <1>4 DEF search!BuildFails
  <2>2. search!Docs' = search!Docs
    BY <2>1 DEF search!Docs
  <2>3. running.late \in Nat
    BY <2>1 DEF SearchTyped, Build
  <2>4. queued' \in Nat /\ running.late <= queued'
    BY <2>1, <2>3 DEF SearchTyped
  <2>5. SearchTyped'
    BY <2>1, <2>4 DEF SearchTyped
  <2>. QED BY <2>1, <2>2, <2>4, <2>5 DEF TasksCover
<1>. QED BY <1>1, <1>2, <1>3, <1>4

\* Every step keeps the invariant.
LEMMA SearchStays ==
  ASSUME SearchSafe, search!Next
  PROVE  SearchSafe'
<1>1. ASSUME NEW r \in [ListedVul -> ListRow \cup {None}], search!Write(r)
      PROVE  SearchSafe'
  BY <1>1, WriteSafe
<1>2. ASSUME NEW v \in ListedVul,
             \/ search!Save(v)
             \/ \E u \in Reader : search!VulDelete(u, v) \/ \E s \in ListStatus : search!VulStatus(u, v, s)
      PROVE  SearchSafe'
  BY <1>1, <1>2, WritesTyped DEF SearchSafe
<1>3. ASSUME NEW u \in Reader, NEW S \in SUBSET ListedVul, search!DelVulMany(u, S)
      PROVE  SearchSafe'
  BY <1>1, <1>3, DelVulManyTyped DEF SearchSafe
<1>. QED BY <1>2, <1>3, TasksSafe, Zenon DEF search!Next

\* VulSearch counts as Reports does.
LEMMA SameCount == \A S : search!Cardinality(S) = Cardinality(S)
  BY DEF search!Cardinality, Cardinality

\* The first page of a set of vulnerabilities, in whatever order, has as many of them as
\* fit on it, and is the whole set when that fits.
LEMMA FirstPage ==
  ASSUME NEW S \in SUBSET ListedVul, NEW by \in search!Orders
  PROVE  /\ search!Page(S, 1, by) \subseteq S
         /\ Cardinality(search!Page(S, 1, by)) = IF Cardinality(S) <= PageSize THEN Cardinality(S) ELSE PageSize
         /\ Cardinality(S) <= PageSize => search!Page(S, 1, by) = S
<1>a. PICK below : below = [v \in S |-> {x \in S : by[x] <= by[v]}]
  OBVIOUS
<1>b. PICK rank : rank = [v \in S |-> Cardinality(below[v])]
  OBVIOUS
<1>c. PICK size : size = Cardinality(S)
  OBVIOUS
<1>d. PICK P : P = {v \in S : rank[v] <= PageSize}
  OBVIOUS
<1>1. IsFiniteSet(S) /\ size \in Nat /\ PageSize \in Nat
  BY <1>c, ReportsAssumption, FS_Subset, FS_CardinalityType
<1>2. \A v, w \in S : by[v] \in Nat /\ (by[v] = by[w] => v = w)
  <2>1. search!Cardinality(ListedVul) \in Nat
    BY SameCount, ReportsAssumption, FS_CardinalityType
  <2>2. by \in [ListedVul -> 1..search!Cardinality(ListedVul)]
    BY DEF search!Orders, search!Injection
  <2>3. \A v, w \in ListedVul : by[v] = by[w] => v = w
    BY DEF search!Orders, search!Injection, search!IsInjective
  <2>4. \A v \in ListedVul : by[v] \in Nat
    BY <2>1, <2>2
  <2>. QED BY <2>3, <2>4
<1>3. ASSUME NEW v \in S
      PROVE  rank[v] \in 1..size /\ IsFiniteSet(below[v])
  <2>1. below[v] \subseteq S /\ v \in below[v]
    BY <1>2, <1>a
  <2>2. IsFiniteSet(below[v]) /\ Cardinality(below[v]) \in Nat /\ Cardinality(below[v]) <= size
    BY <1>1, <1>c, <2>1, FS_Subset, FS_CardinalityType
  <2>3. Cardinality(below[v]) # 0
    BY <2>1, <2>2, FS_EmptySet
  <2>. QED BY <1>1, <1>b, <2>2, <2>3
<1>4. ASSUME NEW v \in S, NEW w \in S, by[v] < by[w]
      PROVE  rank[v] # rank[w]
  <2>1. below[v] \subseteq below[w] /\ w \notin below[v] /\ w \in below[w]
    BY <1>2, <1>4, <1>a
  <2>2. below[v] # below[w] /\ IsFiniteSet(below[v]) /\ IsFiniteSet(below[w])
    BY <1>3, <2>1
  <2>3. Cardinality(below[v]) < Cardinality(below[w])
    <3>1. Cardinality(below[v]) \in Nat /\ Cardinality(below[w]) \in Nat
      BY <2>2, FS_CardinalityType
    <3>2. /\ Cardinality(below[v]) <= Cardinality(below[w])
          /\ Cardinality(below[v]) # Cardinality(below[w])
      BY <2>1, <2>2, FS_Subset
    <3>. QED BY <3>1, <3>2
  <2>. QED BY <1>3, <1>b, <2>3
<1>5. rank \in Bijection(S, 1..size)
  <2>1. \A v, w \in S : rank[v] = rank[w] => v = w
    <3>1. SUFFICES ASSUME NEW v \in S, NEW w \in S, v # w
                   PROVE  rank[v] # rank[w]
      OBVIOUS
    <3>2. by[v] < by[w] \/ by[w] < by[v]
      BY <1>2, <3>1
    <3>. QED BY <1>4, <3>1, <3>2
  <2>2. rank \in [S -> 1..size]
    BY <1>3, <1>b
  <2>3. rank \in Injection(S, 1..size)
    BY <2>1, <2>2 DEF Injection, IsInjective
  <2>4. IsFiniteSet(1..size) /\ Cardinality(1..size) = size
    <3>1. IsFiniteSet(1..size) /\ Cardinality(1..size) = IF 1 > size THEN 0 ELSE size - 1 + 1
      BY <1>1, FS_Interval
    <3>. QED BY <1>1, <3>1
  <2>5. rank \in Surjection(S, 1..size)
    BY <1>c, <2>3, <2>4, FS_Injection
  <2>. QED BY <2>3, <2>5 DEF Bijection
<1>6. search!Page(S, 1, by) = P
  <2>1. \A v \in S : (1 - 1) * PageSize < Cardinality(below[v]) /\ Cardinality(below[v]) <= 1 * PageSize <=>
                     rank[v] <= PageSize
    <3>1. SUFFICES ASSUME NEW v \in S
                   PROVE  (1 - 1) * PageSize < rank[v] /\ rank[v] <= 1 * PageSize <=> rank[v] <= PageSize
      BY <1>b
    <3>2. rank[v] \in Nat /\ rank[v] >= 1
      BY <1>1, <1>3
    <3>. QED BY <1>1, <3>2
  <2>2. search!Page(S, 1, by) = {v \in S : (1 - 1) * PageSize < Cardinality(below[v]) /\ Cardinality(below[v]) <= 1 * PageSize}
    BY <1>a, SameCount DEF search!Page
  <2>. QED BY <1>d, <2>1, <2>2
<1>7. CASE size <= PageSize
  <2>1. P = S
    <3>1. \A v \in S : rank[v] <= PageSize
      BY <1>1, <1>3, <1>7
    <3>. QED BY <1>d, <3>1
  <2>. QED BY <1>6, <1>7, <1>c, <2>1
<1>8. CASE ~(size <= PageSize)
  <2>. DEFINE r == [v \in P |-> rank[v]]
  <2>1. IsFiniteSet(P) /\ P \subseteq S
    BY <1>1, <1>d, FS_Subset
  <2>2. r \in Bijection(P, 1..PageSize)
    <3>1. r \in [P -> 1..PageSize]
      BY <1>1, <1>3, <1>d
    <3>2. \A v, w \in P : r[v] = r[w] => v = w
      BY <1>5, <2>1 DEF Bijection, Injection, IsInjective
    <3>3. \A n \in 1..PageSize : \E v \in P : r[v] = n
      <4>1. SUFFICES ASSUME NEW n \in 1..PageSize
                     PROVE  \E v \in P : r[v] = n
        OBVIOUS
      <4>2. n \in 1..size
        BY <1>1, <1>8
      <4>3. PICK v \in S : rank[v] = n
        BY <1>5, <4>2 DEF Bijection, Surjection
      <4>. QED BY <1>1, <1>d, <4>3
    <3>4. r \in Injection(P, 1..PageSize)
      BY <3>1, <3>2 DEF Injection, IsInjective
    <3>5. r \in Surjection(P, 1..PageSize)
      BY <3>1, <3>3 DEF Surjection
    <3>. QED BY <3>4, <3>5 DEF Bijection
  <2>3. Cardinality(1..PageSize) = Cardinality(P)
    BY <2>1, <2>2, FS_Bijection DEF ExistsBijection
  <2>4. Cardinality(1..PageSize) = PageSize
    <3>1. Cardinality(1..PageSize) = IF 1 > PageSize THEN 0 ELSE PageSize - 1 + 1
      BY <1>1, FS_Interval
    <3>. QED BY <1>1, <3>1
  <2>. QED BY <1>6, <1>8, <1>c, <2>1, <2>3, <2>4
<1>. QED BY <1>7, <1>8

\* What is promised follows from the invariant.
LEMMA SearchPromised == SearchSafe => search!ViewsAgree
<1>1. SUFFICES ASSUME SearchSafe
               PROVE  search!ViewsAgree
  OBVIOUS
<1>2. search!IndexCatchesUp
  BY <1>1 DEF SearchSafe, SearchTyped, TasksCover, search!IndexCatchesUp
<1>3. search!SearchShowsOwn
  <2>1. \A S, n, by : search!Page(S, n, by) \subseteq S
    BY DEF search!Page
  <2>2. ASSUME NEW u \in Reader, NEW q \in search!Query, NEW n \in 1..2, NEW by, NEW order,
               NEW v \in search!SearchPage(u, q, n, by, order)
        PROVE  v \in search!Undeleted(u)
    BY <2>1 DEF search!SearchPage
  <2>. QED BY <2>2 DEF search!SearchShowsOwn, search!Undeleted, search!Detail
<1>4. search!SearchAgrees
  <2>1. SUFFICES ASSUME index = search!Docs, NEW u \in Reader, NEW q \in search!Query,
                        NEW by \in search!Orders, NEW order \in search!Orders,
                        q.project \subseteq Sees[u]
                 PROVE  LET shown == search!SearchPage(u, q, 1, by, order)
                            first == search!ListPage(u, q, 1, order)
                        IN  /\ shown \subseteq search!List(u, q) /\ Cardinality(shown) = Cardinality(first)
                            /\ Cardinality(search!List(u, q)) <= PageSize => shown = first
    BY SameCount DEF search!SearchAgrees
  <2>2. q.status \subseteq ListStatus /\ None \notin q.status
    BY ReportsAssumption DEF search!Query
  <2>3. ASSUME NEW v \in ListedVul
        PROVE  index[v] \in q.status <=>
                 listed[v] # None /\ ~listed[v].is_del /\ listed[v].status \in q.status
    BY <2>1, <2>2 DEF search!Docs
  <2>4. PICK S : S = search!List(u, q)
    OBVIOUS
  <2>5. search!Hits(q) = S
    BY <2>1, <2>3, <2>4 DEF search!Hits, search!List, search!Undeleted
  <2>6. S \subseteq search!Undeleted(u) /\ S \subseteq ListedVul
    BY <2>4 DEF search!List, search!Undeleted
  <2>7. PICK P : P = search!Page(S, 1, by)
    OBVIOUS
  <2>8. PICK F : F = search!Page(S, 1, order)
    OBVIOUS
  <2>9. /\ P \subseteq S /\ Cardinality(P) = Cardinality(F) /\ Cardinality(P) <= PageSize
        /\ Cardinality(S) <= PageSize => P = F
    <3>1. Cardinality(S) \in Nat /\ PageSize \in Nat
      BY <2>6, ReportsAssumption, FS_Subset, FS_CardinalityType
    <3>. QED BY <2>6, <2>7, <2>8, <3>1, FirstPage
  <2>10. search!Page(P, 1, order) = P
    BY <2>6, <2>9, FirstPage
  <2>11. P \cap search!Undeleted(u) = P
    BY <2>6, <2>9
  <2>12. search!SearchPage(u, q, 1, by, order) = P /\ search!ListPage(u, q, 1, order) = F
    BY <2>4, <2>5, <2>7, <2>8, <2>10, <2>11 DEF search!SearchPage, search!ListPage
  <2>. QED BY <2>4, <2>9, <2>12
<1>5. search!SummaryAgrees
  <2>1. ASSUME NEW u \in Reader, NEW p \in Project, NEW s \in ListStatus
        PROVE  {v \in search!Undeleted(u) : listed[v].status = s /\ ProjectOf[v] = p} =
                 search!List(u, [status |-> {s}, project |-> {p}])
    BY DEF search!List
  <2>. QED BY <2>1 DEF search!SummaryAgrees, search!Summary
<1>. QED BY <1>2, <1>3, <1>4, <1>5 DEF search!ViewsAgree

\* List, search, summary and index of the vulnerabilities agree (vul_list_for_app,
\* get_vul_list_from_elastic_search, update_vul_tantivy_index).
THEOREM ViewsAlwaysAgree == Spec => []ViewsAgree
<1>1. Init => (part = "search" => SearchSafe)
  <2>1. search!Init => SearchSafe
    <3>1. ASSUME search!Init
          PROVE  index = search!Docs
      BY <3>1 DEF search!Init, search!Docs
    <3>2. ASSUME search!Init
          PROVE  SearchTyped
      BY <3>2 DEF search!Init, SearchTyped
    <3>. QED BY <3>1, <3>2 DEF search!Init, SearchSafe, TasksCover
  <2>. QED BY <2>1 DEF Init
<1>2. (part = "search" => SearchSafe) /\ [Next]_vars => (part = "search" => SearchSafe)'
  <2>1. SearchSafe /\ UNCHANGED searchVars => SearchSafe'
    BY DEF searchVars, SearchSafe, SearchTyped, TasksCover, search!Docs
  <2>. QED BY <2>1, PartStays, SearchStays DEF Next, vars
<1>3. (part = "search" => SearchSafe) => ViewsAgree
  BY SearchPromised DEF ViewsAgree
<1>. QED BY <1>1, <1>2, <1>3, PTL DEF Spec

--------------------------------------------------------------------------------
(* PoolSearch: what a sequence of pages has still to show.                     *)

SearchOf == [kind: {"search"}, user: PoolReader, mode: 1..3, to: Nat, after: Nat, seen: SUBSET paging!Id,
             page: SUBSET paging!Id, due: SUBSET paging!Id, end: BOOLEAN]
DetailOf == [kind: {"detail"}, user: PoolReader, sinks: BOOLEAN, latest: Nat, page: SUBSET paging!Id, end: BOOLEAN]

PagesTyped ==
  /\ pools \in [paging!Id -> PoolRow \cup {None}]
  /\ uploaded \in 0..MaxPools /\ now \in 1..(MaxTime + 1)
  /\ client \in SearchOf \cup DetailOf \cup {paging!NoClient}

\* Ids are not given twice.
PoolsUploaded == \A i \in paging!Id : pools[i] # None => i <= uploaded

\* A row that a search asks for.
Sought(row, c) ==
  /\ row # None /\ row.agent \in AgentsOf[c.user] /\ row.time <= c.to
  /\ c.mode = 1 => row.hit
  /\ c.mode = 2 => ~row.hit

\* The pools due are old ones that the search asks for, and those that it has not
\* shown are on a later page.
SearchKnown == client.kind = "search" =>
  \A i \in client.due :
    /\ i <= uploaded
    /\ pools[i] # None => Sought(pools[i], client)
    /\ pools[i] # None /\ i \notin client.seen =>
         ~client.end /\ (client.mode \notin {1, 2} => pools[i].time <= client.after)

PagesSafe == PagesTyped /\ PoolsUploaded /\ SearchKnown

\* FiniteSets as PoolSearch extends it.
LEMMA SamePageCount ==
  ASSUME NEW S
  PROVE  paging!Cardinality(S) = Cardinality(S)
  BY DEF Cardinality, paging!Cardinality

\* The rows of the time range.
LEMMA SoughtInRange ==
  ASSUME NEW c \in SearchOf, NEW i \in paging!Id
  PROVE  i \in paging!InRange(c.user, c.mode, c.to) <=> Sought(pools[i], c)
<1>1. c.mode \in 1..3
  BY DEF SearchOf
<1>2. paging!Meets(i, c.mode) <=> (c.mode = 1 => pools[i].hit) /\ (c.mode = 2 => ~pools[i].hit)
  BY <1>1 DEF paging!Meets
<1>. QED BY <1>2 DEF paging!InRange, paging!Own, paging!Stored, Sought

\* Uploads and deletions leave the rows that are due as they are.
LEMMA RowsStay ==
  ASSUME PagesSafe, pools' \in [paging!Id -> PoolRow \cup {None}], uploaded' \in 0..MaxPools,
         uploaded <= uploaded', now' \in 1..(MaxTime + 1), client' = client,
         \A i \in paging!Id : pools'[i] # None => i <= uploaded' /\ (i <= uploaded => pools'[i] = pools[i])
  PROVE  PagesSafe'
<1>1. PagesTyped' /\ PoolsUploaded'
  BY DEF PagesSafe, PagesTyped, PoolsUploaded
<1>2. ASSUME client.kind = "search", NEW i \in client.due
      PROVE  i \in paging!Id /\ i <= uploaded /\ i <= uploaded' /\ i \in Nat
  <2>1. client \in SearchOf
    BY <1>2 DEF PagesSafe, PagesTyped, SearchOf, DetailOf, paging!NoClient
  <2>2. i \in paging!Id
    BY <1>2, <2>1 DEF SearchOf
  <2>. QED BY <1>2, <2>2 DEF PagesSafe, PagesTyped, SearchKnown, paging!Id
<1>3. SearchKnown'
  BY <1>2 DEF PagesSafe, SearchKnown, Sought
<1>. QED BY <1>1, <1>3 DEF PagesSafe

\* Uploads, deletions and time.
LEMMA PoolsChangeSafe ==
  ASSUME PagesSafe, \/ \E a \in Agent, hit \in BOOLEAN, t \in {now - 1, now} : paging!Upload(a, hit, t)
                    \/ \E i \in paging!Id : paging!Delete(i)
                    \/ paging!Tick
  PROVE  PagesSafe'
<1>1. /\ pools \in [paging!Id -> PoolRow \cup {None}] /\ uploaded \in 0..MaxPools /\ uploaded \in Nat
      /\ now \in 1..(MaxTime + 1) /\ now \in Nat /\ MaxPools \in Nat /\ MaxTime \in Nat
      /\ \A i \in paging!Id : i \in Nat /\ (pools[i] # None => i <= uploaded)
  BY PagesAssumption DEF PagesSafe, PagesTyped, PoolsUploaded, paging!Id
<1>2. ASSUME NEW a \in Agent, NEW hit \in BOOLEAN, NEW t \in {now - 1, now}, paging!Upload(a, hit, t)
      PROVE  PagesSafe'
  <2>1. PICK row : row = [agent |-> a, hit |-> hit, time |-> t]
    OBVIOUS
  <2>2. t \in Nat
    BY <1>1, <1>2 DEF paging!Upload
  <2>3. row \in PoolRow
    BY <2>1, <2>2 DEF PoolRow
  <2>4. /\ uploaded < MaxPools /\ uploaded' = uploaded + 1 /\ UNCHANGED <<now, client>>
        /\ pools' = [pools EXCEPT ![uploaded + 1] = row]
    BY <1>2, <2>1 DEF paging!Upload
  <2>5. pools' \in [paging!Id -> PoolRow \cup {None}]
    BY <1>1, <2>3, <2>4
  <2>6. uploaded' \in 0..MaxPools /\ uploaded <= uploaded' /\ now' \in 1..(MaxTime + 1)
    BY <1>1, <2>4
  <2>7. \A i \in paging!Id : pools'[i] # None => i <= uploaded' /\ (i <= uploaded => pools'[i] = pools[i])
    BY <1>1, <2>4
  <2>. QED BY <2>4, <2>5, <2>6, <2>7, RowsStay
<1>3. ASSUME NEW i \in paging!Id, paging!Delete(i)
      PROVE  PagesSafe'
  <2>1. pools' = [pools EXCEPT ![i] = None] /\ UNCHANGED <<uploaded, now, client>>
    BY <1>3 DEF paging!Delete
  <2>2. pools' \in [paging!Id -> PoolRow \cup {None}] /\ uploaded <= uploaded'
    BY <1>1, <2>1
  <2>3. \A j \in paging!Id : pools'[j] # None => j <= uploaded' /\ (j <= uploaded => pools'[j] = pools[j])
    BY <1>1, <2>1
  <2>. QED BY <1>1, <2>1, <2>2, <2>3, RowsStay
<1>4. ASSUME paging!Tick
      PROVE  PagesSafe'
  <2>1. now < MaxTime /\ now' = now + 1 /\ UNCHANGED <<pools, uploaded, client>>
    BY <1>4 DEF paging!Tick
  <2>2. now' \in 1..(MaxTime + 1) /\ uploaded <= uploaded'
    BY <1>1, <2>1
  <2>. QED BY <1>1, <2>1, <2>2, RowsStay
<1>. QED BY <1>2, <1>3, <1>4

\* A set of numbers has a least one.
LEMMA LeastTime ==
  ASSUME NEW S \in SUBSET Nat, S # {}
  PROVE  paging!Min(S) \in S /\ \A i \in S : paging!Min(S) <= i
<1>1. PICK x \in S : \A y \in S : ~(<<y, x>> \in OpToRel(<, Nat))
  BY NatLessThanWellFounded, WFMin
<1>2. \A y \in S : x <= y
  <2>1. \A y \in S : ~(y < x)
    BY <1>1 DEF OpToRel
  <2>. QED BY <2>1
<1>. QED BY <1>2 DEF paging!Min

\* A set of pools has a newest.
LEMMA NewestPool ==
  ASSUME NEW S \in SUBSET paging!Id, S # {}
  PROVE  paging!Max(S) \in S /\ \A i \in S : i <= paging!Max(S)
<1>1. PICK n \in Nat : n = MaxPools
  BY PagesAssumption
<1>2. \A i \in S : i \in 1..n
  BY <1>1 DEF paging!Id
<1>3. PICK D : D = {n - i : i \in S}
  OBVIOUS
<1>4. D \in SUBSET Nat /\ D # {}
  BY <1>1, <1>2, <1>3
<1>5. PICK m \in D : \A d \in D : m <= d
  BY <1>4, LeastTime
<1>6. PICK x \in S : m = n - x
  BY <1>3
<1>7. \A y \in S : n - x <= n - y
  BY <1>3, <1>5, <1>6
<1>8. \A y \in S : x >= y
  BY <1>1, <1>2, <1>7
<1>9. paging!Max(S) \in S /\ \A y \in S : paging!Max(S) >= y
  BY <1>8 DEF paging!Max
<1>. QED BY <1>2, <1>9

\* A search begins: every row it asks for is due.
LEMMA StartSearchSafe ==
  ASSUME PagesSafe, NEW u \in PoolReader, NEW mode \in 1..3, paging!StartSearch(u, mode)
  PROVE  PagesSafe' /\ client'.seen = {}
<1>1. /\ pools \in [paging!Id -> PoolRow \cup {None}] /\ uploaded \in 0..MaxPools
      /\ now \in 1..(MaxTime + 1) /\ MaxTime \in Nat /\ now \in Nat
  BY PagesAssumption DEF PagesSafe, PagesTyped
<1>2. PICK due : due = paging!InRange(u, mode, now)
  OBVIOUS
<1>3. due \in SUBSET paging!Id
  BY <1>2 DEF paging!InRange, paging!Own, paging!Stored
<1>4. PICK c : c = [kind |-> "search", user |-> u, mode |-> mode, to |-> now, after |-> MaxTime + 1,
                    seen |-> {}, page |-> {}, due |-> due, end |-> FALSE]
  OBVIOUS
<1>5. c \in SearchOf
  BY <1>1, <1>3, <1>4 DEF SearchOf
<1>6. /\ c.kind = "search" /\ c.user = u /\ c.mode = mode /\ c.to = now /\ c.after = MaxTime + 1
      /\ c.seen = {} /\ c.due = due /\ ~c.end
  BY <1>4
<1>7. client' = c /\ UNCHANGED <<pools, uploaded, now>>
  BY <1>2, <1>4 DEF paging!StartSearch
<1>8. ASSUME NEW i \in due
      PROVE  i <= uploaded /\ Sought(pools[i], c) /\ pools[i].time <= c.after
  <2>1. i \in paging!Id /\ Sought(pools[i], c)
    BY <1>2, <1>3, <1>5, <1>6, SoughtInRange
  <2>2. pools[i] \in PoolRow
    BY <1>1, <2>1 DEF Sought
  <2>3. pools[i].time \in Nat /\ pools[i].time <= now
    BY <1>6, <2>1, <2>2 DEF Sought, PoolRow
  <2>4. i <= uploaded
    BY <2>1 DEF PagesSafe, PoolsUploaded, Sought
  <2>. QED BY <1>1, <1>6, <2>1, <2>3, <2>4
<1>9. PagesTyped' /\ PoolsUploaded'
  BY <1>5, <1>7 DEF PagesSafe, PagesTyped, PoolsUploaded
<1>10. SearchKnown'
  BY <1>6, <1>7, <1>8 DEF SearchKnown
<1>. QED BY <1>6, <1>7, <1>9, <1>10 DEF PagesSafe

\* A page is a part of the rows found; when it is short it is all of them.
LEMMA PageShort ==
  ASSUME NEW S \in SUBSET paging!Id, NEW T \in paging!Pages(S)
  PROVE  /\ T \in SUBSET S
         /\ Cardinality(T) < PoolPage => T = S
         /\ \A i \in T, j \in S \ T : pools[i].time >= pools[j].time
<1>1. /\ T \in SUBSET S
      /\ Cardinality(T) = (IF Cardinality(S) < PoolPage THEN Cardinality(S) ELSE PoolPage)
      /\ \A i \in T, j \in S \ T : pools[i].time >= pools[j].time
  BY SamePageCount DEF paging!Pages
<1>2. IsFiniteSet(S)
  <2>1. MaxPools \in Nat
    BY PagesAssumption
  <2>2. IsFiniteSet(paging!Id)
    BY <2>1, FS_Interval DEF paging!Id
  <2>. QED BY <2>2, FS_Subset
<1>3. ASSUME Cardinality(T) < PoolPage
      PROVE  T = S
  <2>1. PoolPage \in Nat /\ Cardinality(S) \in Nat
    BY <1>2, PagesAssumption, FS_CardinalityType
  <2>2. Cardinality(T) = Cardinality(S)
    BY <1>1, <1>3, <2>1
  <2>. QED BY <1>1, <1>2, <2>2, FS_Subset
<1>. QED BY <1>1, <1>3

\* The next page: it repeats no row, and what is due and not on it comes later.
LEMMA SearchPoolsSafe ==
  ASSUME PagesSafe, paging!SearchPools
  PROVE  PagesSafe' /\ client'.page \cap client.seen = {}
<1>1. PICK c \in SearchOf : c = client /\ ~c.end
  BY DEF PagesSafe, PagesTyped, paging!SearchPools, SearchOf, DetailOf, paging!NoClient
<1>2. PICK S : S = paging!Found(c)
  OBVIOUS
<1>3. PICK T \in paging!Pages(S) :
        client' = [c EXCEPT !.page = T, !.seen = @ \cup T, !.end = paging!Cardinality(T) < PoolPage,
                            !.after = IF T = {} THEN @ ELSE paging!Min({pools[i].time : i \in T})]
  BY <1>1, <1>2 DEF paging!SearchPools
<1>4. UNCHANGED <<pools, uploaded, now>>
  BY DEF paging!SearchPools
<1>5. /\ pools \in [paging!Id -> PoolRow \cup {None}]
      /\ c.after \in Nat /\ c.seen \in SUBSET paging!Id /\ c.due \in SUBSET paging!Id
      /\ c.kind = "search" /\ c.mode \in 1..3
  BY DEF PagesSafe, PagesTyped, SearchOf
<1>6. S \in SUBSET paging!Id /\ S \cap c.seen = {}
  BY <1>2 DEF paging!Found, paging!InRange, paging!Own, paging!Stored
<1>7. /\ T \in SUBSET S
      /\ Cardinality(T) < PoolPage => T = S
      /\ \A i \in T, j \in S \ T : pools[i].time >= pools[j].time
  BY <1>6, PageShort
<1>8. \A i \in S : pools[i] # None /\ pools[i] \in PoolRow /\ pools[i].time \in Nat
  BY <1>2, <1>5, <1>6 DEF paging!Found, paging!InRange, paging!Own, paging!Stored, PoolRow
<1>9. PICK after : after = IF T = {} THEN c.after ELSE paging!Min({pools[i].time : i \in T})
  OBVIOUS
<1>10. /\ after \in Nat
       /\ T # {} => \E i \in T : after = pools[i].time
  <2>1. PICK times : times = {pools[i].time : i \in T}
    OBVIOUS
  <2>2. times \in SUBSET Nat
    BY <1>7, <1>8, <2>1
  <2>3. CASE T = {}
    BY <1>5, <1>9, <2>3
  <2>4. CASE T # {}
    <3>1. times # {} /\ after = paging!Min(times)
      BY <1>9, <2>1, <2>4
    <3>2. after \in times
      BY <2>2, <3>1, LeastTime
    <3>. QED BY <2>1, <2>2, <3>2
  <2>. QED BY <2>3, <2>4
<1>11. PICK d : d = [c EXCEPT !.page = T, !.seen = @ \cup T, !.end = Cardinality(T) < PoolPage, !.after = after]
  OBVIOUS
<1>12. client' = d
  BY <1>3, <1>9, <1>11, SamePageCount
<1>13. /\ d.kind = "search" /\ d.user = c.user /\ d.mode = c.mode /\ d.to = c.to /\ d.due = c.due
       /\ d.page = T /\ d.seen = c.seen \cup T /\ d.after = after /\ (d.end <=> Cardinality(T) < PoolPage)
  BY <1>5, <1>11 DEF SearchOf
<1>14. d \in SearchOf
  <2>1. (Cardinality(T) < PoolPage) \in BOOLEAN
    <3>1. IsFiniteSet(paging!Id)
      BY PagesAssumption, FS_Interval DEF paging!Id
    <3>2. Cardinality(T) \in Nat /\ PoolPage \in Nat
      BY <1>6, <1>7, <3>1, PagesAssumption, FS_Subset, FS_CardinalityType
    <3>. QED BY <3>2
  <2>2. T \in SUBSET paging!Id /\ (c.seen \cup T) \in SUBSET paging!Id
    BY <1>5, <1>6, <1>7
  <2>. QED BY <1>10, <1>11, <2>1, <2>2 DEF SearchOf
<1>15. ASSUME NEW i \in c.due, pools[i] # None, i \notin c.seen
       PROVE  i \in S
  <2>1. Sought(pools[i], c) /\ (c.mode \notin {1, 2} => pools[i].time <= c.after)
    BY <1>1, <1>5, <1>15 DEF PagesSafe, SearchKnown
  <2>2. i \in paging!InRange(c.user, c.mode, c.to)
    BY <1>5, <2>1, SoughtInRange
  <2>. QED BY <1>2, <1>15, <2>1, <2>2 DEF paging!Found
<1>16. ASSUME NEW i \in c.due, pools[i] # None, i \notin d.seen
       PROVE  ~d.end /\ (d.mode \notin {1, 2} => pools[i].time <= d.after)
  <2>1. i \in S \ T /\ i \notin c.seen
    BY <1>13, <1>15, <1>16
  <2>2. ~d.end
    BY <1>7, <1>13, <2>1
  <2>3. CASE T = {}
    BY <1>1, <1>5, <1>9, <1>13, <1>16, <2>1, <2>2, <2>3 DEF PagesSafe, SearchKnown
  <2>4. CASE T # {}
    <3>1. PICK j \in T : after = pools[j].time
      BY <1>10, <2>4
    <3>2. pools[j].time >= pools[i].time
      BY <1>7, <2>1
    <3>3. pools[j].time \in Nat /\ pools[i].time \in Nat
      BY <1>7, <1>8, <2>1
    <3>. QED BY <1>13, <2>2, <3>1, <3>2, <3>3
  <2>. QED BY <2>3, <2>4
<1>17. \A i \in c.due : i <= uploaded /\ (pools[i] # None => Sought(pools[i], d))
  BY <1>1, <1>5, <1>13 DEF PagesSafe, SearchKnown, Sought
<1>18. PagesTyped' /\ PoolsUploaded'
  BY <1>4, <1>12, <1>14 DEF PagesSafe, PagesTyped, PoolsUploaded
<1>19. SearchKnown'
  BY <1>4, <1>12, <1>13, <1>16, <1>17 DEF SearchKnown
<1>20. client'.page \cap client.seen = {}
  BY <1>1, <1>6, <1>7, <1>12, <1>13
<1>. QED BY <1>18, <1>19, <1>20 DEF PagesSafe

\* Two multiples of a number are that number apart.
LEMMA MultiplesApart ==
  ASSUME NEW B \in Nat \ {0}, NEW a \in Nat, NEW b \in Nat, a < b, a % B = 0, b % B = 0
  PROVE  B <= b - a
<1>1. PICK p \in Int, q \in Int : a = B * p /\ b = B * q
  <2>1. \A x \in Nat : x % B = 0 => \E z \in Int : x = B * z
    <3>1. SUFFICES ASSUME NEW x \in Nat, x % B = 0 PROVE \E z \in Int : x = B * z
      OBVIOUS
    <3>2. x = B * (x \div B) + (x % B) /\ x \div B \in Int
      OBVIOUS
    <3>. QED BY <3>1, <3>2
  <2>. QED BY <2>1
<1>2. p < q
  <2>1. SUFFICES ASSUME q <= p PROVE FALSE
    BY <1>1
  <2>2. B * q <= B * p
    BY <1>1, <2>1
  <2>. QED BY <1>1, <2>2
<1>3. B * p + B <= B * q
  BY <1>1, <1>2
<1>. QED BY <1>1, <1>3

\* A pool that a page of details passes over is the last of a block.
LEMMA PassedLast ==
  ASSUME NEW c \in DetailOf, paging!Matches(c) # {},
         NEW i \in paging!Own(c.user), c.latest < i, i < paging!Max(paging!Matches(c)),
         pools[i].hit, i \notin paging!Matches(c)
  PROVE  i \in paging!After(c) /\ paging!Place(c, i) % Block = 0
<1>1. PICK hits : hits = {j \in paging!Read(c) : pools[j].hit}
  OBVIOUS
<1>2. paging!Matches(c) = {j \in hits : Cardinality({x \in hits : x <= j}) <= PoolPage}
  BY <1>1, SamePageCount DEF paging!Matches
<1>3. hits \in SUBSET paging!Id /\ paging!Matches(c) \in SUBSET paging!Id
  BY <1>1, <1>2 DEF paging!Read, paging!After, paging!Own, paging!Stored
<1>4. PICK m \in hits : m = paging!Max(paging!Matches(c)) /\ Cardinality({x \in hits : x <= m}) <= PoolPage
  BY <1>2, <1>3, NewestPool
<1>5. \A j \in paging!Id : j \in Nat
  BY DEF paging!Id
<1>6. i \in Nat /\ i \in paging!Id /\ m \in Nat /\ i < m
  BY <1>3, <1>4, <1>5 DEF paging!Own, paging!Stored
<1>7. i \in paging!After(c)
  BY <1>6 DEF paging!After, DetailOf
<1>8. i \notin paging!Read(c)
  <2>1. SUFFICES ASSUME i \in hits PROVE FALSE
    BY <1>1
  <2>2. IsFiniteSet(paging!Id)
    BY PagesAssumption, FS_Interval DEF paging!Id
  <2>3. PICK U, V : U = {x \in hits : x <= m} /\ V = {x \in hits : x <= i}
    OBVIOUS
  <2>4. V \subseteq U /\ U \subseteq paging!Id
    <3>1. \A x \in hits : x \in paging!Id /\ x \in Nat
      BY <1>3, <1>5
    <3>2. \A x \in Nat : x <= i => x <= m
      BY <1>6
    <3>. QED BY <2>3, <3>1, <3>2
  <2>5. IsFiniteSet(U) /\ IsFiniteSet(V)
    BY <2>2, <2>4, FS_Subset
  <2>6. Cardinality(V) <= Cardinality(U) /\ Cardinality(V) \in Nat /\ Cardinality(U) \in Nat
    BY <2>4, <2>5, FS_Subset, FS_CardinalityType
  <2>7. Cardinality(V) <= PoolPage
    BY <1>4, <2>3, <2>6, PagesAssumption
  <2>. QED BY <1>2, <2>1, <2>3, <2>7
<1>. QED BY <1>7, <1>8 DEF paging!Read

\* Two of them have a block between them.
LEMMA PassedApart ==
  ASSUME NEW c \in DetailOf, NEW i \in paging!After(c), NEW j \in paging!After(c), i < j,
         paging!Place(c, i) % Block = 0, paging!Place(c, j) % Block = 0
  PROVE  paging!Cardinality({k \in paging!Own(c.user) : i < k /\ k <= j}) >= Block
<1>1. PICK A, U, V, W : /\ A = paging!After(c) /\ U = {k \in A : k <= i} /\ V = {k \in A : k <= j}
                        /\ W = {k \in paging!Own(c.user) : i < k /\ k <= j}
  OBVIOUS
<1>2. /\ A = {k \in paging!Own(c.user) : k > c.latest} /\ paging!Own(c.user) \subseteq paging!Id
      /\ c.latest \in Nat
  BY <1>1 DEF paging!After, paging!Own, paging!Stored, DetailOf
<1>3. \A k \in paging!Own(c.user) : k \in Nat
  BY <1>2 DEF paging!Id
<1>4. V = U \cup W /\ U \cap W = {} /\ j \in W /\ V \subseteq paging!Id
  BY <1>1, <1>2, <1>3
<1>5. IsFiniteSet(U) /\ IsFiniteSet(W)
  <2>1. IsFiniteSet(paging!Id)
    BY PagesAssumption, FS_Interval DEF paging!Id
  <2>2. IsFiniteSet(V)
    BY <1>4, <2>1, FS_Subset
  <2>. QED BY <1>4, <2>2, FS_Subset
<1>6. Cardinality(V) = Cardinality(U) + Cardinality(W) /\ Cardinality(U) \in Nat /\ Cardinality(W) \in Nat
  <2>1. Cardinality(U \cup W) = Cardinality(U) + Cardinality(W) - Cardinality(U \cap W)
    BY <1>5, FS_Union
  <2>2. Cardinality(U \cap W) = 0
    BY <1>4, FS_EmptySet
  <2>3. Cardinality(U) \in Nat /\ Cardinality(W) \in Nat
    BY <1>5, FS_CardinalityType
  <2>. QED BY <1>4, <2>1, <2>2, <2>3
<1>7. Cardinality(W) # 0
  BY <1>4, <1>5, FS_EmptySet
<1>8. PICK a, b, d : a = Cardinality(U) /\ b = Cardinality(V) /\ d = Cardinality(W)
  OBVIOUS
<1>9. a = paging!Place(c, i) /\ b = paging!Place(c, j)
  BY <1>1, <1>8, SamePageCount DEF paging!Place
<1>10. a \in Nat /\ d \in Nat /\ b \in Nat /\ b = a + d /\ a < b
  BY <1>6, <1>7, <1>8
<1>11. a % Block = 0 /\ b % Block = 0 /\ Block \in Nat \ {0}
  BY <1>9, PagesAssumption
<1>12. Block <= b - a
  BY <1>10, <1>11, MultiplesApart
<1>13. d >= Block
  BY <1>10, <1>11, <1>12
<1>. QED BY <1>1, <1>8, <1>13, SamePageCount

\* A page of details starts behind the one before and passes over the last of blocks.
LEMMA DetailPoolsSafe ==
  ASSUME PagesSafe, paging!DetailPools
  PROVE  PagesSafe' /\ paging!DetailStep
<1>1. PICK c \in DetailOf : c = client
  BY DEF PagesSafe, PagesTyped, paging!DetailPools, SearchOf, paging!NoClient
<1>2. PICK M : M = paging!Matches(c)
  OBVIOUS
<1>3. /\ client' = IF M = {} \/ c.sinks THEN [c EXCEPT !.page = {}, !.end = TRUE]
                                        ELSE [c EXCEPT !.page = M, !.latest = paging!Max(M)]
      /\ UNCHANGED <<pools, uploaded, now>>
  BY <1>1, <1>2 DEF paging!DetailPools
<1>4. M \in SUBSET paging!Id /\ \A i \in M : i \in paging!Own(c.user) /\ c.latest < i /\ pools[i].hit
  <2>1. \A i \in M : i \in paging!Own(c.user) /\ i > c.latest /\ pools[i].hit
    BY <1>2 DEF paging!Matches, paging!Read, paging!After
  <2>2. \A i \in paging!Own(c.user) : i \in paging!Id /\ i \in Nat
    BY DEF paging!Own, paging!Stored, paging!Id
  <2>3. c.latest \in Nat
    BY DEF DetailOf
  <2>. QED BY <2>1, <2>2, <2>3
<1>5. CASE M = {} \/ c.sinks
  <2>1. client' = [c EXCEPT !.page = {}, !.end = TRUE]
    BY <1>3, <1>5
  <2>2. client' \in DetailOf /\ client'.kind = "detail" /\ client'.latest = c.latest
    BY <2>1 DEF DetailOf
  <2>3. PagesSafe'
    BY <1>3, <2>2 DEF PagesSafe, PagesTyped, PoolsUploaded, SearchKnown
  <2>. QED BY <1>1, <2>2, <2>3 DEF paging!DetailStep
<1>6. CASE ~(M = {} \/ c.sinks)
  <2>1. client' = [c EXCEPT !.page = M, !.latest = paging!Max(M)]
    BY <1>3, <1>6
  <2>2. paging!Max(M) \in M /\ paging!Max(M) \in Nat
    <3>1. paging!Max(M) \in M
      BY <1>4, <1>6, NewestPool
    <3>2. \A x \in paging!Id : x \in Nat
      BY DEF paging!Id
    <3>. QED BY <1>4, <3>1, <3>2
  <2>3. /\ client' \in DetailOf /\ client'.kind = "detail"
        /\ client'.latest = paging!Max(M) /\ client'.page = M
    BY <1>4, <2>1, <2>2 DEF DetailOf
  <2>4. PagesSafe'
    BY <1>3, <2>3 DEF PagesSafe, PagesTyped, PoolsUploaded, SearchKnown
  <2>5. PICK passed : passed = {i \in paging!Own(c.user) : /\ c.latest < i /\ i < paging!Max(M)
                                                           /\ pools[i].hit /\ i \notin M}
    OBVIOUS
  <2>6. ASSUME NEW i \in passed, NEW j \in passed, i < j
        PROVE  paging!Cardinality({k \in paging!Own(c.user) : i < k /\ k <= j}) >= Block
    <3>1. \A x \in passed : x \in paging!After(c) /\ paging!Place(c, x) % Block = 0
      BY <1>2, <1>6, <2>5, PassedLast
    <3>. QED BY <2>6, <3>1, PassedApart
  <2>7. \A i \in M : c.latest < i /\ pools[i].hit /\ paging!Graph(c.user, i)
    BY <1>4 DEF paging!Graph
  <2>. QED BY <1>1, <2>3, <2>4, <2>5, <2>6, <2>7 DEF paging!DetailStep
<1>. QED BY <1>5, <1>6

\* A search for details begins.
LEMMA StartDetailSafe ==
  ASSUME PagesSafe, NEW u \in PoolReader, NEW sinks \in BOOLEAN, paging!StartDetail(u, sinks)
  PROVE  PagesSafe' /\ client'.kind = "detail" /\ client'.latest = 0
<1>1. PICK c : c = [kind |-> "detail", user |-> u, sinks |-> sinks, latest |-> 0, page |-> {}, end |-> FALSE]
  OBVIOUS
<1>2. c \in DetailOf /\ c.kind = "detail" /\ c.latest = 0
  BY <1>1 DEF DetailOf
<1>3. client' = c /\ UNCHANGED <<pools, uploaded, now>>
  BY <1>1 DEF paging!StartDetail
<1>. QED BY <1>2, <1>3 DEF PagesSafe, PagesTyped, PoolsUploaded, SearchKnown

\* A finished search has shown what was due and is there.
LEMMA SearchFound ==
  ASSUME PagesSafe
  PROVE  paging!SearchFindsAll
<1>1. ASSUME client.kind = "search"
      PROVE  client.due \in SUBSET paging!Id
  BY <1>1 DEF PagesSafe, PagesTyped, SearchOf, DetailOf, paging!NoClient
<1>. QED BY <1>1 DEF PagesSafe, SearchKnown, paging!SearchFindsAll, paging!Stored

\* Every step of uploads, deletions and the two searches.
LEMMA PagesNext ==
  ASSUME PagesSafe, paging!Next
  PROVE  PagesSafe' /\ paging!SearchStep /\ paging!DetailStep
<1>1. ASSUME \/ \E a \in Agent, hit \in BOOLEAN, t \in {now - 1, now} : paging!Upload(a, hit, t)
             \/ \E i \in paging!Id : paging!Delete(i)
             \/ paging!Tick
      PROVE  PagesSafe' /\ paging!SearchStep /\ paging!DetailStep
  <2>1. client' = client
    BY <1>1 DEF paging!Upload, paging!Delete, paging!Tick
  <2>. QED BY <1>1, <2>1, PoolsChangeSafe DEF paging!SearchStep, paging!DetailStep
<1>2. ASSUME NEW u \in PoolReader, NEW mode \in 1..3, paging!StartSearch(u, mode)
      PROVE  PagesSafe' /\ paging!SearchStep /\ paging!DetailStep
  <2>1. client'.kind = "search"
    BY <1>2 DEF paging!StartSearch
  <2>. QED BY <1>2, <2>1, StartSearchSafe DEF paging!SearchStep, paging!DetailStep
<1>3. ASSUME NEW u \in PoolReader, NEW sinks \in BOOLEAN, paging!StartDetail(u, sinks)
      PROVE  PagesSafe' /\ paging!SearchStep /\ paging!DetailStep
  BY <1>3, StartDetailSafe DEF paging!SearchStep, paging!DetailStep
<1>4. ASSUME paging!SearchPools
      PROVE  PagesSafe' /\ paging!SearchStep /\ paging!DetailStep
  <2>1. client.kind = "search"
    BY <1>4 DEF paging!SearchPools
  <2>. QED BY <1>4, <2>1, SearchPoolsSafe DEF paging!SearchStep, paging!DetailStep
<1>5. ASSUME paging!DetailPools
      PROVE  PagesSafe' /\ paging!SearchStep /\ paging!DetailStep
  <2>1. client.kind = "detail"
    BY <1>5 DEF paging!DetailPools
  <2>. QED BY <1>5, <2>1, DetailPoolsSafe DEF paging!SearchStep
<1>. QED BY <1>1, <1>2, <1>3, <1>4, <1>5 DEF paging!Next

\* Whatever is uploaded and deleted between the pages, a search shows each pool that
\* was there at its start and still is, none twice, and a search for details passes over
\* the last of each block only (MethodPoolSearchProxy, MethodPoolDetailProxy).
THEOREM PagesAlwaysComplete == Spec => PagesComplete
<1> DEFINE Safe == part = "pools" => PagesSafe
<1>1. Init => Safe
  <2>1. SUFFICES ASSUME paging!Init PROVE PagesSafe
    BY DEF Init
  <2>. QED BY <2>1, PagesAssumption DEF paging!Init, PagesSafe, PagesTyped, PoolsUploaded, SearchKnown, paging!NoClient
<1>2. Safe /\ [Next]_vars => Safe'
  <2>1. PagesSafe /\ UNCHANGED poolVars => PagesSafe'
    BY DEF poolVars, PagesSafe, PagesTyped, PoolsUploaded, SearchKnown, Sought
  <2>. QED BY <2>1, PagesNext DEF Next, vars
<1>3. Safe /\ Safe' /\ [Next]_vars => [part = "pools" => paging!PagesStep]_vars
  <2>1. SUFFICES ASSUME Safe, Safe', Next, part = "pools"
        PROVE  paging!SearchFindsAll' /\ paging!SearchStep /\ paging!DetailStep
    BY DEF paging!PagesStep
  <2>2. PagesSafe /\ paging!Next
    BY <2>1 DEF Next
  <2>3. PagesSafe' => paging!SearchFindsAll'
    BY SearchFound, PTL
  <2>. QED BY <2>2, <2>3, PagesNext
<1>4. PagesComplete <=> [][part = "pools" => paging!PagesStep]_vars
  BY DEF PagesComplete
<1>. QED BY <1>1, <1>2, <1>3, <1>4, PTL DEF Spec

--------------------------------------------------------------------------------
(* The key of a weakness.  A value fills the holes of a request, and what the
   parsers find of it there depends on the holes alone.                       *)

\* Words of a request that carries a value, and its parameters.
Carried == [word: Word \cup Value, times: 0..2]
Parameters(S) == [name: Encoded, value: Seq(S)]

\* J is I with v in its holes, decoded or not, where names are told apart as in I.
Carries(J, I, v) ==
  /\ DOMAIN J = DOMAIN I
  /\ \A i \in DOMAIN I :
       /\ J[i] \in Parameters(Carried) /\ Len(J[i].value) = Len(I[i].value)
       /\ \A j \in 1..Len(I[i].value) :
            J[i].value[j].word = IF I[i].value[j].word = Hole THEN v ELSE I[i].value[j].word
  /\ \A i, j \in DOMAIN I : J[i].name = J[j].name <=> I[i].name = I[j].name

Decoded(J) == \A i \in DOMAIN J : \A j \in 1..Len(J[i].value) : J[i].value[j].times = 0

\* Parameters whose value is the hole, and ends in it after a "=".
LastOf(I, i) == position!LastValue(I, I[i].name)
Bare(I) == {i \in position!Firsts(I) : Len(LastOf(I, i)) = 1 /\ LastOf(I, i)[1].word = Hole}
Ending(I) == {i \in position!Firsts(I) : Len(LastOf(I, i)) > 1 /\ LastOf(I, i)[Len(LastOf(I, i))].word = Hole}

\* The last item of a name.
IsLast(I, i, k) == /\ k \in DOMAIN I /\ I[k].name = I[i].name
                   /\ \A j \in DOMAIN I : j > k => I[j].name # I[i].name

\* Among numbers up to n there is a greatest.
LEMMA GreatestOf ==
  ASSUME NEW n \in Nat, NEW S \in SUBSET (1..n), S # {}
  PROVE  \E m \in S : \A i \in S : i <= m
<1>1. PICK D : D = {n - i : i \in S}
  OBVIOUS
<1>2. D \in SUBSET Nat /\ D # {}
  <2>1. \A i \in S : i \in 1..n
    OBVIOUS
  <2>2. \A i \in 1..n : n - i \in Nat
    OBVIOUS
  <2>. QED BY <1>1, <2>1, <2>2
<1>3. PICK m \in D : \A d \in D : m <= d
  BY <1>2, LeastTime
<1>4. PICK i \in S : m = n - i
  BY <1>1, <1>3
<1>5. \A j \in S : j \in 1..n /\ n - j \in D
  BY <1>1, <1>2
<1>6. \A j \in S : j <= i
  BY <1>3, <1>4, <1>5
<1>. QED BY <1>6

\* Each name has a last item, and its value is what a QueryDict lists.
LEMMA LastItem ==
  ASSUME NEW n \in Nat, NEW I, DOMAIN I = 1..n, NEW i \in 1..n
  PROVE  /\ \E k \in 1..n : IsLast(I, i, k)
         /\ \A k : IsLast(I, i, k) => LastOf(I, i) = I[k].value
<1>1. PICK S : S = {j \in 1..n : I[j].name = I[i].name}
  OBVIOUS
<1>2. S \in SUBSET (1..n) /\ S # {}
  BY <1>1
<1>3. PICK m \in S : \A j \in S : j <= m
  BY <1>2, GreatestOf
<1>4. m \in 1..n /\ \A j \in 1..n : j \in Nat
  BY <1>2
<1>5. IsLast(I, i, m)
  BY <1>1, <1>3, <1>4 DEF IsLast
<1>6. \A k \in 1..n : /\ I[k].name = I[i].name
                      /\ \A j \in 1..n : j > k => I[j].name # I[i].name
                      => k = m
  BY <1>1, <1>3, <1>4
<1>7. \A k : IsLast(I, i, k) => k = m
  BY <1>6 DEF IsLast
<1>8. LastOf(I, i) = I[m].value
  <2>1. I[m].name = I[i].name /\ \A j \in 1..n : j > m => I[j].name # I[i].name
    BY <1>5 DEF IsLast
  <2>2. (CHOOSE k \in 1..n : I[k].name = I[i].name /\ \A j \in 1..n : j > k => I[j].name # I[i].name) = m
    BY <1>4, <1>6, <2>1
  <2>. QED BY <2>2 DEF LastOf, position!LastValue
<1>. QED BY <1>4, <1>5, <1>7, <1>8

\* What is carried is listed at the same places.
LEMMA CarriedPlaces ==
  ASSUME NEW n \in Nat, NEW I, DOMAIN I = 1..n, NEW J, NEW v, Carries(J, I, v)
  PROVE  /\ position!Firsts(J) = position!Firsts(I) /\ position!Firsts(I) \subseteq 1..n
         /\ \A i \in 1..n : \E k \in 1..n : LastOf(J, i) = J[k].value /\ LastOf(I, i) = I[k].value
<1>1. DOMAIN J = 1..n /\ \A i, j \in 1..n : J[i].name = J[j].name <=> I[i].name = I[j].name
  BY DEF Carries
<1>2. position!Firsts(J) = position!Firsts(I)
  <2>1. \A i \in 1..n : \A j \in 1..(i - 1) : j \in 1..n
    OBVIOUS
  <2>. QED BY <1>1, <2>1 DEF position!Firsts
<1>3. ASSUME NEW i \in 1..n
      PROVE  \E k \in 1..n : LastOf(J, i) = J[k].value /\ LastOf(I, i) = I[k].value
  <2>1. PICK k \in 1..n : IsLast(I, i, k)
    BY LastItem
  <2>2. IsLast(J, i, k)
    BY <1>1, <2>1 DEF IsLast
  <2>3. LastOf(J, i) = J[k].value
    <3>1. DOMAIN J = 1..n
      BY <1>1
    <3>2. \A q : IsLast(J, i, q) => LastOf(J, i) = J[q].value
      BY <3>1, LastItem
    <3>. QED BY <2>2, <3>2
  <2>4. LastOf(I, i) = I[k].value
    BY <2>1, LastItem
  <2>. QED BY <2>3, <2>4
<1>. QED BY <1>2, <1>3 DEF position!Firsts

\* Where a value is matched there is a hole, and each hole matches a decoded value.
LEMMA MatchesHoles ==
  ASSUME NEW v \in Value, NEW n \in Nat, NEW I \in [1..n -> Parameters(Encoded)], NEW J, Carries(J, I, v)
  PROVE  /\ position!MatchItem(J, position!Text(v)) \subseteq Bare(I)
         /\ position!MatchExtended(J, position!Text(v)) \subseteq Ending(I)
         /\ Decoded(J) => /\ position!MatchItem(J, position!Text(v)) = Bare(I)
                          /\ position!MatchExtended(J, position!Text(v)) = Ending(I)
<1>1. PICK x : x = position!Text(v)
  OBVIOUS
<1>2. x.word = v /\ x.times = 0 /\ v \notin Word
  BY <1>1, RequestsAssumption DEF position!Text
<1>3. PICK F : F = position!Firsts(I)
  OBVIOUS
<1>4. position!Firsts(J) = F /\ F \subseteq 1..n /\ DOMAIN J = 1..n
  <2>1. DOMAIN I = 1..n
    OBVIOUS
  <2>2. DOMAIN J = 1..n
    BY <2>1 DEF Carries
  <2>. QED BY <1>3, <2>1, <2>2, CarriedPlaces
<1>5. ASSUME NEW i \in F
      PROVE  /\ J[i].name # x
             /\ LastOf(J, i) = <<x>> => Len(LastOf(I, i)) = 1 /\ LastOf(I, i)[1].word = Hole
             /\ LET w == LastOf(J, i) IN Len(w) > 1 /\ w[Len(w)] = x =>
                  Len(LastOf(I, i)) > 1 /\ LastOf(I, i)[Len(LastOf(I, i))].word = Hole
             /\ Decoded(J) =>
                  /\ Len(LastOf(I, i)) = 1 /\ LastOf(I, i)[1].word = Hole => LastOf(J, i) = <<x>>
                  /\ Len(LastOf(I, i)) > 1 /\ LastOf(I, i)[Len(LastOf(I, i))].word = Hole =>
                       LET w == LastOf(J, i) IN Len(w) > 1 /\ w[Len(w)] = x
  <2>1. i \in 1..n /\ J[i] \in Parameters(Carried)
    BY <1>4 DEF Carries
  <2>2. J[i].name.word \in Word
    BY <2>1 DEF Parameters, Encoded
  <2>3. J[i].name # x
    BY <1>2, <2>2
  <2>4. PICK k \in 1..n : LastOf(J, i) = J[k].value /\ LastOf(I, i) = I[k].value
    BY <2>1, CarriedPlaces
  <2>5. PICK w, u : w = J[k].value /\ u = I[k].value
    OBVIOUS
  <2>6. w \in Seq(Carried) /\ u \in Seq(Encoded) /\ Len(w) = Len(u)
        /\ \A j \in 1..Len(u) : w[j].word = IF u[j].word = Hole THEN v ELSE u[j].word
    BY <2>5 DEF Carries, Parameters
  <2>7. PICK m \in Nat : m = Len(u)
    BY <2>6
  <2>8. \A j \in 1..m : w[j] \in Carried /\ u[j].word \in Word
    <3>1. \A j \in 1..m : w[j] \in Carried /\ u[j] \in Encoded
      BY <2>6, <2>7
    <3>. QED BY <3>1 DEF Encoded
  <2>9. \A j \in 1..m : w[j] = x => u[j].word = Hole
    BY <1>2, <2>6, <2>7, <2>8
  <2>10. Decoded(J) => \A j \in 1..m : w[j].times = 0
    BY <1>4, <2>5, <2>6, <2>7 DEF Decoded
  <2>11. Decoded(J) => \A j \in 1..m : u[j].word = Hole => w[j] = x
    BY <1>1, <2>6, <2>7, <2>8, <2>10 DEF Carried, position!Text
  <2>12. w = <<x>> <=> m = 1 /\ w[1] = x
    <3>1. w = <<x>> => Len(w) = 1 /\ w[1] = x
      OBVIOUS
    <3>2. ASSUME Len(w) = 1, w[1] = x PROVE w = <<x>>
      <4>1. x \in Carried
        BY <2>6, <2>7, <2>8, <3>2
      <4>2. <<x>> \in Seq(Carried) /\ Len(<<x>>) = 1 /\ <<x>>[1] = x
        BY <4>1
      <4>. QED BY <2>6, <3>2, <4>2
    <3>. QED BY <2>6, <2>7, <3>1, <3>2
  <2>13. /\ w = <<x>> => m = 1 /\ u[1].word = Hole
         /\ m > 1 /\ w[m] = x => u[m].word = Hole
         /\ Decoded(J) => /\ m = 1 /\ u[1].word = Hole => w = <<x>>
                          /\ m > 1 /\ u[m].word = Hole => w[m] = x
    <3>1. m > 1 => m \in 1..m
      BY <2>7
    <3>2. m = 1 => 1 \in 1..m
      BY <2>7
    <3>. QED BY <2>9, <2>11, <2>12, <3>1, <3>2
  <2>. QED BY <2>3, <2>4, <2>5, <2>6, <2>7, <2>13
<1>6. /\ position!MatchItem(J, x) = {i \in F : x = J[i].name \/ LastOf(J, i) = <<x>>}
      /\ position!MatchExtended(J, x) =
           {i \in F : LET w == LastOf(J, i) IN Len(w) > 1 /\ x \in {J[i].name, w[Len(w)]}}
  BY <1>4 DEF position!MatchItem, position!MatchExtended, LastOf
<1>7. /\ Bare(I) = {i \in F : Len(LastOf(I, i)) = 1 /\ LastOf(I, i)[1].word = Hole}
      /\ Ending(I) = {i \in F : Len(LastOf(I, i)) > 1 /\ LastOf(I, i)[Len(LastOf(I, i))].word = Hole}
  BY <1>3 DEF Bare, Ending
<1>8. position!MatchItem(J, x) \subseteq Bare(I) /\ (Decoded(J) => Bare(I) \subseteq position!MatchItem(J, x))
  BY <1>5, <1>6, <1>7
<1>9. /\ position!MatchExtended(J, x) \subseteq Ending(I)
      /\ Decoded(J) => Ending(I) \subseteq position!MatchExtended(J, x)
  BY <1>5, <1>6, <1>7
<1>. QED BY <1>1, <1>8, <1>9

\* Names are those of I, each still encoded in one way, and nothing is encoded more often.
NamedAs(J, I) == NamesAlike(J) /\ \A i \in DOMAIN I : J[i].name.word = I[i].name.word
Within(J, d) == \A i \in DOMAIN J : J[i].name.times <= d /\ \A j \in 1..Len(J[i].value) : J[i].value[j].times <= d

\* Decoding takes one encoding off a word that has one.
LEMMA UnquotedWord ==
  /\ \A x \in Encoded : position!Unquote(x) \in Encoded
  /\ \A x \in Carried : /\ position!Unquote(x) \in Carried /\ position!Unquote(x).word = x.word
                        /\ \A d \in 0..1 : x.times <= d + 1 => position!Unquote(x).times <= d
<1>1. \A t \in 0..2 : LET s == IF t = 0 THEN 0 ELSE t - 1 IN s \in 0..2 /\ \A d \in 0..1 : t <= d + 1 => s <= d
  OBVIOUS
<1>. QED BY <1>1 DEF Encoded, Carried, position!Unquote

\* A filled request stays one when it is decoded.
LEMMA UnquotedItems ==
  ASSUME NEW v \in Value, NEW n \in Nat, NEW I \in [1..n -> Parameters(Encoded)], NamesAlike(I),
         NEW J, Carries(J, I, v), NamedAs(J, I), NEW d \in 0..1, Within(J, d + 1)
  PROVE  LET K == position!UnquoteItems(J) IN Carries(K, I, v) /\ NamedAs(K, I) /\ Within(K, d)
<1>1. PICK K : K = position!UnquoteItems(J)
  OBVIOUS
<1>2. DOMAIN I = 1..n /\ DOMAIN J = 1..n
  <2>1. DOMAIN I = 1..n
    OBVIOUS
  <2>. QED BY <2>1 DEF Carries
<1>3. DOMAIN K = 1..n
  BY <1>1, <1>2 DEF position!UnquoteItems
<1>4. ASSUME NEW i \in 1..n
      PROVE  /\ K[i] \in Parameters(Carried) /\ Len(K[i].value) = Len(I[i].value)
             /\ K[i].name = position!Unquote(J[i].name) /\ K[i].name.word = I[i].name.word /\ K[i].name.times <= d
             /\ \A j \in 1..Len(I[i].value) :
                  /\ K[i].value[j].word = IF I[i].value[j].word = Hole THEN v ELSE I[i].value[j].word
                  /\ K[i].value[j].times <= d
  <2>1. J[i] \in Parameters(Carried) /\ I[i] \in Parameters(Encoded)
    BY <1>2 DEF Carries
  <2>2. PICK w, m : w = J[i].value /\ m = Len(I[i].value)
    OBVIOUS
  <2>3. w \in Seq(Carried) /\ Len(w) = m /\ m \in Nat /\ DOMAIN w = 1..m
    <3>1. Len(J[i].value) = Len(I[i].value)
      BY <1>2 DEF Carries
    <3>2. w \in Seq(Carried)
      BY <2>1, <2>2 DEF Parameters
    <3>3. m = Len(w)
      BY <2>2, <3>1
    <3>. QED BY <3>2, <3>3
  <2>4. K[i] = [name |-> position!Unquote(J[i].name), value |-> [j \in 1..m |-> position!Unquote(w[j])]]
    <3>1. K[i] = [name |-> position!Unquote(J[i].name),
                  value |-> [j \in DOMAIN J[i].value |-> position!Unquote(J[i].value[j])]]
      <4>1. \A q \in DOMAIN J : K[q] = [name |-> position!Unquote(J[q].name),
                                       value |-> [j \in DOMAIN J[q].value |-> position!Unquote(J[q].value[j])]]
        BY <1>1, Zenon DEF position!UnquoteItems
      <4>. QED BY <1>2, <4>1
    <3>. QED BY <2>2, <2>3, <3>1
  <2>5. \A j \in 1..m : /\ w[j] \in Carried /\ w[j].times <= d + 1
                        /\ w[j].word = IF I[i].value[j].word = Hole THEN v ELSE I[i].value[j].word
    BY <1>2, <2>2, <2>3 DEF Carries, Within
  <2>6. \A j \in 1..m : /\ position!Unquote(w[j]) \in Carried /\ position!Unquote(w[j]).word = w[j].word
                        /\ position!Unquote(w[j]).times <= d
    BY <2>5, UnquotedWord
  <2>7. PICK u : u = [j \in 1..m |-> position!Unquote(w[j])]
    OBVIOUS
  <2>8. u \in Seq(Carried) /\ Len(u) = m
    BY <2>3, <2>6, <2>7
  <2>9. J[i].name \in Encoded /\ J[i].name \in Carried /\ J[i].name.times <= d + 1 /\ J[i].name.word = I[i].name.word
    BY <1>2, <2>1 DEF Parameters, Encoded, Carried, Within, NamedAs
  <2>10. /\ position!Unquote(J[i].name) \in Encoded /\ position!Unquote(J[i].name).word = I[i].name.word
         /\ position!Unquote(J[i].name).times <= d
    BY <2>9, UnquotedWord
  <2>11. K[i] \in Parameters(Carried)
    BY <2>4, <2>7, <2>8, <2>10 DEF Parameters
  <2>. QED BY <2>2, <2>4, <2>5, <2>6, <2>7, <2>8, <2>10, <2>11
<1>5. NamesAlike(K) /\ \A i, j \in 1..n : K[i].name = K[j].name <=> I[i].name = I[j].name
  <2>1. \A i, j \in 1..n : I[i].name.word = I[j].name.word => J[i].name = J[j].name
    BY <1>2 DEF NamedAs, NamesAlike
  <2>2. \A i, j \in 1..n : I[i].name.word = I[j].name.word => K[i].name = K[j].name
    BY <1>4, <2>1
  <2>3. \A i, j \in 1..n : I[i].name.word = I[j].name.word => I[i].name = I[j].name
    BY <1>2 DEF NamesAlike
  <2>. QED BY <1>3, <1>4, <2>2, <2>3 DEF NamesAlike
<1>6. Carries(K, I, v)
  BY <1>2, <1>3, <1>4, <1>5 DEF Carries
<1>7. NamedAs(K, I)
  BY <1>2, <1>4, <1>5 DEF NamedAs
<1>8. Within(K, d)
  BY <1>3, <1>4 DEF Within
<1>. QED BY <1>1, <1>6, <1>7, <1>8

\* A request that a client fills carries the value, encoded twice at most.
LEMMA FilledItems ==
  ASSUME NEW v \in Value, NEW n \in Nat, NEW I \in [1..n -> Parameters(Encoded)], NamesAlike(I)
  PROVE  LET J == position!FillItems(I, v) IN Carries(J, I, v) /\ NamedAs(J, I) /\ Within(J, 2)
<1>1. PICK J : J = position!FillItems(I, v)
  OBVIOUS
<1>2. DOMAIN I = 1..n /\ DOMAIN J = 1..n
  BY <1>1 DEF position!FillItems
<1>3. ASSUME NEW i \in 1..n
      PROVE  /\ J[i] \in Parameters(Carried) /\ Len(J[i].value) = Len(I[i].value)
             /\ J[i].name = I[i].name /\ J[i].name.times <= 2
             /\ \A j \in 1..Len(I[i].value) :
                  /\ J[i].value[j].word = IF I[i].value[j].word = Hole THEN v ELSE I[i].value[j].word
                  /\ J[i].value[j].times <= 2
  <2>1. I[i] \in Parameters(Encoded)
    OBVIOUS
  <2>2. PICK w, m : w = I[i].value /\ m = Len(w)
    OBVIOUS
  <2>3. w \in Seq(Encoded) /\ m \in Nat /\ DOMAIN w = 1..m
    BY <2>1, <2>2 DEF Parameters
  <2>4. PICK u : u = [j \in 1..m |-> position!FillText(w[j], v)]
    OBVIOUS
  <2>5. J[i] = [name |-> I[i].name, value |-> u]
    BY <1>1, <1>2, <2>2, <2>3, <2>4 DEF position!FillItems
  <2>6. \A x \in Encoded : /\ position!FillText(x, v) \in Carried /\ position!FillText(x, v).times <= 2
                           /\ position!FillText(x, v).word = IF x.word = Hole THEN v ELSE x.word
    BY DEF Encoded, Carried, position!FillText
  <2>7. \A j \in 1..m : w[j] \in Encoded
    BY <2>2, <2>3
  <2>8. \A j \in 1..m : /\ u[j] \in Carried /\ u[j].times <= 2
                        /\ u[j].word = IF w[j].word = Hole THEN v ELSE w[j].word
    BY <2>4, <2>6, <2>7
  <2>9. u \in Seq(Carried) /\ Len(u) = m
    BY <2>3, <2>4, <2>8
  <2>10. I[i].name \in Encoded /\ I[i].name.times <= 2
    BY <2>1 DEF Parameters, Encoded
  <2>. QED BY <2>2, <2>5, <2>8, <2>9, <2>10 DEF Parameters
<1>4. Carries(J, I, v)
  BY <1>2, <1>3 DEF Carries
<1>5. NamedAs(J, I)
  <2>1. \A i \in 1..n : J[i].name = I[i].name
    BY <1>3
  <2>2. NamesAlike(J)
    BY <1>2, <2>1 DEF NamesAlike
  <2>. QED BY <1>2, <2>1, <2>2 DEF NamedAs
<1>6. Within(J, 2)
  BY <1>2, <1>3 DEF Within
<1>. QED BY <1>1, <1>4, <1>5, <1>6

\* Where the parameter with the hole stands, whatever fills it.
ParamOf(I) ==
  IF Ending(I) # {} THEN position!Named(position!Text(I[position!FirstOf(Ending(I))].name.word))
  ELSE IF Bare(I) # {} THEN position!Named(position!Text(I[position!FirstOf(Bare(I))].name.word))
  ELSE position!Nowhere

\* The first of some numbers is one of them.
LEMMA FirstIs ==
  ASSUME NEW S \in SUBSET Nat, S # {}
  PROVE  position!FirstOf(S) \in S /\ \A i \in S : position!FirstOf(S) <= i
<1>1. PICK m \in S : \A i \in S : m <= i
  BY LeastTime
<1>. QED BY <1>1 DEF position!FirstOf

\* The parameter that is found of a value does not depend on the value.
LEMMA ParamFound ==
  ASSUME NEW v \in Value, NEW n \in Nat, NEW I \in [1..n -> Parameters(Encoded)], NamesAlike(I)
  PROVE  position!ParseParams(position!FillItems(I, v), position!Text(v)) = ParamOf(I)
<1>1. PICK J, once, twice, x : /\ J = position!FillItems(I, v) /\ once = position!UnquoteItems(J)
                               /\ twice = position!UnquoteItems(once) /\ x = position!Text(v)
  OBVIOUS
<1>2. Carries(J, I, v) /\ NamedAs(J, I) /\ Within(J, 2)
  BY <1>1, FilledItems
<1>3. Carries(once, I, v) /\ NamedAs(once, I) /\ Within(once, 1)
  <2>1. 1 \in 0..1 /\ 1 + 1 = 2
    OBVIOUS
  <2>. QED BY <1>1, <1>2, <2>1, UnquotedItems
<1>4. Carries(twice, I, v) /\ NamedAs(twice, I) /\ Within(twice, 0)
  <2>1. 0 \in 0..1 /\ 0 + 1 = 1
    OBVIOUS
  <2>. QED BY <1>1, <1>3, <2>1, UnquotedItems
<1>5. DOMAIN I = 1..n /\ DOMAIN twice = 1..n
  <2>1. DOMAIN I = 1..n
    OBVIOUS
  <2>. QED BY <1>4, <2>1 DEF Carries
<1>6. \A i \in 1..n : twice[i] \in Parameters(Carried) /\ twice[i].name.word = I[i].name.word
  BY <1>4, <1>5 DEF Carries, NamedAs
<1>7. \A y \in Encoded : y.times <= 0 => y = position!Text(y.word)
  <2>1. \A t \in 0..2 : t <= 0 => t = 0
    OBVIOUS
  <2>. QED BY <2>1 DEF Encoded, position!Text
<1>8. \A i \in 1..n : twice[i].name = position!Text(I[i].name.word)
  <2>1. \A i \in 1..n : twice[i].name \in Encoded /\ twice[i].name.times <= 0
    BY <1>4, <1>5, <1>6 DEF Parameters, Within
  <2>. QED BY <1>6, <1>7, <2>1
<1>9. Decoded(twice)
  <2>1. SUFFICES ASSUME NEW i \in 1..n, NEW j \in 1..Len(twice[i].value) PROVE twice[i].value[j].times = 0
    BY <1>5 DEF Decoded
  <2>2. twice[i].value \in Seq(Carried)
    BY <1>6 DEF Parameters
  <2>3. twice[i].value[j] \in Carried
    BY <2>2
  <2>4. twice[i].value[j].times \in 0..2
    BY <2>3 DEF Carried
  <2>5. twice[i].value[j].times <= 0
    BY <1>4, <1>5 DEF Within
  <2>. QED BY <2>4, <2>5
<1>10. PICK A, B, C, D : /\ A = position!MatchExtended(twice, x) /\ B = position!MatchItem(twice, x)
                         /\ C = position!MatchExtended(once, x) /\ D = position!MatchItem(once, x)
  OBVIOUS
<1>11. A = Ending(I) /\ B = Bare(I) /\ C \subseteq A /\ D \subseteq B
  BY <1>1, <1>3, <1>4, <1>9, <1>10, MatchesHoles
<1>12. A \subseteq 1..n /\ B \subseteq 1..n /\ A \in SUBSET Nat /\ B \in SUBSET Nat
  <2>1. A \subseteq 1..n /\ B \subseteq 1..n
    BY <1>5, <1>11 DEF Ending, Bare, position!Firsts
  <2>. QED BY <2>1
<1>13. PICK Ms, matched : Ms = <<A, B, C, D>> /\ matched = {k \in DOMAIN Ms : Ms[k] # {}}
  OBVIOUS
<1>14. position!ParseParams(J, x) =
         IF matched = {} THEN position!Nowhere
         ELSE position!Named((IF position!FirstOf(matched) <= 2 THEN twice ELSE once)
                               [position!FirstOf(Ms[position!FirstOf(matched)])].name)
  BY <1>1, <1>10, <1>13 DEF position!ParseParams
<1>15. DOMAIN Ms = 1..4 /\ Ms[1] = A /\ Ms[2] = B /\ Ms[3] = C /\ Ms[4] = D
  BY <1>13
<1>16. matched \in SUBSET Nat /\ matched \subseteq 1..4
  BY <1>13, <1>15
<1>17. CASE A # {}
  <2>1. 1 \in matched
    BY <1>13, <1>15, <1>17
  <2>2. position!FirstOf(matched) \in 1..4 /\ position!FirstOf(matched) <= 1
    BY <1>16, <2>1, FirstIs
  <2>3. position!FirstOf(matched) = 1
    BY <2>2
  <2>4. position!FirstOf(A) \in 1..n
    BY <1>12, <1>17, FirstIs
  <2>5. position!ParseParams(J, x) = position!Named(twice[position!FirstOf(A)].name)
    BY <1>14, <1>15, <2>1, <2>3
  <2>. QED BY <1>1, <1>8, <1>11, <1>17, <2>4, <2>5 DEF ParamOf
<1>18. CASE A = {} /\ B # {}
  <2>1. 2 \in matched /\ 1 \notin matched
    BY <1>13, <1>15, <1>18
  <2>2. position!FirstOf(matched) \in matched /\ position!FirstOf(matched) \in 1..4 /\ position!FirstOf(matched) <= 2
    BY <1>16, <2>1, FirstIs
  <2>3. position!FirstOf(matched) = 2
    BY <2>1, <2>2
  <2>4. position!FirstOf(B) \in 1..n
    BY <1>12, <1>18, FirstIs
  <2>5. position!ParseParams(J, x) = position!Named(twice[position!FirstOf(B)].name)
    BY <1>14, <1>15, <2>1, <2>3
  <2>. QED BY <1>1, <1>8, <1>11, <1>18, <2>4, <2>5 DEF ParamOf
<1>19. CASE A = {} /\ B = {}
  <2>1. \A k \in 1..4 : Ms[k] = {}
    BY <1>11, <1>15, <1>19
  <2>2. matched = {}
    BY <1>13, <1>15, <2>1
  <2>. QED BY <1>1, <1>11, <1>14, <1>19, <2>2 DEF ParamOf
<1>. QED BY <1>17, <1>18, <1>19

\* A query that holds the value in a parameter that is read has it found.
LEMMA HeldFound ==
  ASSUME NEW n \in Nat, NEW I \in [1..n -> Parameters(Encoded)], \A i \in 1..n : I[i].value # <<>>,
         position!Holds(I)
  PROVE  ParamOf(I) # position!Nowhere
<1>1. DOMAIN I = 1..n
  OBVIOUS
<1>2. PICK i \in 1..n : LastOf(I, i)[Len(LastOf(I, i))].word = Hole
  BY <1>1 DEF position!Holds, LastOf
<1>3. PICK S : S = {j \in 1..n : I[j].name = I[i].name}
  OBVIOUS
<1>4. S \in SUBSET Nat /\ S # {}
  BY <1>3
<1>5. PICK f \in S : \A j \in S : f <= j
  BY <1>4, LeastTime
<1>6. f \in 1..n /\ I[f].name = I[i].name /\ \A j \in 1..(f - 1) : I[j].name # I[f].name
  <2>1. f \in 1..n /\ I[f].name = I[i].name
    BY <1>3, <1>5
  <2>2. \A j \in 1..(f - 1) : j \in 1..n /\ ~(f <= j)
    BY <2>1
  <2>. QED BY <1>3, <1>5, <2>1, <2>2
<1>7. f \in position!Firsts(I)
  BY <1>1, <1>6 DEF position!Firsts
<1>8. PICK w : w = LastOf(I, f)
  OBVIOUS
<1>9. w = LastOf(I, i) /\ w[Len(w)].word = Hole
  BY <1>2, <1>6, <1>8 DEF LastOf
<1>10. w \in Seq(Encoded) /\ w # <<>>
  <2>1. PICK k \in 1..n : IsLast(I, f, k)
    BY <1>1, <1>6, LastItem
  <2>2. w = I[k].value
    <3>1. f \in 1..n
      BY <1>6
    <3>2. \A q : IsLast(I, f, q) => LastOf(I, f) = I[q].value
      BY <1>1, <3>1, LastItem
    <3>. QED BY <1>8, <2>1, <3>2
  <2>. QED BY <2>2 DEF Parameters
<1>11. Len(w) \in Nat /\ Len(w) # 0
  BY <1>10
<1>12. f \in Ending(I) \/ f \in Bare(I)
  <2>1. Len(w) > 1 \/ Len(w) = 1
    <3>1. \A m \in Nat : m # 0 => m > 1 \/ m = 1
      OBVIOUS
    <3>. QED BY <1>11, <3>1
  <2>. QED BY <1>7, <1>8, <1>9, <2>1 DEF Ending, Bare
<1>13. \A s \in SUBSET (1..n) : s # {} => position!FirstOf(s) \in 1..n
  <2>1. \A s \in SUBSET (1..n) : s \in SUBSET Nat
    OBVIOUS
  <2>. QED BY <2>1, FirstIs
<1>14. Ending(I) \in SUBSET (1..n) /\ Bare(I) \in SUBSET (1..n)
  BY <1>1 DEF Ending, Bare, position!Firsts
<1>15. \A k \in 1..n : position!Named(position!Text(I[k].name.word)) # position!Nowhere
  <2>1. \A k \in 1..n : I[k].name.word \in Word
    BY DEF Parameters, Encoded
  <2>2. \A k \in 1..n : position!Text(I[k].name.word) \in Encoded
    BY <2>1 DEF position!Text, Encoded
  <2>3. \A k \in 1..n : position!Text(I[k].name.word) # NoName
    BY <2>2, RequestsAssumption
  <2>. QED BY <2>3 DEF position!Named, position!Nowhere
<1>. QED BY <1>12, <1>13, <1>14, <1>15 DEF ParamOf

\* Items whose value is the hole, and the position that a part of a request gives.
HolesOf(I) == {i \in DOMAIN I : Len(I[i].value) = 1 /\ I[i].value[1].word = Hole}
Gaps(path) == {i \in DOMAIN path : path[i].word = Hole}
ItemOf(I) == IF HolesOf(I) = {} THEN position!Nowhere ELSE position!Named(I[position!FirstOf(HolesOf(I))].name)
BodyOf(b) ==
  IF b.kind = "form" THEN ParamOf(b.items)
  ELSE IF HolesOf(b.items) = {} THEN position!Nowhere
  ELSE IF b.kind = "object" THEN position!Named(position!Text(b.items[position!FirstOf(HolesOf(b.items))].name.word))
  ELSE IF b.kind = "list" THEN position!Indexed(position!FirstOf(HolesOf(b.items)))
  ELSE position!Named(Whole)
PlaceIn(l, t) ==
  CASE l = "GET" -> ParamOf(t.query)
    [] l = "POST" -> BodyOf(t.body)
    [] l = "HEADER" -> ItemOf(t.header)
    [] l = "COOKIE" -> ItemOf(t.cookie)
    [] l = "PATH" -> IF Gaps(t.path) = {} THEN position!Nowhere ELSE position!Indexed(position!FirstOf(Gaps(t.path)))

\* A sequence is a function.
LEMMA SequenceIs ==
  ASSUME NEW S, NEW s \in Seq(S)
  PROVE  \E n \in Nat : DOMAIN s = 1..n /\ s \in [1..n -> S]
<1>1. PICK n \in Nat : n = Len(s) /\ DOMAIN s = 1..n
  OBVIOUS
<1>2. \A i \in 1..n : s[i] \in S
  BY <1>1
<1>. QED BY <1>1, <1>2

\* The parameters of a request are items with a value.
LEMMA ItemsAre ==
  ASSUME NEW I \in Items
  PROVE  \E n \in Nat : /\ I \in [1..n -> Parameters(Encoded)] /\ DOMAIN I = 1..n
                        /\ \A i \in 1..n : I[i].value # <<>>
<1>1. PICK S : S = [name: Encoded, value: Seq(Encoded) \ {<<>>}] /\ I \in Seq(S)
  BY DEF Items
<1>2. PICK n \in Nat : DOMAIN I = 1..n /\ I \in [1..n -> S]
  BY <1>1, SequenceIs
<1>3. \A i \in 1..n : I[i] \in Parameters(Encoded) /\ I[i].value # <<>>
  <2>1. \A i \in 1..n : I[i] \in [name: Encoded, value: Seq(Encoded) \ {<<>>}]
    BY <1>1, <1>2
  <2>2. \A r \in [name: Encoded, value: Seq(Encoded) \ {<<>>}] : r \in Parameters(Encoded) /\ r.value # <<>>
    BY DEF Parameters
  <2>. QED BY <2>1, <2>2
<1>. QED BY <1>2, <1>3

\* A filled word is the value exactly where the hole is not encoded.
LEMMA FilledWord ==
  ASSUME NEW v \in Value, NEW x \in Encoded, v \notin Special \/ x.times = 0
  PROVE  position!FillText(x, v) = position!Text(v) <=> x.word = Hole
<1>1. x.word \in Word /\ v # x.word
  BY RequestsAssumption DEF Encoded
<1>2. x.word # Hole => position!FillText(x, v).word # position!Text(v).word
  BY <1>1 DEF position!FillText, position!Text
<1>3. x.word = Hole => position!FillText(x, v) = position!Text(v)
  BY DEF position!FillText, position!Text
<1>. QED BY <1>2, <1>3

\* Items match such a value where they are the hole.
LEMMA HoleMatched ==
  ASSUME NEW v \in Value, NEW n \in Nat, NEW I \in [1..n -> Parameters(Encoded)],
         v \notin Special \/ \A i \in 1..n : \A j \in 1..Len(I[i].value) : I[i].value[j].times = 0
  PROVE  LET J == position!FillItems(I, v) IN
           /\ DOMAIN J = 1..n
           /\ \A i \in 1..n : /\ J[i].name = I[i].name /\ J[i].name # position!Text(v)
                              /\ J[i].value = <<position!Text(v)>> <=> i \in HolesOf(I)
<1>1. PICK J, x : J = position!FillItems(I, v) /\ x = position!Text(v)
  OBVIOUS
<1>2. DOMAIN I = 1..n /\ DOMAIN J = 1..n
  BY <1>1 DEF position!FillItems
<1>3. ASSUME NEW i \in 1..n
      PROVE  J[i].name = I[i].name /\ J[i].name # x /\ (J[i].value = <<x>> <=> i \in HolesOf(I))
  <2>1. I[i] \in Parameters(Encoded)
    OBVIOUS
  <2>2. PICK w, m : w = I[i].value /\ m = Len(w)
    OBVIOUS
  <2>3. w \in Seq(Encoded) /\ m \in Nat /\ DOMAIN w = 1..m
    BY <2>1, <2>2 DEF Parameters
  <2>4. PICK u : u = [j \in 1..m |-> position!FillText(w[j], v)]
    OBVIOUS
  <2>5. J[i] = [name |-> I[i].name, value |-> u]
    BY <1>1, <1>2, <2>2, <2>3, <2>4 DEF position!FillItems
  <2>6. \A j \in 1..m : w[j] \in Encoded /\ (v \notin Special \/ w[j].times = 0)
    BY <2>2, <2>3
  <2>7. \A j \in 1..m : u[j] = x <=> w[j].word = Hole
    BY <1>1, <2>4, <2>6, FilledWord
  <2>8. u = <<x>> <=> m = 1 /\ u[1] = x
    <3>1. u = <<x>> => m = 1 /\ u[1] = x
      <4>1. u = <<x>> => DOMAIN u = 1..1 /\ u[1] = x
        OBVIOUS
      <4>2. DOMAIN u = 1..m
        BY <2>4
      <4>3. 1..m = 1..1 => m = 1
        BY <2>3
      <4>. QED BY <4>1, <4>2, <4>3
    <3>2. ASSUME m = 1, u[1] = x PROVE u = <<x>>
      <4>1. u = [j \in 1..1 |-> x]
        BY <2>4, <3>2
      <4>2. <<x>> = [j \in 1..1 |-> x]
        OBVIOUS
      <4>. QED BY <4>1, <4>2
    <3>. QED BY <3>1, <3>2
  <2>9. u = <<x>> <=> m = 1 /\ w[1].word = Hole
    <3>1. m = 1 => 1 \in 1..m
      BY <2>3
    <3>. QED BY <2>7, <2>8, <3>1
  <2>10. i \in HolesOf(I) <=> m = 1 /\ w[1].word = Hole
    BY <1>2, <2>2 DEF HolesOf
  <2>11. I[i].name # x
    <3>1. I[i].name.word \in Word
      BY <2>1 DEF Parameters, Encoded
    <3>2. x.word \notin Word
      BY <1>1, RequestsAssumption DEF position!Text
    <3>. QED BY <3>1, <3>2
  <2>. QED BY <2>5, <2>9, <2>10, <2>11
<1>. QED BY <1>1, <1>2, <1>3

\* JSON carries its words as they are.
LEMMA PlainItems ==
  ASSUME NEW n \in Nat, NEW I \in [1..n -> Parameters(Encoded)]
  PROVE  LET P == position!Plain(I) IN
           /\ P \in [1..n -> Parameters(Encoded)] /\ DOMAIN P = 1..n /\ HolesOf(P) = HolesOf(I)
           /\ \A i \in 1..n : /\ P[i].name = position!Text(I[i].name.word)
                              /\ \A j \in 1..Len(P[i].value) : P[i].value[j].times = 0
<1>1. PICK P : P = position!Plain(I)
  OBVIOUS
<1>2. DOMAIN I = 1..n /\ DOMAIN P = 1..n
  BY <1>1 DEF position!Plain
<1>3. \A x \in Encoded : /\ position!Text(x.word) \in Encoded
                         /\ position!Text(x.word).word = x.word /\ position!Text(x.word).times = 0
  BY DEF Encoded, position!Text
<1>4. ASSUME NEW i \in 1..n
      PROVE  /\ P[i] \in Parameters(Encoded) /\ P[i].name = position!Text(I[i].name.word)
             /\ Len(P[i].value) = Len(I[i].value)
             /\ \A j \in 1..Len(I[i].value) : P[i].value[j].word = I[i].value[j].word /\ P[i].value[j].times = 0
  <2>1. I[i] \in Parameters(Encoded)
    OBVIOUS
  <2>2. PICK w, m : w = I[i].value /\ m = Len(w)
    OBVIOUS
  <2>3. w \in Seq(Encoded) /\ m \in Nat /\ DOMAIN w = 1..m /\ I[i].name \in Encoded
    BY <2>1, <2>2 DEF Parameters
  <2>4. PICK u : u = [j \in 1..m |-> position!Text(w[j].word)]
    OBVIOUS
  <2>5. P[i] = [name |-> position!Text(I[i].name.word), value |-> u]
    BY <1>1, <1>2, <2>2, <2>3, <2>4 DEF position!Plain
  <2>6. \A j \in 1..m : u[j] \in Encoded /\ u[j].word = w[j].word /\ u[j].times = 0
    BY <1>3, <2>3, <2>4
  <2>7. u \in Seq(Encoded) /\ Len(u) = m
    BY <2>3, <2>4, <2>6
  <2>8. P[i] \in Parameters(Encoded)
    BY <1>3, <2>3, <2>5, <2>7 DEF Parameters
  <2>. QED BY <2>2, <2>5, <2>6, <2>7, <2>8
<1>5. P \in [1..n -> Parameters(Encoded)]
  BY <1>1, <1>2, <1>4 DEF position!Plain
<1>6. \A i \in 1..n : i \in HolesOf(P) <=> i \in HolesOf(I)
  <2>1. ASSUME NEW i \in 1..n PROVE i \in HolesOf(P) <=> i \in HolesOf(I)
    <3>1. Len(I[i].value) = 1 => 1 \in 1..Len(I[i].value)
      OBVIOUS
    <3>. QED BY <1>2, <1>4, <3>1 DEF HolesOf
  <2>. QED BY <2>1
<1>7. HolesOf(P) = HolesOf(I)
  BY <1>2, <1>6 DEF HolesOf
<1>. QED BY <1>1, <1>2, <1>4, <1>5, <1>7

\* What a request that carries v is made of.
LEMMA FilledRequest ==
  ASSUME NEW t \in Requests, NEW v
  PROVE  LET r == position!Fill(t, v) IN
           /\ r.path = [i \in DOMAIN t.path |-> position!FillText(t.path[i], v)]
           /\ r.query = position!FillItems(t.query, v)
           /\ r.body.kind = t.body.kind
           /\ r.body.items = position!FillItems(IF t.body.kind = "form" THEN t.body.items
                                                ELSE position!Plain(t.body.items), v)
           /\ r.header = position!FillItems(t.header, v) /\ r.cookie = position!FillItems(t.cookie, v)
           /\ r.locations = t.locations
  BY DEF Requests, position!Fill

\* The parts of a request.
LEMMA RequestParts ==
  ASSUME NEW t \in Templates
  PROVE  /\ t \in Requests /\ t.query \in Items /\ t.body.items \in Items /\ t.header \in Items /\ t.cookie \in Items
         /\ t.path \in Seq(Encoded) /\ t.body.kind \in {"form", "object", "list", "value"}
         /\ t.locations \subseteq {"GET", "POST", "HEADER", "PATH", "COOKIE"}
         /\ NamesAlike(t.query) /\ NamesAlike(t.body.items)
<1>1. t \in Requests /\ NamesAlike(t.query) /\ NamesAlike(t.body.items)
  BY RequestsAssumption
<1>. QED BY <1>1 DEF Requests

\* The parameter of the query is found, decoded, for every value.
LEMMA QueryPlace ==
  ASSUME NEW t \in Templates, NEW v \in Value
  PROVE  position!Locate("GET", position!Fill(t, v), position!Text(v)) = ParamOf(t.query)
<1>1. PICK n \in Nat : t.query \in [1..n -> Parameters(Encoded)]
  BY RequestParts, ItemsAre
<1>2. position!Locate("GET", position!Fill(t, v), position!Text(v)) =
        position!ParseParams(position!FillItems(t.query, v), position!Text(v))
  BY RequestParts, FilledRequest DEF position!Locate
<1>. QED BY <1>1, <1>2, RequestParts, ParamFound

\* The place in the body is found for every value: forms are decoded, JSON is not encoded.
LEMMA BodyPlace ==
  ASSUME NEW t \in Templates, NEW v \in Value
  PROVE  position!Locate("POST", position!Fill(t, v), position!Text(v)) = BodyOf(t.body)
<1>1. PICK b, x : b = position!Fill(t, v).body /\ x = position!Text(v)
  OBVIOUS
<1>2. PICK I : I = t.body.items
  OBVIOUS
<1>3. PICK n \in Nat : I \in [1..n -> Parameters(Encoded)] /\ DOMAIN I = 1..n
  BY <1>2, RequestParts, ItemsAre
<1>4. /\ b.kind = t.body.kind
      /\ b.items = position!FillItems(IF t.body.kind = "form" THEN I ELSE position!Plain(I), v)
  <2>1. t \in Requests
    BY RequestParts
  <2>2. /\ position!Fill(t, v).body.kind = t.body.kind
        /\ position!Fill(t, v).body.items =
             position!FillItems(IF t.body.kind = "form" THEN t.body.items ELSE position!Plain(t.body.items), v)
    BY <2>1, FilledRequest
  <2>. QED BY <1>1, <1>2, <2>2
<1>5. position!Locate("POST", position!Fill(t, v), position!Text(v)) = position!ParseBody(b, x)
  BY <1>1 DEF position!Locate
<1>6. CASE t.body.kind = "form"
  <2>1. position!ParseBody(b, x) = position!ParseParams(position!FillItems(I, v), x)
    BY <1>4, <1>6 DEF position!ParseBody
  <2>2. position!ParseParams(position!FillItems(I, v), x) = ParamOf(I)
    BY <1>1, <1>2, <1>3, RequestParts, ParamFound
  <2>. QED BY <1>2, <1>5, <1>6, <2>1, <2>2 DEF BodyOf
<1>7. CASE t.body.kind # "form"
  <2>1. PICK P : P = position!Plain(I)
    OBVIOUS
  <2>2. /\ P \in [1..n -> Parameters(Encoded)] /\ DOMAIN P = 1..n /\ HolesOf(P) = HolesOf(I)
        /\ \A i \in 1..n : /\ P[i].name = position!Text(I[i].name.word)
                           /\ \A j \in 1..Len(P[i].value) : P[i].value[j].times = 0
    BY <1>3, <2>1, PlainItems
  <2>3. b.items = position!FillItems(P, v) /\ b.kind # "form"
    BY <1>4, <1>7, <2>1
  <2>4. /\ DOMAIN b.items = 1..n
        /\ \A i \in 1..n : /\ b.items[i].name = P[i].name /\ b.items[i].name # x
                           /\ b.items[i].value = <<x>> <=> i \in HolesOf(P)
    BY <1>1, <2>2, <2>3, HoleMatched
  <2>5. PICK M : M = position!MatchBody(b, x)
    OBVIOUS
  <2>6. M = HolesOf(I)
    <3>1. HolesOf(I) \subseteq 1..n
      BY <1>3 DEF HolesOf
    <3>. QED BY <2>2, <2>4, <2>5, <3>1 DEF position!MatchBody
  <2>7. /\ M = {} => position!ParseBody(b, x) = position!Nowhere
        /\ M # {} /\ b.kind = "object" => position!ParseBody(b, x) = position!Named(b.items[position!FirstOf(M)].name)
        /\ M # {} /\ b.kind = "list" => position!ParseBody(b, x) = position!Indexed(position!FirstOf(M))
        /\ M # {} /\ b.kind = "value" => position!ParseBody(b, x) = position!Named(Whole)
    <3>1. b.kind # "form"
      BY <2>3
    <3>3. CASE M = {}
      BY <2>5, <3>1, <3>3 DEF position!ParseBody
    <3>4. CASE M # {} /\ b.kind = "object"
      BY <2>5, <3>4 DEF position!ParseBody
    <3>5. CASE M # {} /\ b.kind = "list"
      BY <2>5, <3>5 DEF position!ParseBody
    <3>6. CASE M # {} /\ b.kind = "value"
      BY <2>5, <3>6 DEF position!ParseBody
    <3>. QED BY <3>3, <3>4, <3>5, <3>6
  <2>8. M # {} => position!FirstOf(M) \in 1..n
    <3>1. M \subseteq 1..n /\ M \in SUBSET Nat
      BY <2>4, <2>5 DEF position!MatchBody
    <3>. QED BY <3>1, FirstIs
  <2>9. M # {} => b.items[position!FirstOf(M)].name = position!Text(I[position!FirstOf(M)].name.word)
    BY <2>2, <2>4, <2>8
  <2>10. t.body.kind \in {"object", "list", "value"}
    BY <1>7, RequestParts
  <2>11. BodyOf(t.body) =
           IF M = {} THEN position!Nowhere
           ELSE IF t.body.kind = "object" THEN position!Named(position!Text(I[position!FirstOf(M)].name.word))
           ELSE IF t.body.kind = "list" THEN position!Indexed(position!FirstOf(M))
           ELSE position!Named(Whole)
    BY <1>2, <1>7, <2>6 DEF BodyOf
  <2>. QED BY <1>4, <1>5, <2>7, <2>9, <2>10, <2>11
<1>. QED BY <1>6, <1>7

\* Headers and cookies show a plain value as it is.
LEMMA HeadersPlace ==
  ASSUME NEW t \in Templates, NEW v \in Value \ Special
  PROVE  /\ position!Locate("HEADER", position!Fill(t, v), position!Text(v)) = ItemOf(t.header)
         /\ position!Locate("COOKIE", position!Fill(t, v), position!Text(v)) = ItemOf(t.cookie)
<1>1. PICK x : x = position!Text(v)
  OBVIOUS
<1>2. ASSUME NEW I \in Items
      PROVE  /\ position!ParseHeader(position!FillItems(I, v), x) = ItemOf(I)
             /\ position!ParseCookie(position!FillItems(I, v), x) = ItemOf(I)
  <2>1. PICK n \in Nat : I \in [1..n -> Parameters(Encoded)] /\ DOMAIN I = 1..n
    BY ItemsAre
  <2>2. PICK J : J = position!FillItems(I, v)
    OBVIOUS
  <2>3. /\ DOMAIN J = 1..n
        /\ \A i \in 1..n : /\ J[i].name = I[i].name /\ J[i].name # x
                           /\ J[i].value = <<x>> <=> i \in HolesOf(I)
    BY <1>1, <2>1, <2>2, HoleMatched
  <2>4. HolesOf(I) \subseteq 1..n /\ HolesOf(I) \in SUBSET Nat
    BY <2>1 DEF HolesOf
  <2>5. {i \in DOMAIN J : J[i].value = <<x>>} = HolesOf(I)
    BY <2>3, <2>4
  <2>6. {i \in DOMAIN J : x = J[i].name \/ J[i].value = <<x>>} = HolesOf(I)
    BY <2>3, <2>4
  <2>7. HolesOf(I) # {} => position!FirstOf(HolesOf(I)) \in 1..n
    BY <2>4, FirstIs
  <2>8. HolesOf(I) # {} => J[position!FirstOf(HolesOf(I))].name = I[position!FirstOf(HolesOf(I))].name
    BY <2>3, <2>7
  <2>9. position!ParseHeader(J, x) = ItemOf(I)
    BY <2>6, <2>8 DEF position!ParseHeader, ItemOf
  <2>10. position!ParseCookie(J, x) = ItemOf(I)
    BY <2>5, <2>8 DEF position!ParseCookie, ItemOf
  <2>. QED BY <2>2, <2>9, <2>10
<1>3. t \in Requests /\ t.header \in Items /\ t.cookie \in Items
  BY RequestParts
<1>4. /\ position!Fill(t, v).header = position!FillItems(t.header, v)
      /\ position!Fill(t, v).cookie = position!FillItems(t.cookie, v)
  BY <1>3, FilledRequest
<1>. QED BY <1>1, <1>2, <1>3, <1>4 DEF position!Locate

\* The path shows a plain value as it is.
LEMMA PathPlace ==
  ASSUME NEW t \in Templates, NEW v \in Value \ Special
  PROVE  position!Locate("PATH", position!Fill(t, v), position!Text(v)) = PlaceIn("PATH", t)
<1>1. PICK n \in Nat : DOMAIN t.path = 1..n /\ t.path \in [1..n -> Encoded]
  BY RequestParts, SequenceIs
<1>2. PICK J, x : J = position!Fill(t, v).path /\ x = position!Text(v)
  OBVIOUS
<1>3. J = [i \in 1..n |-> position!FillText(t.path[i], v)]
  <2>1. t \in Requests
    BY RequestParts
  <2>2. position!Fill(t, v).path = [i \in DOMAIN t.path |-> position!FillText(t.path[i], v)]
    BY <2>1, FilledRequest
  <2>. QED BY <1>1, <1>2, <2>2
<1>4. \A i \in 1..n : J[i] = x <=> t.path[i].word = Hole
  BY <1>1, <1>2, <1>3, FilledWord
<1>5. {i \in DOMAIN J : J[i] = x} = Gaps(t.path)
  BY <1>1, <1>3, <1>4 DEF Gaps
<1>6. position!Locate("PATH", position!Fill(t, v), position!Text(v)) = position!ParsePath(J, x)
  BY <1>2 DEF position!Locate
<1>. QED BY <1>5, <1>6 DEF position!ParsePath, PlaceIn

\* What is stored of a request that carried v.
NamesFor(t, v) == position!ParseTaintPosition(position!Fill(t, v), {position!Text(v)})
Stored(t, v) == [value |-> v, names |-> NamesFor(t, v),
                 uri |-> position!GetOriginalUrl(position!Fill(t, v).path, NamesFor(t, v))]

\* Names of plain values are those of the template, and so are the parameters of all.
LEMMA NamesAre ==
  ASSUME NEW t \in Templates, NEW v \in Value
  PROVE  /\ \A q \in NamesFor(t, v) : q[1] \in t.locations /\ q = <<q[1], q[2]>> /\ q[2] # position!Nowhere
         /\ \A l \in {"GET", "POST"} : \A p : <<l, p>> \in NamesFor(t, v) <=>
              l \in t.locations /\ p = PlaceIn(l, t) /\ p # position!Nowhere
         /\ v \notin Special => \A l : \A p : <<l, p>> \in NamesFor(t, v) <=>
              l \in t.locations /\ p = PlaceIn(l, t) /\ p # position!Nowhere
<1>1. PICK r, x : r = position!Fill(t, v) /\ x = position!Text(v)
  OBVIOUS
<1>2. r.locations = t.locations
  BY <1>1, RequestParts, FilledRequest
<1>3. NamesFor(t, v) = {p \in {<<l, position!Locate(l, r, y)>> : l \in t.locations, y \in {x}} : p[2] # position!Nowhere}
  BY <1>1, <1>2 DEF NamesFor, position!ParseTaintPosition
<1>4. \A q : q \in NamesFor(t, v) <=>
        q[2] # position!Nowhere /\ \E l \in t.locations : q = <<l, position!Locate(l, r, x)>>
  BY <1>3
<1>5. \A l, p : <<l, p>> \in NamesFor(t, v) <=>
        l \in t.locations /\ p = position!Locate(l, r, x) /\ p # position!Nowhere
  BY <1>4
<1>6. \A l \in {"GET", "POST"} : position!Locate(l, r, x) = PlaceIn(l, t)
  BY <1>1, QueryPlace, BodyPlace DEF PlaceIn
<1>7. v \notin Special => \A l \in t.locations : position!Locate(l, r, x) = PlaceIn(l, t)
  <2>1. ASSUME v \notin Special
        PROVE  \A l \in {"GET", "POST", "HEADER", "PATH", "COOKIE"} : position!Locate(l, r, x) = PlaceIn(l, t)
    <3>1. position!Locate("HEADER", r, x) = PlaceIn("HEADER", t) /\ position!Locate("COOKIE", r, x) = PlaceIn("COOKIE", t)
      BY <1>1, <2>1, HeadersPlace DEF PlaceIn
    <3>2. position!Locate("PATH", r, x) = PlaceIn("PATH", t)
      BY <1>1, <2>1, PathPlace
    <3>. QED BY <1>6, <3>1, <3>2
  <2>. QED BY <2>1, RequestParts
<1>. QED BY <1>4, <1>5, <1>6, <1>7

\* Plain values uncover the same names.
LEMMA PlainNames ==
  ASSUME NEW t \in Templates, NEW v \in Value \ Special, NEW w \in Value \ Special
  PROVE  NamesFor(t, v) = NamesFor(t, w)
<1>1. \A l, p : <<l, p>> \in NamesFor(t, v) <=> <<l, p>> \in NamesFor(t, w)
  <2>1. \A l : \A p : <<l, p>> \in NamesFor(t, v) <=> l \in t.locations /\ p = PlaceIn(l, t) /\ p # position!Nowhere
    BY NamesAre
  <2>2. \A l : \A p : <<l, p>> \in NamesFor(t, w) <=> l \in t.locations /\ p = PlaceIn(l, t) /\ p # position!Nowhere
    BY NamesAre
  <2>. QED BY <2>1, <2>2
<1>2. \A q \in NamesFor(t, v) \cup NamesFor(t, w) : q = <<q[1], q[2]>>
  BY NamesAre
<1>. QED BY <1>1, <1>2

\* The instance counts as this module does.
LEMMA SameGapCount == \A S : position!Cardinality(S) = Cardinality(S)
  BY DEF position!Cardinality, Cardinality

\* One hole in a path that is searched is cut out of the address.
LEMMA PatternIs ==
  ASSUME NEW t \in Templates, NEW v \in Value \ Special,
         Cardinality(Gaps(t.path)) <= IF "PATH" \in t.locations THEN 1 ELSE 0
  PROVE  position!GetOriginalUrl(position!Fill(t, v).path, NamesFor(t, v)) =
           [i \in DOMAIN t.path |-> IF i \in Gaps(t.path) THEN position!Text(Hole) ELSE t.path[i]]
<1>1. PICK n \in Nat : DOMAIN t.path = 1..n /\ t.path \in [1..n -> Encoded]
  BY RequestParts, SequenceIs
<1>2. PICK J, G, N : J = position!Fill(t, v).path /\ G = Gaps(t.path) /\ N = NamesFor(t, v)
  OBVIOUS
<1>3. J = [i \in 1..n |-> position!FillText(t.path[i], v)]
  <2>1. t \in Requests
    BY RequestParts
  <2>2. position!Fill(t, v).path = [i \in DOMAIN t.path |-> position!FillText(t.path[i], v)]
    BY <2>1, FilledRequest
  <2>. QED BY <1>1, <1>2, <2>2
<1>4. G \subseteq 1..n /\ IsFiniteSet(G)
  <2>1. IsFiniteSet(1..n)
    BY FS_Interval
  <2>2. G \subseteq 1..n
    BY <1>1, <1>2 DEF Gaps
  <2>. QED BY <2>1, <2>2, FS_Subset
<1>5. ASSUME NEW i \in 1..n
      PROVE  <<"PATH", position!Indexed(i)>> \in N <=> i \in G
  <2>1. <<"PATH", position!Indexed(i)>> \in N <=>
          "PATH" \in t.locations /\ position!Indexed(i) = PlaceIn("PATH", t) /\ position!Indexed(i) # position!Nowhere
    BY <1>2, NamesAre
  <2>2. position!Indexed(i) # position!Nowhere
    BY DEF position!Indexed, position!Nowhere
  <2>3. CASE G = {}
    <3>1. PlaceIn("PATH", t) = position!Nowhere
      BY <1>2, <2>3 DEF PlaceIn
    <3>. QED BY <2>1, <2>2, <2>3, <3>1
  <2>4. CASE G # {}
    <3>1. PICK g \in G : TRUE
      BY <2>4
    <3>2. Cardinality(G) \in Nat /\ Cardinality(G) # 0
      BY <1>4, <2>4, FS_CardinalityType, FS_EmptySet
    <3>3. "PATH" \in t.locations /\ Cardinality(G) = 1
      BY <1>2, <3>2
    <3>4. PICK h : G = {h}
      BY <1>4, <3>3, FS_Singleton
    <3>5. position!FirstOf(G) \in G
      <4>1. G \in SUBSET Nat
        BY <1>4
      <4>. QED BY <2>4, <4>1, FirstIs
    <3>6. PlaceIn("PATH", t) = position!Indexed(h)
      BY <1>2, <2>4, <3>4, <3>5 DEF PlaceIn
    <3>7. position!Indexed(i) = position!Indexed(h) <=> i = h
      BY DEF position!Indexed
    <3>. QED BY <2>1, <2>2, <3>3, <3>4, <3>6, <3>7
  <2>. QED BY <2>3, <2>4
<1>6. \A i \in 1..n : i \notin G => J[i] = t.path[i]
  BY <1>1, <1>2, <1>3 DEF Gaps, position!FillText
<1>7. position!GetOriginalUrl(J, N) =
        [i \in 1..n |-> IF <<"PATH", position!Indexed(i)>> \in N THEN position!Text(Hole) ELSE J[i]]
  BY <1>3 DEF position!GetOriginalUrl
<1>. QED BY <1>1, <1>2, <1>5, <1>6, <1>7

--------------------------------------------------------------------------------
PositionSafe == /\ template \in Templates
                /\ \A a \in found : a.value \in Value /\ a = Stored(template, a.value)

\* What is found of one request has the properties of its key.
LEMMA KeysFollow == PositionSafe => position!KeysStable
<1>1. SUFFICES ASSUME PositionSafe PROVE position!OneKey /\ position!ParameterFound
  BY DEF position!KeysStable
<1>2. PICK t \in Templates : t = template
  BY <1>1 DEF PositionSafe
<1>3. \A a \in found : /\ a.value \in Value /\ a.names = NamesFor(t, a.value)
                       /\ a.uri = position!GetOriginalUrl(position!Fill(t, a.value).path, NamesFor(t, a.value))
  <2>1. SUFFICES ASSUME NEW a \in found
                 PROVE  /\ a.value \in Value /\ a.names = NamesFor(t, a.value)
                        /\ a.uri = position!GetOriginalUrl(position!Fill(t, a.value).path, NamesFor(t, a.value))
    OBVIOUS
  <2>2. a.value \in Value /\ a = Stored(t, a.value)
    BY <1>1, <1>2 DEF PositionSafe
  <2>3. PICK v : v = a.value
    OBVIOUS
  <2>4. /\ Stored(t, v).names = NamesFor(t, v)
        /\ Stored(t, v).uri = position!GetOriginalUrl(position!Fill(t, v).path, NamesFor(t, v))
    BY DEF Stored
  <2>. QED BY <2>2, <2>3, <2>4
<1>4. position!OneKey
  <2>1. SUFFICES ASSUME NEW a \in found, NEW b \in found,
                        Cardinality(Gaps(t.path)) <= IF "PATH" \in t.locations THEN 1 ELSE 0,
                        a.value \notin Special
                 PROVE  /\ b.value \notin Special => a.names = b.names /\ a.uri = b.uri
                        /\ \A l \in {"GET", "POST"}, p \in {q[2] : q \in a.names} :
                             <<l, p>> \in a.names <=> <<l, p>> \in b.names
    BY <1>2, SameGapCount DEF position!OneKey, Gaps
  <2>2. PICK v, w : v = a.value /\ w = b.value /\ v \in Value /\ w \in Value
    BY <1>3, <2>1
  <2>3. ASSUME w \notin Special PROVE a.names = b.names /\ a.uri = b.uri
    <3>1. NamesFor(t, v) = NamesFor(t, w)
      BY <2>1, <2>2, <2>3, PlainNames
    <3>2. position!GetOriginalUrl(position!Fill(t, v).path, NamesFor(t, v)) =
            position!GetOriginalUrl(position!Fill(t, w).path, NamesFor(t, w))
      BY <2>1, <2>2, <2>3, PatternIs
    <3>. QED BY <1>3, <2>1, <2>2, <3>1, <3>2
  <2>4. \A l \in {"GET", "POST"} : \A p : <<l, p>> \in a.names <=> <<l, p>> \in b.names
    <3>1. \A l \in {"GET", "POST"} : \A p : <<l, p>> \in NamesFor(t, v) <=> <<l, p>> \in NamesFor(t, w)
      BY <2>2, NamesAre
    <3>. QED BY <1>3, <2>1, <2>2, <3>1
  <2>. QED BY <2>2, <2>3, <2>4
<1>5. position!ParameterFound
  <2>1. SUFFICES ASSUME "GET" \in t.locations, position!Holds(t.query), NEW a \in found
                 PROVE  \E p \in a.names : p[1] = "GET"
    BY <1>2 DEF position!ParameterFound
  <2>2. PICK n \in Nat : t.query \in [1..n -> Parameters(Encoded)] /\ \A i \in 1..n : t.query[i].value # <<>>
    BY RequestParts, ItemsAre
  <2>3. PlaceIn("GET", t) # position!Nowhere
    BY <2>1, <2>2, HeldFound DEF PlaceIn
  <2>4. <<"GET", PlaceIn("GET", t)>> \in a.names
    BY <1>3, <2>1, <2>3, NamesAre
  <2>. QED BY <2>4
<1>. QED BY <1>4, <1>5

\* Whichever values uncover a weakness, in whatever order, they are stored under one key,
\* and its parameter is found (parse_taint_position, get_original_url).
THEOREM KeysAlwaysStable == Spec => []KeysStable
<1> DEFINE Safe == part = "position" => PositionSafe
<1>1. Init => Safe
  <2>1. SUFFICES ASSUME position!Init PROVE PositionSafe
    BY DEF Init
  <2>. QED BY <2>1 DEF position!Init, PositionSafe
<1>2. Safe /\ [Next]_vars => Safe'
  <2>1. PositionSafe /\ UNCHANGED positionVars => PositionSafe'
    BY DEF positionVars, PositionSafe
  <2>2. ASSUME PositionSafe, NEW v \in Value, position!SaveVul(v) PROVE PositionSafe'
    <3>1. template' = template /\ found' = found \cup {Stored(template, v)}
      BY <2>2 DEF position!SaveVul, Stored, NamesFor
    <3>2. Stored(template, v).value = v
      BY DEF Stored
    <3>. QED BY <2>2, <3>1, <3>2 DEF PositionSafe
  <2>3. PositionSafe /\ position!Next => PositionSafe'
    BY <2>2 DEF position!Next
  <2>. QED BY <2>1, <2>3 DEF Next, vars
<1>3. Safe => KeysStable
  BY KeysFollow DEF KeysStable
<1>. QED BY <1>1, <1>2, <1>3, PTL DEF Spec

--------------------------------------------------------------------------------
(* TaintSearch: recursion, order, routes and stacks.                          *)

\* TaintSearch has its own instance of FiniteSets.
LEMMA SameCardinality ==
  ASSUME NEW S
  PROVE  taint!Cardinality(S) = Cardinality(S)
  BY DEF taint!Cardinality, Cardinality

\* A set of numbers has a least one.
LEMMA LeastNumber ==
  ASSUME NEW S \in SUBSET Nat, S # {}
  PROVE  \E i \in S : \A j \in S : i <= j
<1>1. PICK x \in S : \A y \in S : ~(<<y, x>> \in OpToRel(<, Nat))
  BY NatLessThanWellFounded, WFMin
<1>2. \A y \in S : ~(y < x)
  BY <1>1 DEF OpToRel
<1>. QED BY <1>2

Recursion(f, S, base, n, step) ==
  f \in [0..n -> S] /\ f[0] = base /\ \A k \in 1..n : f[k] = step[k][f[k - 1]]

\* There is a function that does what a recursion over numbers says.
LEMMA RecursionExists ==
  ASSUME NEW S, NEW base \in S, NEW n \in Nat, NEW step \in [1..n -> [S -> S]]
  PROVE  \E f : Recursion(f, S, base, n, step)
<1>. DEFINE Upto(f, m) == f \in [0..m -> S] /\ f[0] = base /\ \A k \in 1..m : f[k] = step[k][f[k - 1]]
            T == {m \in 0..n : ~\E f : Upto(f, m)}
<1>1. SUFFICES T = {}
  BY <1>1 DEF Recursion
<1>2. SUFFICES ASSUME T # {} PROVE FALSE
  BY <1>2
<1>3. PICK m \in T : \A j \in T : m <= j
  <2>1. T \in SUBSET Nat
    OBVIOUS
  <2>. HIDE DEF T
  <2>. QED BY <1>2, <2>1, LeastNumber
<1>4. m # 0
  <2>1. Upto([k \in 0..0 |-> base], 0)
    OBVIOUS
  <2>. QED BY <1>3, <2>1
<1>5. m - 1 \in 0..n /\ m - 1 \notin T
  BY <1>3, <1>4
<1>6. PICK f : Upto(f, m - 1)
  BY <1>5
<1>7. m \in 1..n /\ f[m - 1] \in S
  BY <1>3, <1>4, <1>6
<1>. DEFINE g == [k \in 0..m |-> IF k = m THEN step[m][f[m - 1]] ELSE f[k]]
<1>8. step[m] \in [S -> S]
  BY <1>7
<1>9. g \in [0..m -> S]
  <2>1. ASSUME NEW k \in 0..m, k # m PROVE f[k] \in S
    BY <1>6, <1>7, <2>1
  <2>. QED BY <1>7, <1>8, <2>1
<1>10. g[0] = base
  BY <1>4, <1>6, <1>7
<1>11. ASSUME NEW k \in 1..m PROVE g[k] = step[k][g[k - 1]]
  <2>1. CASE k = m
    BY <1>7, <2>1
  <2>2. CASE k # m
    <3>1. k \in 1..(m - 1) /\ k - 1 # m /\ k - 1 \in 0..m
      BY <1>7, <2>2
    <3>. QED BY <1>6, <2>2, <3>1
  <2>. QED BY <2>1, <2>2
<1>12. Upto(g, m)
  BY <1>9, <1>10, <1>11
<1>. QED BY <1>3, <1>12

InRow(q, U, R) ==
  /\ q \in [1..Cardinality(U) -> U]
  /\ \A i, j \in 1..Cardinality(U) : i < j => <<q[i], q[j]>> \in R

Sorting(q, U, R) ==
  /\ InRow(q, U, R)
  /\ \A x \in U : \E i \in 1..Cardinality(U) : q[i] = x

\* One more element behind the others.
LEMMA SortingLonger ==
  ASSUME NEW U, IsFiniteSet(U), NEW R, NEW x \in U, NEW f, Sorting(f, U \ {x}, R),
         \A y, z, u \in U : <<y, z>> \in R /\ <<z, u>> \in R => <<y, u>> \in R,
         \A y \in U \ {x} : <<y, x>> \in R
  PROVE  \E q : Sorting(q, U, R)
<1>. DEFINE n == Cardinality(U)
            q == [i \in 1..n |-> IF i = n THEN x ELSE f[i]]
<1>1. n \in Nat /\ n >= 1 /\ Cardinality(U \ {x}) = n - 1
  BY FS_RemoveElement, FS_CardinalityType, FS_EmptySet
<1>. HIDE DEF n
<1>2. /\ f \in [1..(n - 1) -> U \ {x}]
      /\ \A i, j \in 1..(n - 1) : i < j => <<f[i], f[j]>> \in R
      /\ \A y \in U \ {x} : \E i \in 1..(n - 1) : f[i] = y
  BY <1>1 DEF Sorting, InRow
<1>3. \A i \in 1..n : i # n => i \in 1..(n - 1)
  BY <1>1
<1>4. q \in [1..n -> U]
  <2>1. ASSUME NEW i \in 1..n, i # n PROVE f[i] \in U
    BY <1>2, <1>3, <2>1
  <2>. QED BY <2>1
<1>5. ASSUME NEW i \in 1..n, NEW j \in 1..n, i < j PROVE <<q[i], q[j]>> \in R
  <2>1. i \in 1..(n - 1) /\ q[i] = f[i] /\ f[i] \in U \ {x}
    BY <1>1, <1>2, <1>5
  <2>2. CASE j = n
    BY <2>1, <2>2
  <2>3. CASE j # n
    BY <1>2, <1>3, <1>5, <2>1, <2>3
  <2>. QED BY <2>2, <2>3
<1>6. ASSUME NEW y \in U PROVE \E i \in 1..n : q[i] = y
  <2>1. CASE y = x
    BY <1>1, <2>1
  <2>2. CASE y # x
    <3>1. PICK i \in 1..(n - 1) : f[i] = y
      BY <1>2, <2>2
    <3>2. i \in 1..n /\ q[i] = y
      BY <1>1, <3>1
    <3>. QED BY <3>2
  <2>. QED BY <2>1, <2>2
<1>7. Sorting(q, U, R)
  BY <1>4, <1>5, <1>6 DEF Sorting, InRow, n
<1>. QED BY <1>7

\* A finite set that is totally ordered can be put in order.
LEMMA SortingExists ==
  ASSUME NEW S, IsFiniteSet(S), NEW R,
         \A x, y, z \in S : <<x, y>> \in R /\ <<y, z>> \in R => <<x, z>> \in R,
         \A x, y \in S : x # y => <<x, y>> \in R \/ <<y, x>> \in R
  PROVE  \E q : Sorting(q, S, R)
<1>. DEFINE T == {n \in Nat : \E U \in SUBSET S : Cardinality(U) = n /\ ~\E q : Sorting(q, U, R)}
<1>1. SUFFICES T = {}
  <2>1. Cardinality(S) \in Nat
    BY FS_CardinalityType
  <2>. QED BY <2>1
<1>2. SUFFICES ASSUME T # {} PROVE FALSE
  BY <1>2
<1>3. PICK n \in T : \A k \in T : n <= k
  <2>1. T \in SUBSET Nat
    OBVIOUS
  <2>. HIDE DEF T
  <2>. QED BY <1>2, <2>1, LeastNumber
<1>4. PICK U \in SUBSET S : Cardinality(U) = n /\ ~\E q : Sorting(q, U, R)
  BY <1>3
<1>5. IsFiniteSet(U) /\ n \in Nat
  BY <1>3, FS_Subset
<1>6. U # {}
  <2>1. ASSUME U = {} PROVE Sorting([i \in 1..0 |-> i], U, R)
    <3>1. Cardinality(U) = 0
      BY <2>1, FS_EmptySet
    <3>. QED BY <2>1, <3>1 DEF Sorting, InRow
  <2>. QED BY <1>4, <2>1
<1>7. ASSUME NEW x \in U PROVE \E q : Sorting(q, U \ {x}, R)
  <2>1. Cardinality(U \ {x}) = n - 1 /\ n - 1 \in Nat
    <3>1. IsFiniteSet(U \ {x}) /\ Cardinality(U \ {x}) = n - 1
      BY <1>4, <1>5, FS_RemoveElement
    <3>. QED BY <3>1, FS_CardinalityType
  <2>2. n - 1 \notin T
    BY <1>3, <1>5, <2>1
  <2>. QED BY <2>1, <2>2
<1>8. ASSUME NEW x \in U, \A y \in U \ {x} : <<y, x>> \in R PROVE FALSE
  <2>1. PICK f : Sorting(f, U \ {x}, R)
    BY <1>7
  <2>2. \A y, z, u \in U : <<y, z>> \in R /\ <<z, u>> \in R => <<y, u>> \in R
    OBVIOUS
  <2>. QED BY <1>4, <1>5, <1>8, <2>1, <2>2, SortingLonger
<1>9. PICK x \in U : TRUE
  BY <1>6
<1>10. PICK f : Sorting(f, U \ {x}, R)
  BY <1>7
<1>. DEFINE m == Cardinality(U \ {x})
<1>11. m \in Nat
  BY <1>5, FS_RemoveElement, FS_CardinalityType
<1>12. f \in [1..m -> U \ {x}] /\ (\A i, j \in 1..m : i < j => <<f[i], f[j]>> \in R)
       /\ \A y \in U \ {x} : \E i \in 1..m : f[i] = y
  BY <1>10 DEF Sorting, InRow
<1>. HIDE DEF m
<1>13. m # 0
  <2>1. m = 0 => U \ {x} = {}
    BY <1>12
  <2>. QED BY <1>8, <2>1
<1>14. m \in 1..m /\ f[m] \in U \ {x}
  BY <1>11, <1>12, <1>13
<1>15. \A y \in U \ {x} : y # f[m] => <<y, f[m]>> \in R
  <2>1. ASSUME NEW y \in U \ {x}, y # f[m] PROVE <<y, f[m]>> \in R
    <3>1. PICK i \in 1..m : f[i] = y
      BY <1>12, <2>1
    <3>2. i < m
      BY <1>11, <2>1, <3>1
    <3>. QED BY <1>12, <1>14, <3>1, <3>2
  <2>. QED BY <2>1
<1>16. CASE <<f[m], x>> \in R
  <2>1. \A y \in U \ {x} : <<y, x>> \in R
    BY <1>14, <1>15, <1>16
  <2>. QED BY <1>8, <2>1
<1>17. CASE <<f[m], x>> \notin R
  <2>1. <<x, f[m]>> \in R
    BY <1>14, <1>17
  <2>2. \A y \in U \ {f[m]} : <<y, f[m]>> \in R
    BY <1>15, <2>1
  <2>. QED BY <1>8, <1>14, <2>2
<1>. QED BY <1>16, <1>17

\* Whatever is in order has each element.
LEMMA SortingOnto ==
  ASSUME NEW S, IsFiniteSet(S), NEW R, \A x \in S : <<x, x>> \notin R,
         NEW q, InRow(q, S, R)
  PROVE  \A x \in S : \E i \in 1..Cardinality(S) : q[i] = x
<1>. DEFINE n == Cardinality(S)
<1>1. n \in Nat /\ IsFiniteSet(1..n) /\ Cardinality(1..n) = n
  BY FS_CardinalityType, FS_Interval
<1>2. q \in Injection(1..n, S)
  <2>1. ASSUME NEW i \in 1..n, NEW j \in 1..n, q[i] = q[j], i # j PROVE FALSE
    <3>1. q[i] \in S /\ q[j] \in S
      BY DEF InRow
    <3>2. i < j \/ j < i
      BY <1>1, <2>1
    <3>. QED BY <2>1, <3>1, <3>2 DEF InRow
  <2>. QED BY <2>1 DEF Injection, taint!IsInjective, InRow, IsInjective
<1>3. q \in Surjection(1..n, S)
  BY <1>1, <1>2, FS_Injection
<1>. QED BY <1>3 DEF Surjection

PoolTyped == pool \in Seq(taint!Call) /\ Len(pool) <= MaxCalls

\* A pool has finitely many calls.
LEMMA PoolFinite ==
  ASSUME PoolTyped
  PROVE  /\ Len(pool) \in Nat /\ DOMAIN pool = 1..Len(pool) /\ DOMAIN pool \subseteq taint!Id
         /\ IsFiniteSet(DOMAIN pool) /\ Cardinality(DOMAIN pool) <= MaxCalls
         /\ \A i \in DOMAIN pool : pool[i] \in taint!Call
<1>1. Len(pool) \in Nat /\ DOMAIN pool = 1..Len(pool)
  BY LenProperties DEF PoolTyped
<1>2. IsFiniteSet(1..Len(pool)) /\ Cardinality(1..Len(pool)) = Len(pool)
  <2>1. 1 \in Int /\ Len(pool) \in Int
    BY <1>1
  <2>2. 1 > Len(pool) => Len(pool) = 0
    BY <1>1
  <2>. QED BY <1>1, <2>1, <2>2, FS_Interval
<1>3. \A i \in DOMAIN pool : pool[i] \in taint!Call
  BY <1>1, ElementOfSeq DEF PoolTyped
<1>. QED BY <1>1, <1>2, <1>3, TaintAssumption DEF PoolTyped, taint!Id

\* What a function on 1..k is as a sequence.
LEMMA FunctionIsSeq ==
  ASSUME NEW S, NEW k \in Nat, NEW q \in [1..k -> S]
  PROVE  q \in Seq(S) /\ Len(q) = k /\ DOMAIN q = 1..k
<1>1. q \in Seq(S)
  BY SeqDef
<1>. QED BY <1>1, LenProperties

\* Simple routes in the pool, from one call to another.
Steps(q) == \A i \in 1..(Len(q) - 1) : {q[i], q[i + 1]} \subseteq DOMAIN pool /\ taint!Edge(q[i], q[i + 1])

\* A route is a sequence of different calls.
LEMMA RouteTyped ==
  ASSUME NEW q \in taint!Routes
  PROVE  /\ q \in Seq(taint!Id) /\ Len(q) \in taint!Id /\ Len(q) \in Nat /\ Len(q) >= 1
         /\ q \in [1..Len(q) -> taint!Id] /\ DOMAIN q = 1..Len(q) /\ taint!IsInjective(q)
<1>1. PICK k \in taint!Id : q \in [1..k -> taint!Id] /\ taint!IsInjective(q)
  BY DEF taint!Routes
<1>2. k \in Nat /\ k >= 1
  BY TaintAssumption DEF taint!Id
<1>. QED BY <1>1, <1>2, FunctionIsSeq

\* Its calls are in the pool.
LEMMA RouteFromTyped ==
  ASSUME NEW s \in DOMAIN pool, NEW t, NEW q \in taint!RoutesFrom(s, t)
  PROVE  /\ q \in taint!Routes /\ Steps(q) /\ q[1] = s /\ q[Len(q)] = t
         /\ \A i \in 1..Len(q) : q[i] \in DOMAIN pool
<1>1. q \in taint!Routes /\ Steps(q) /\ q[1] = s /\ q[Len(q)] = t
  BY DEF taint!RoutesFrom, Steps
<1>2. Len(q) \in Nat
  BY <1>1, RouteTyped
<1>3. ASSUME NEW i \in 1..Len(q) PROVE q[i] \in DOMAIN pool
  <2>1. CASE i = 1
    BY <1>1, <2>1
  <2>2. CASE i # 1
    <3>1. i - 1 \in 1..(Len(q) - 1) /\ (i - 1) + 1 = i
      BY <1>2, <2>2
    <3>. QED BY <1>1, <3>1 DEF Steps
  <2>. QED BY <2>1, <2>2
<1>. QED BY <1>1, <1>3

\* The weight of an edge is a number.
LEMMA SquareTyped ==
  ASSUME NEW i \in taint!Id, NEW j \in taint!Id
  PROVE  taint!Square(i, j) \in Nat
<1>1. i \in Nat /\ j \in Nat
  BY TaintAssumption DEF taint!Id
<1>2. \A n \in Nat : n * n \in Nat
  OBVIOUS
<1>. QED BY <1>1, <1>2 DEF taint!Square

\* The weight of a route is a number.
LEMMA WeightTyped ==
  ASSUME NEW q \in taint!Routes
  PROVE  taint!Weight(q) \in Nat
<1>. DEFINE n == Len(q)
            sum == CHOOSE g : g = [k \in 1..n |-> IF k = 1 THEN 0 ELSE g[k - 1] + taint!Square(q[k - 1], q[k])]
            step == [k \in 1..(n - 1) |-> [w \in Nat |-> w + taint!Square(q[k], q[k + 1])]]
<1>1. n \in Nat /\ n >= 1 /\ q \in [1..n -> taint!Id]
  BY RouteTyped
<1>2. taint!Weight(q) = sum[n]
  BY DEF taint!Weight
<1>. HIDE DEF n
<1>. DEFINE m == n - 1
<1>3. m \in Nat /\ 0 \in Nat
  BY <1>1
<1>4. step \in [1..m -> [Nat -> Nat]]
  <2>1. ASSUME NEW k \in 1..m, NEW w \in Nat PROVE w + taint!Square(q[k], q[k + 1]) \in Nat
    <3>1. q[k] \in taint!Id /\ q[k + 1] \in taint!Id
      BY <1>1
    <3>. QED BY <3>1, SquareTyped
  <2>. QED BY <2>1
<1>5. PICK f \in [0..m -> Nat] : f[0] = 0 /\ \A k \in 1..m : f[k] = step[k][f[k - 1]]
  <2>. HIDE DEF step, m
  <2>1. PICK f : Recursion(f, Nat, 0, m, step)
    BY <1>3, <1>4, RecursionExists
  <2>. QED BY <2>1 DEF Recursion
<1>. DEFINE g == [k \in 1..n |-> f[k - 1]]
<1>6. g = [k \in 1..n |-> IF k = 1 THEN 0 ELSE g[k - 1] + taint!Square(q[k - 1], q[k])]
  <2>1. ASSUME NEW k \in 1..n, k # 1 PROVE g[k] = g[k - 1] + taint!Square(q[k - 1], q[k])
    <3>1. k - 1 \in 1..(n - 1) /\ k - 1 \in 1..n /\ (k - 1) - 1 \in 0..(n - 1) /\ (k - 1) + 1 = k
      BY <1>1, <2>1
    <3>2. f[(k - 1) - 1] \in Nat
      BY <1>5, <3>1
    <3>3. g[k] = step[k - 1][f[(k - 1) - 1]]
      BY <1>5, <3>1
    <3>4. g[k] = f[(k - 1) - 1] + taint!Square(q[k - 1], q[(k - 1) + 1])
      BY <3>1, <3>2, <3>3
    <3>5. g[k - 1] = f[(k - 1) - 1]
      BY <3>1
    <3>. QED BY <3>1, <3>4, <3>5
  <2>2. g[1] = 0
    BY <1>1, <1>5
  <2>. HIDE DEF step
  <2>3. ASSUME NEW k \in 1..n
        PROVE  g[k] = IF k = 1 THEN 0 ELSE g[k - 1] + taint!Square(q[k - 1], q[k])
    BY <2>1, <2>2, <2>3
  <2>4. g = [k \in 1..n |-> g[k]]
    OBVIOUS
  <2>. HIDE DEF g
  <2>. QED BY <2>3, <2>4
<1>7. sum = [k \in 1..n |-> IF k = 1 THEN 0 ELSE sum[k - 1] + taint!Square(q[k - 1], q[k])]
  <2>. HIDE DEF g
  <2>. QED BY <1>6
<1>8. ASSUME NEW k \in 1..n PROVE sum[k] \in Nat
  <2>. DEFINE T == {i \in 1..n : sum[i] \notin Nat}
  <2>1. SUFFICES ASSUME T # {} PROVE FALSE
    BY <1>8
  <2>2. T \in SUBSET Nat
    OBVIOUS
  <2>. HIDE DEF T
  <2>3. PICK i \in T : \A j \in T : i <= j
    BY <2>1, <2>2, LeastNumber
  <2>4. i \in 1..n /\ sum[i] \notin Nat
    BY <2>3 DEF T
  <2>. HIDE DEF sum
  <2>5. sum[i] = IF i = 1 THEN 0 ELSE sum[i - 1] + taint!Square(q[i - 1], q[i])
    BY <1>7, <2>4
  <2>6. i # 1
    BY <2>4, <2>5
  <2>7. i - 1 \in 1..n /\ ~(i <= i - 1)
    BY <1>1, <2>4, <2>6
  <2>8. sum[i - 1] \in Nat
    BY <2>3, <2>7 DEF T
  <2>9. taint!Square(q[i - 1], q[i]) \in Nat
    BY <1>1, <2>4, <2>7, SquareTyped
  <2>. QED BY <2>4, <2>5, <2>6, <2>8, <2>9
<1>9. n \in 1..n
  BY <1>1
<1>. HIDE DEF sum
<1>. QED BY <1>2, <1>8, <1>9

\* Of the routes from one call to another some are shortest.
LEMMA ShortestExists ==
  ASSUME NEW s, NEW t, taint!RoutesFrom(s, t) # {}
  PROVE  taint!Shortest(s, t) # {}
<1>. DEFINE W == {taint!Weight(q) : q \in taint!RoutesFrom(s, t)}
<1>1. \A q \in taint!RoutesFrom(s, t) : taint!Weight(q) \in Nat
  BY WeightTyped DEF taint!RoutesFrom
<1>2. W \in SUBSET Nat /\ W # {}
  BY <1>1
<1>3. PICK w \in W : \A v \in W : w <= v
  <2>. HIDE DEF W
  <2>. QED BY <1>2, LeastNumber
<1>. QED BY <1>3 DEF taint!Shortest

\* A route with one more step.
LEMMA RouteLonger ==
  ASSUME PoolTyped, NEW q \in taint!Routes, Steps(q), \A i \in 1..Len(q) : q[i] \in DOMAIN pool,
         NEW j \in DOMAIN pool, taint!Edge(q[Len(q)], j), \A i \in 1..Len(q) : q[i] # j
  PROVE  /\ Append(q, j) \in taint!Routes /\ Steps(Append(q, j)) /\ Len(Append(q, j)) = Len(q) + 1
         /\ Append(q, j)[1] = q[1] /\ Append(q, j)[Len(q) + 1] = j
         /\ \A i \in 1..(Len(q) + 1) : Append(q, j)[i] \in DOMAIN pool
<1>. DEFINE n == Len(q)
            r == Append(q, j)
<1>1. /\ q \in Seq(taint!Id) /\ n \in Nat /\ n >= 1 /\ q \in [1..n -> taint!Id] /\ DOMAIN q = 1..n
      /\ \A a, b \in 1..n : q[a] = q[b] => a = b
  BY RouteTyped DEF taint!IsInjective, IsInjective
<1>2. j \in taint!Id
  BY PoolFinite
<1>3. /\ r \in Seq(taint!Id) /\ Len(r) = n + 1 /\ r[n + 1] = j
      /\ \A i \in 1..n : r[i] = q[i]
  BY <1>1, <1>2, AppendProperties
<1>4. r \in [1..(n + 1) -> taint!Id] /\ DOMAIN r = 1..(n + 1)
  BY <1>3, LenProperties
<1>. HIDE DEF n, r
<1>5. ASSUME NEW i \in 1..(n + 1) PROVE r[i] \in DOMAIN pool
  <2>1. i \in 1..n \/ i = n + 1
    BY <1>1
  <2>. QED BY <1>3, <2>1 DEF n
<1>6. taint!IsInjective(r)
  <2>1. ASSUME NEW a \in 1..(n + 1), NEW b \in 1..(n + 1), r[a] = r[b] PROVE a = b
    <3>1. (a \in 1..n \/ a = n + 1) /\ (b \in 1..n \/ b = n + 1)
      BY <1>1
    <3>. QED BY <1>1, <1>3, <2>1, <3>1 DEF n
  <2>. QED BY <1>4, <2>1 DEF taint!IsInjective, IsInjective
<1>7. n + 1 \in taint!Id
  <2>1. r \in Injection(1..(n + 1), DOMAIN pool)
    <3>1. r \in [1..(n + 1) -> DOMAIN pool]
      BY <1>4, <1>5
    <3>. QED BY <1>6, <3>1 DEF Injection, IsInjective, taint!IsInjective
  <2>2. IsFiniteSet(DOMAIN pool) /\ Cardinality(DOMAIN pool) <= MaxCalls /\ Cardinality(DOMAIN pool) \in Nat
    BY PoolFinite, FS_CardinalityType
  <2>3. Cardinality(1..(n + 1)) <= Cardinality(DOMAIN pool)
    BY <2>1, <2>2, FS_Injection
  <2>4. Cardinality(1..(n + 1)) = n + 1
    <3>1. 1 \in Int /\ n + 1 \in Int /\ ~(1 > n + 1) /\ (n + 1) - 1 + 1 = n + 1
      BY <1>1
    <3>. QED BY <3>1, FS_Interval
  <2>. QED BY <1>1, <2>2, <2>3, <2>4, TaintAssumption DEF taint!Id
<1>8. r \in taint!Routes
  BY <1>4, <1>6, <1>7 DEF taint!Routes
<1>9. Steps(r)
  <2>1. ASSUME NEW i \in 1..n PROVE {r[i], r[i + 1]} \subseteq DOMAIN pool /\ taint!Edge(r[i], r[i + 1])
    <3>1. i \in 1..(n + 1) /\ i + 1 \in 1..(n + 1)
      BY <1>1
    <3>2. {r[i], r[i + 1]} \subseteq DOMAIN pool
      BY <1>5, <3>1
    <3>3. CASE i = n
      BY <1>3, <3>2, <3>3 DEF n
    <3>4. CASE i # n
      <4>1. i \in 1..(n - 1) /\ i + 1 \in 1..n
        BY <1>1, <3>4
      <4>2. taint!Edge(q[i], q[i + 1])
        BY <4>1 DEF Steps, n
      <4>. QED BY <1>3, <3>2, <4>1, <4>2
    <3>. QED BY <3>3, <3>4
  <2>2. Len(r) - 1 = n
    BY <1>1, <1>3
  <2>. QED BY <2>1, <2>2 DEF Steps
<1>10. r[1] = q[1]
  BY <1>1, <1>3
<1>. QED BY <1>3, <1>5, <1>8, <1>9, <1>10 DEF n, r

\* The first calls of a route are a route.
LEMMA RouteShorter ==
  ASSUME PoolTyped, NEW q \in taint!Routes, Steps(q), \A i \in 1..Len(q) : q[i] \in DOMAIN pool, NEW k \in 1..Len(q)
  PROVE  \E r \in taint!Routes : /\ Steps(r) /\ Len(r) = k /\ r[1] = q[1] /\ r[k] = q[k]
                           /\ \A i \in 1..Len(r) : r[i] \in DOMAIN pool
<1>. DEFINE n == Len(q)
            r == [i \in 1..k |-> q[i]]
<1>1. /\ n \in Nat /\ n \in taint!Id /\ n >= 1 /\ q \in [1..n -> taint!Id] /\ DOMAIN q = 1..n
      /\ \A a, b \in 1..n : q[a] = q[b] => a = b
  BY RouteTyped DEF taint!IsInjective, IsInjective
<1>2. k \in 1..n
  OBVIOUS
<1>. HIDE DEF n
<1>3. k \in Nat /\ k \in taint!Id /\ \A i \in 1..k : i \in 1..n
  BY <1>1, <1>2, TaintAssumption DEF taint!Id
<1>4. r \in [1..k -> taint!Id]
  BY <1>1, <1>3
<1>5. Len(r) = k /\ DOMAIN r = 1..k
  BY <1>3, <1>4, FunctionIsSeq
<1>6. \A i \in 1..k : r[i] = q[i]
  OBVIOUS
<1>. HIDE DEF r
<1>7. r \in taint!Routes
  BY <1>1, <1>3, <1>4, <1>5, <1>6 DEF taint!Routes, taint!IsInjective, IsInjective
<1>8. Steps(r)
  <2>1. ASSUME NEW i \in 1..(k - 1) PROVE {r[i], r[i + 1]} \subseteq DOMAIN pool /\ taint!Edge(r[i], r[i + 1])
    <3>1. i \in 1..(n - 1) /\ i \in 1..k /\ i + 1 \in 1..k
      BY <1>1, <1>2
    <3>. QED BY <1>6, <3>1 DEF Steps, n
  <2>. QED BY <1>5, <2>1 DEF Steps
<1>9. r[1] = q[1] /\ r[k] = q[k] /\ \A i \in 1..k : r[i] \in DOMAIN pool
  BY <1>1, <1>2, <1>3, <1>6 DEF n
<1>. QED BY <1>5, <1>7, <1>8, <1>9

\* A call that another one taints can be reached from it.
LEMMA TaintedReached ==
  ASSUME PoolTyped, NEW s \in DOMAIN pool, NEW t \in taint!Taints(s) \ {s}
  PROVE  taint!RoutesFrom(s, t) # {}
<1>. DEFINE Reaches(q, x) == /\ q \in taint!Routes /\ Steps(q) /\ q[1] = s /\ q[Len(q)] = x
                             /\ \A i \in 1..Len(q) : q[i] \in DOMAIN pool
            S == {x \in DOMAIN pool : \E q : Reaches(q, x)}
<1>1. s \in S
  <2>. DEFINE q == [i \in 1..1 |-> s]
  <2>1. s \in taint!Id /\ 1 \in taint!Id
    BY PoolFinite, TaintAssumption DEF taint!Id
  <2>2. q \in [1..1 -> taint!Id] /\ 1 \in Nat
    BY <2>1
  <2>3. Len(q) = 1 /\ DOMAIN q = 1..1
    BY <2>2, FunctionIsSeq
  <2>4. q \in taint!Routes
    BY <2>1, <2>2 DEF taint!Routes, taint!IsInjective, IsInjective
  <2>5. Reaches(q, s)
    BY <2>3, <2>4 DEF Steps
  <2>. QED BY <2>5
<1>2. ASSUME NEW i \in S, NEW j \in DOMAIN pool, taint!Edge(i, j) PROVE j \in S
  <2>1. PICK q : Reaches(q, i)
    OBVIOUS
  <2>2. CASE \A k \in 1..Len(q) : q[k] # j
    <3>1. Len(q) \in Nat /\ Len(q) >= 1
      BY <2>1, RouteTyped
    <3>2. Reaches(Append(q, j), j)
      BY <1>2, <2>1, <2>2, <3>1, RouteLonger
    <3>. QED BY <3>2
  <2>3. CASE \E k \in 1..Len(q) : q[k] = j
    <3>1. PICK k \in 1..Len(q) : q[k] = j
      BY <2>3
    <3>2. PICK r \in taint!Routes : /\ Steps(r) /\ Len(r) = k /\ r[1] = q[1] /\ r[k] = q[k]
                              /\ \A a \in 1..Len(r) : r[a] \in DOMAIN pool
      BY <2>1, RouteShorter
    <3>3. Reaches(r, j)
      BY <2>1, <3>1, <3>2
    <3>. QED BY <3>3
  <2>. QED BY <2>2, <2>3
<1>3. t \in S
  <2>1. S \in SUBSET DOMAIN pool
    OBVIOUS
  <2>. HIDE DEF S
  <2>. QED BY <1>1, <1>2, <2>1 DEF taint!Taints
<1>4. PICK q : Reaches(q, t)
  BY <1>3
<1>5. Len(q) \in Nat /\ Len(q) >= 1
  BY <1>4, RouteTyped
<1>6. 1 \in 1..(Len(q) - 1)
  BY <1>4, <1>5
<1>7. taint!Edge(s, q[2]) /\ q[2] \in DOMAIN pool
  <2>1. {q[1], q[1 + 1]} \subseteq DOMAIN pool /\ taint!Edge(q[1], q[1 + 1])
    BY <1>4, <1>6 DEF Steps
  <2>. QED BY <1>4, <2>1
<1>8. q \in taint!RoutesFrom(s, t)
  BY <1>4, <1>7 DEF taint!RoutesFrom, Steps
<1>. QED BY <1>8

\* Along a route each call taints those behind it.
LEMMA RouteTaints ==
  ASSUME PoolTyped, NEW q \in taint!Routes, Steps(q), \A i \in 1..Len(q) : q[i] \in DOMAIN pool,
         NEW i \in 1..Len(q), NEW j \in 1..Len(q), i <= j
  PROVE  q[j] \in taint!Taints(q[i])
<1>1. Len(q) \in Nat
  BY RouteTyped
<1>2. ASSUME NEW S \in SUBSET DOMAIN pool, q[i] \in S, \A a \in S, b \in DOMAIN pool : taint!Edge(a, b) => b \in S,
             q[j] \notin S
      PROVE  FALSE
  <2>. DEFINE T == {k \in i..Len(q) : q[k] \notin S}
  <2>1. T \in SUBSET Nat /\ j \in T
    BY <1>1, <1>2
  <2>2. PICK k \in T : \A l \in T : k <= l
    <3>. HIDE DEF T
    <3>. QED BY <2>1, LeastNumber
  <2>3. k # i
    BY <1>2, <2>2
  <2>4. k - 1 \in i..Len(q) /\ k - 1 \notin T /\ k - 1 \in 1..(Len(q) - 1) /\ (k - 1) + 1 = k /\ k \in 1..Len(q)
    BY <1>1, <2>2, <2>3
  <2>5. q[k - 1] \in S
    BY <2>4
  <2>6. taint!Edge(q[k - 1], q[k]) /\ q[k] \in DOMAIN pool
    BY <2>4 DEF Steps
  <2>. QED BY <1>2, <2>2, <2>5, <2>6
<1>. QED BY <1>2 DEF taint!Taints

--------------------------------------------------------------------------------
\* Numbers can be put in order.
LEMMA SortedOrder ==
  ASSUME NEW S, S \subseteq Nat, IsFiniteSet(S)
  PROVE  /\ taint!Sorted(S) \in [1..Cardinality(S) -> S] /\ Cardinality(S) \in Nat
         /\ \A i, j \in 1..Cardinality(S) : i < j => taint!Sorted(S)[i] < taint!Sorted(S)[j]
         /\ \A x \in S : \E i \in 1..Cardinality(S) : taint!Sorted(S)[i] = x
<1>. DEFINE R == {p \in Nat \X Nat : p[1] < p[2]}
            n == Cardinality(S)
            Ascends(q) == q \in [1..taint!Cardinality(S) -> S] /\ \A i, j \in DOMAIN q : i < j => q[i] < q[j]
<1>1. n \in Nat
  BY FS_CardinalityType
<1>2. \A x, y \in S : <<x, y>> \in R <=> x < y
  OBVIOUS
<1>3. PICK q : Sorting(q, S, R)
  <2>1. \A x, y, z \in S : <<x, y>> \in R /\ <<y, z>> \in R => <<x, z>> \in R
    OBVIOUS
  <2>2. \A x, y \in S : x # y => <<x, y>> \in R \/ <<y, x>> \in R
    OBVIOUS
  <2>. HIDE DEF R
  <2>. QED BY <2>1, <2>2, SortingExists
<1>. HIDE DEF R
<1>4. Ascends(q)
  <2>1. q \in [1..n -> S] /\ \A i, j \in 1..n : i < j => <<q[i], q[j]>> \in R
    BY <1>3 DEF Sorting, InRow
  <2>2. DOMAIN q = 1..n /\ \A i \in 1..n : q[i] \in S
    BY <2>1
  <2>3. taint!Cardinality(S) = n
    BY SameCardinality
  <2>. HIDE DEF n
  <2>. QED BY <1>2, <2>1, <2>2, <2>3
<1>5. taint!Sorted(S) = CHOOSE p : Ascends(p)
  BY DEF taint!Sorted, taint!Ordered
<1>6. Ascends(taint!Sorted(S))
  <2>. HIDE DEF Ascends
  <2>. QED BY <1>4, <1>5
<1>7. /\ taint!Sorted(S) \in [1..n -> S] /\ \A i \in 1..n : taint!Sorted(S)[i] \in S
      /\ \A i, j \in 1..n : i < j => taint!Sorted(S)[i] < taint!Sorted(S)[j]
  BY <1>6, SameCardinality
<1>8. \A x \in S : \E i \in 1..n : taint!Sorted(S)[i] = x
  <2>1. \A x \in S : <<x, x>> \notin R
    BY <1>2
  <2>2. \A i, j \in 1..n : i < j => <<taint!Sorted(S)[i], taint!Sorted(S)[j]>> \in R
    BY <1>2, <1>7
  <2>3. InRow(taint!Sorted(S), S, R)
    BY <1>7, <2>2 DEF InRow
  <2>4. IsFiniteSet(S)
    OBVIOUS
  <2>. QED BY ONLY <2>1, <2>3, <2>4, SortingOnto
<1>. QED BY <1>1, <1>7, <1>8

\* Stacks are not empty.
Stack == {q \in Seq(taint!Id) : Len(q) >= 1}

\* Calls of a stack, with and without the ends.
LEMMA StackTyped ==
  ASSUME NEW q \in Stack
  PROVE  /\ Len(q) \in Nat /\ Len(q) >= 1 /\ DOMAIN q = 1..Len(q) /\ q \in [1..Len(q) -> taint!Id]
         /\ taint!ToSet(q) \in SUBSET taint!Id /\ IsFiniteSet(taint!ToSet(q)) /\ taint!Last(q) \in taint!ToSet(q)
         /\ taint!ToSet(taint!Front(q)) = {q[i] : i \in 1..(Len(q) - 1)} /\ taint!ToSet(q) = taint!ToSet(taint!Front(q)) \cup {taint!Last(q)}
         /\ taint!Tail1(q) = {q[i] : i \in 2..Len(q)}
<1>. DEFINE n == Len(q)
<1>1. q \in Seq(taint!Id) /\ n \in Nat /\ n >= 1 /\ DOMAIN q = 1..n /\ q \in [1..n -> taint!Id]
  BY LenProperties DEF Stack
<1>2. taint!ToSet(q) \in SUBSET taint!Id
  BY <1>1 DEF taint!ToSet
<1>3. IsFiniteSet(taint!ToSet(q))
  <2>1. 1 \in Int /\ MaxCalls \in Int
    BY TaintAssumption
  <2>2. IsFiniteSet(taint!Id)
    BY <2>1, FS_Interval DEF taint!Id
  <2>. QED BY <1>2, <2>2, FS_Subset
<1>4. taint!Last(q) \in taint!ToSet(q)
  BY <1>1 DEF taint!Last, taint!ToSet
<1>5. /\ taint!Front(q) \in Seq(taint!Id) /\ Len(taint!Front(q)) = n - 1
      /\ \A i \in 1..(n - 1) : taint!Front(q)[i] = q[i]
  <2>1. 1 \in Int /\ n - 1 \in Int /\ \A i \in 1..(n - 1) : q[i] \in taint!Id
    BY <1>1
  <2>2. /\ SubSeq(q, 1, n - 1) \in Seq(taint!Id)
        /\ Len(SubSeq(q, 1, n - 1)) = IF 1 <= n - 1 THEN (n - 1) - 1 + 1 ELSE 0
        /\ \A i \in 1..((n - 1) - 1 + 1) : SubSeq(q, 1, n - 1)[i] = q[1 + i - 1]
    BY <2>1, SubSeqProperties
  <2>3. (n - 1) - 1 + 1 = n - 1 /\ (~(1 <= n - 1) => n - 1 = 0) /\ \A i \in 1..(n - 1) : 1 + i - 1 = i
    BY <1>1
  <2>. QED BY <2>2, <2>3 DEF taint!Front
<1>6. taint!ToSet(taint!Front(q)) = {q[i] : i \in 1..(n - 1)}
  <2>1. DOMAIN taint!Front(q) = 1..(n - 1)
    BY <1>5, LenProperties
  <2>. QED BY <1>5, <2>1 DEF taint!ToSet
<1>7. taint!ToSet(q) = taint!ToSet(taint!Front(q)) \cup {taint!Last(q)}
  <2>1. 1..n = (1..(n - 1)) \cup {n}
    BY <1>1
  <2>. QED BY <1>1, <1>6, <2>1 DEF taint!ToSet, taint!Last
<1>8. taint!Tail1(q) = {q[i] : i \in 2..n}
  <2>1. q # << >>
    BY <1>1, EmptySeq
  <2>2. Tail(q) \in Seq(taint!Id) /\ Len(Tail(q)) = n - 1 /\ \A i \in 1..Len(Tail(q)) : Tail(q)[i] = q[i + 1]
    BY <1>1, <2>1, HeadTailProperties
  <2>3. DOMAIN Tail(q) = 1..(n - 1)
    BY <2>2, LenProperties
  <2>4. taint!Tail1(q) = {q[i + 1] : i \in 1..(n - 1)}
    BY <2>2, <2>3 DEF taint!Tail1, taint!ToSet
  <2>5. ASSUME NEW i \in 2..n PROVE i - 1 \in 1..(n - 1) /\ (i - 1) + 1 = i
    BY <1>1
  <2>6. ASSUME NEW i \in 1..(n - 1) PROVE i + 1 \in 2..n
    BY <1>1
  <2>7. \A x : x \in taint!Tail1(q) => x \in {q[i] : i \in 2..n}
    BY <2>4, <2>6
  <2>8. ASSUME NEW i \in 2..n PROVE q[i] \in taint!Tail1(q)
    <3>1. q[i] = q[(i - 1) + 1] /\ i - 1 \in 1..(n - 1)
      BY <2>5
    <3>. QED BY <2>4, <3>1
  <2>. QED BY <2>7, <2>8
<1>. QED BY <1>1, <1>2, <1>3, <1>4, <1>6, <1>7, <1>8

\* Routes can become stacks.
LEMMA RouteIsStack == taint!Routes \subseteq Stack
  BY RouteTyped DEF Stack

\* Two stacks merged have the calls of both but for the sink of the second, in order.
LEMMA MergedStack ==
  ASSUME NEW p \in Stack, NEW q \in Stack, NEW m, m = taint!Sorted(taint!ToSet(p) \cup taint!ToSet(taint!Front(q)))
  PROVE  /\ m \in Stack /\ taint!ToSet(m) = taint!ToSet(p) \cup taint!ToSet(taint!Front(q))
         /\ \A i, j \in 1..Len(m) : i < j => m[i] < m[j]
<1>. DEFINE S == taint!ToSet(p) \cup taint!ToSet(taint!Front(q))
<1>1. /\ taint!ToSet(p) \in SUBSET taint!Id /\ IsFiniteSet(taint!ToSet(p)) /\ taint!ToSet(p) # {}
      /\ taint!ToSet(q) \in SUBSET taint!Id /\ IsFiniteSet(taint!ToSet(q)) /\ taint!ToSet(taint!Front(q)) \subseteq taint!ToSet(q)
  BY StackTyped
<1>2. S \subseteq taint!Id /\ IsFiniteSet(S) /\ S # {}
  <2>1. IsFiniteSet(taint!ToSet(taint!Front(q)))
    BY <1>1, FS_Subset
  <2>. QED BY <1>1, <2>1, FS_Union
<1>3. S \in SUBSET Nat
  BY <1>2, TaintAssumption DEF taint!Id
<1>. DEFINE n == Cardinality(S)
<1>4. n \in Nat /\ n >= 1
  <2>1. n \in Nat /\ n # 0
    BY <1>2, FS_CardinalityType, FS_EmptySet
  <2>. QED BY <2>1
<1>5. /\ m \in [1..n -> S]
      /\ \A i, j \in 1..n : i < j => m[i] < m[j]
      /\ \A x \in S : \E i \in 1..n : m[i] = x
  <2>. HIDE DEF S
  <2>1. m = taint!Sorted(S)
    BY DEF S
  <2>. QED BY <1>2, <1>3, <2>1, SortedOrder
<1>. HIDE DEF n, S
<1>6. m \in [1..n -> taint!Id]
  BY <1>2, <1>5
<1>7. m \in Seq(taint!Id) /\ Len(m) = n /\ DOMAIN m = 1..n
  BY <1>4, <1>6, FunctionIsSeq
<1>8. taint!ToSet(m) = S
  BY <1>5, <1>7 DEF taint!ToSet
<1>. QED BY <1>4, <1>5, <1>7, <1>8 DEF Stack, S

\* The route becomes a stack, or it joins the stack f.
Appended(new, stacks, q) ==
  /\ \A i \in 1..Len(stacks) : ~taint!SameFlow(stacks[i], q)
  /\ Len(new) = Len(stacks) + 1 /\ new[Len(stacks) + 1] = q
  /\ \A i \in 1..Len(stacks) : new[i] = stacks[i]

Extended(new, stacks, q, f) ==
  /\ taint!SameFlow(stacks[f], q) /\ Len(new) = Len(stacks)
  /\ new[f] = taint!Sorted(taint!ToSet(stacks[f]) \cup taint!ToSet(taint!Front(q)))
  /\ \A i \in 1..Len(stacks) : i # f => new[i] = stacks[i]

\* A route becomes a stack, or it joins one that has a call in common with it.
LEMMA MergeJoins ==
  ASSUME NEW stacks \in Seq(Stack), NEW q \in Stack, NEW new, new = taint!Merge(stacks, q)
  PROVE  /\ new \in Seq(Stack)
         /\ Appended(new, stacks, q) \/ \E f \in 1..Len(stacks) : Extended(new, stacks, q, f)
<1>. DEFINE same == {i \in 1..Len(stacks) : taint!SameFlow(stacks[i], q)}
            first == CHOOSE i \in same : \A j \in same : i <= j
            joined == taint!Sorted(taint!ToSet(stacks[first]) \cup taint!ToSet(taint!Front(q)))
<1>1. Len(stacks) \in Nat /\ DOMAIN stacks = 1..Len(stacks) /\ \A i \in 1..Len(stacks) : stacks[i] \in Stack
  BY LenProperties, ElementOfSeq
<1>2. new = IF same = {} THEN Append(stacks, q) ELSE [stacks EXCEPT ![first] = joined]
  BY <1>1 DEF taint!Merge
<1>3. CASE same = {}
  <2>1. new = Append(stacks, q)
    BY <1>2, <1>3
  <2>2. /\ new \in Seq(Stack) /\ Len(new) = Len(stacks) + 1
        /\ (\A i \in 1..Len(stacks) : new[i] = stacks[i]) /\ new[Len(stacks) + 1] = q
    BY <2>1, AppendProperties
  <2>. QED BY <1>1, <1>3, <2>2 DEF Appended
<1>4. CASE same # {}
  <2>1. first \in same
    <3>1. same \in SUBSET Nat
      BY <1>1
    <3>. HIDE DEF same
    <3>2. \E i \in same : \A j \in same : i <= j
      BY <1>4, <3>1, LeastNumber
    <3>. QED BY <3>2
  <2>. HIDE DEF first
  <2>2. first \in 1..Len(stacks) /\ taint!SameFlow(stacks[first], q) /\ stacks[first] \in Stack
    BY <1>1, <2>1
  <2>3. joined \in Stack
    BY <2>2, MergedStack
  <2>. HIDE DEF joined
  <2>4. new = [stacks EXCEPT ![first] = joined]
    BY <1>2, <1>4
  <2>5. /\ new \in Seq(Stack) /\ Len(new) = Len(stacks)
        /\ \A j \in 1..Len(stacks) : new[j] = IF j = first THEN joined ELSE stacks[j]
    BY <2>2, <2>3, <2>4, ExceptSeq
  <2>6. Extended(new, stacks, q, first)
    BY <2>2, <2>5 DEF Extended, joined
  <2>. QED BY <2>2, <2>5, <2>6
<1>. QED BY <1>3, <1>4

--------------------------------------------------------------------------------
\* The pairs that a route joins, and the order they are taken in.
Later(p, q) == p[1] > q[1] \/ (p[1] = q[1] /\ p[2] > q[2])

\* There are finitely many pairs of a source and a sink.
LEMMA PairsFinite ==
  ASSUME PoolTyped
  PROVE  /\ IsFiniteSet(taint!Pairs) /\ Cardinality(taint!Pairs) \in Nat
         /\ \A p \in taint!Pairs : /\ p[1] \in taint!Sources /\ p[2] \in taint!Sinks /\ p = <<p[1], p[2]>>
                             /\ p[1] \in DOMAIN pool /\ p[2] \in DOMAIN pool /\ p[1] \in Nat /\ p[2] \in Nat
                             /\ taint!RoutesFrom(p[1], p[2]) # {}
<1>1. taint!Sources \subseteq DOMAIN pool /\ taint!Sinks \subseteq DOMAIN pool /\ taint!Pairs \subseteq taint!Sources \X taint!Sinks
  BY DEF taint!Sources, taint!Sinks, taint!Pairs
<1>2. IsFiniteSet(taint!Sources) /\ IsFiniteSet(taint!Sinks)
  BY <1>1, PoolFinite, FS_Subset
<1>3. IsFiniteSet(taint!Pairs) /\ Cardinality(taint!Pairs) \in Nat
  BY <1>1, <1>2, FS_Product, FS_Subset, FS_CardinalityType
<1>4. DOMAIN pool \subseteq Nat
  BY PoolFinite, TaintAssumption DEF taint!Id
<1>. QED BY <1>1, <1>3, <1>4 DEF taint!Pairs

\* Each pair is taken, once.
LEMMA InOrderOnto ==
  ASSUME PoolTyped
  PROVE  /\ taint!InOrder \in [1..Cardinality(taint!Pairs) -> taint!Pairs] /\ Len(taint!InOrder) = Cardinality(taint!Pairs)
         /\ \A i, j \in 1..Cardinality(taint!Pairs) : i < j => taint!InOrder[i] # taint!InOrder[j]
         /\ \A p \in taint!Pairs : \E i \in 1..Cardinality(taint!Pairs) : taint!InOrder[i] = p
<1>. DEFINE R == {pq \in taint!Pairs \X taint!Pairs : Later(pq[1], pq[2])}
            n == Cardinality(taint!Pairs)
            Descends(q) == q \in [1..taint!Cardinality(taint!Pairs) -> taint!Pairs] /\ \A i, j \in DOMAIN q : i < j => Later(q[i], q[j])
<1>1. \A p, q \in taint!Pairs : <<p, q>> \in R <=> Later(p, q)
  OBVIOUS
<1>. HIDE DEF R
<1>2. ASSUME NEW p \in taint!Pairs, NEW q \in taint!Pairs
      PROVE  /\ ~Later(p, p) /\ (p # q => Later(p, q) \/ Later(q, p))
             /\ \A u \in taint!Pairs : Later(p, q) /\ Later(q, u) => Later(p, u)
  <2>1. /\ p[1] \in Nat /\ p[2] \in Nat /\ p = <<p[1], p[2]>>
        /\ q[1] \in Nat /\ q[2] \in Nat /\ q = <<q[1], q[2]>>
    BY PairsFinite
  <2>2. ~Later(p, p)
    BY <2>1 DEF Later
  <2>3. p # q => Later(p, q) \/ Later(q, p)
    BY <2>1 DEF Later
  <2>4. ASSUME NEW u \in taint!Pairs, Later(p, q), Later(q, u) PROVE Later(p, u)
    <3>1. u[1] \in Nat /\ u[2] \in Nat
      BY PairsFinite
    <3>. QED BY <2>1, <2>4, <3>1 DEF Later
  <2>. QED BY <2>2, <2>3, <2>4
<1>3. IsFiniteSet(taint!Pairs) /\ n \in Nat
  BY PairsFinite
<1>4. PICK q : Sorting(q, taint!Pairs, R)
  <2>1. \A x, y, z \in taint!Pairs : <<x, y>> \in R /\ <<y, z>> \in R => <<x, z>> \in R
    BY <1>1, <1>2
  <2>2. \A x, y \in taint!Pairs : x # y => <<x, y>> \in R \/ <<y, x>> \in R
    BY <1>1, <1>2
  <2>. QED BY <1>3, <2>1, <2>2, SortingExists
<1>5. Descends(q)
  <2>1. q \in [1..n -> taint!Pairs] /\ \A i, j \in 1..n : i < j => <<q[i], q[j]>> \in R
    BY <1>4 DEF Sorting, InRow
  <2>2. DOMAIN q = 1..n /\ \A i \in 1..n : q[i] \in taint!Pairs
    BY <2>1
  <2>3. taint!Cardinality(taint!Pairs) = n
    BY SameCardinality
  <2>. HIDE DEF n
  <2>. QED BY <1>1, <2>1, <2>2, <2>3
<1>6. Descends(taint!InOrder)
  <2>1. taint!InOrder = CHOOSE p : Descends(p)
    BY DEF taint!InOrder, taint!Ordered, Later
  <2>. HIDE DEF Descends
  <2>. QED BY <1>5, <2>1
<1>7. /\ taint!InOrder \in [1..n -> taint!Pairs] /\ \A i \in 1..n : taint!InOrder[i] \in taint!Pairs
      /\ \A i, j \in 1..n : i < j => Later(taint!InOrder[i], taint!InOrder[j])
  BY <1>6, SameCardinality
<1>8. \A p \in taint!Pairs : \E i \in 1..n : taint!InOrder[i] = p
  <2>1. \A x \in taint!Pairs : <<x, x>> \notin R
    BY <1>1, <1>2
  <2>2. \A i, j \in 1..n : i < j => <<taint!InOrder[i], taint!InOrder[j]>> \in R
    BY <1>1, <1>7
  <2>3. InRow(taint!InOrder, taint!Pairs, R)
    BY <1>7, <2>2 DEF InRow
  <2>. QED BY <1>3, <2>1, <2>3, SortingOnto
<1>9. Len(taint!InOrder) = n
  BY <1>3, <1>7, FunctionIsSeq
<1>10. \A i, j \in 1..n : i < j => taint!InOrder[i] # taint!InOrder[j]
  BY <1>2, <1>7
<1>. QED BY <1>7, <1>8, <1>9, <1>10

\* The stacks after each of the pairs.
Joined(stacks, q) == IF taint!Dropped(q) THEN stacks ELSE taint!Merge(stacks, q)

\* A route leaves stacks.
LEMMA JoinedTyped ==
  ASSUME NEW stacks \in Seq(Stack), NEW q \in Stack
  PROVE  Joined(stacks, q) \in Seq(Stack)
  BY MergeJoins DEF Joined

\* The search takes the routes one after the other.
LEMMA StacksStepwise ==
  ASSUME PoolTyped, NEW choice \in taint!Selections
  PROVE  \E done \in [0..Cardinality(taint!Pairs) -> Seq(Stack)] :
           /\ done[0] = << >> /\ taint!Stacks(choice) = done[Cardinality(taint!Pairs)]
           /\ \A k \in 1..Cardinality(taint!Pairs) : done[k] = Joined(done[k - 1], choice[taint!InOrder[k]])
<1>. DEFINE n == Cardinality(taint!Pairs)
            order == taint!InOrder
            route == [k \in 1..n |-> choice[order[k]]]
            Equation(g) == g = [k \in 0..n |-> IF k = 0 THEN << >>
                                ELSE IF taint!Dropped(choice[order[k]]) THEN g[k - 1]
                                ELSE taint!Merge(g[k - 1], choice[order[k]])]
            step == [k \in 1..n |-> [stacks \in Seq(Stack) |-> Joined(stacks, choice[order[k]])]]
<1>1. n \in Nat /\ Len(order) = n /\ order \in [1..n -> taint!Pairs]
  BY PairsFinite, InOrderOnto
<1>2. ASSUME NEW p \in taint!Pairs PROVE choice[p] \in Stack
  <2>1. choice[p] \in taint!Shortest(p[1], p[2])
    BY DEF taint!Selections
  <2>2. choice[p] \in taint!Routes
    BY <2>1 DEF taint!Shortest, taint!RoutesFrom
  <2>. QED BY <2>2, RouteIsStack
<1>3. taint!Stacks(choice) = (CHOOSE g : Equation(g))[n]
  <2>1. Len(taint!InOrder) = n
    BY <1>1
  <2>. HIDE DEF n
  <2>. QED BY <2>1 DEF taint!Stacks
<1>. HIDE DEF n, order
<1>4. \A k \in 1..n : choice[order[k]] \in Stack
  BY <1>1, <1>2
<1>5. step \in [1..n -> [Seq(Stack) -> Seq(Stack)]]
  BY <1>4, JoinedTyped
<1>6. << >> \in Seq(Stack)
  BY EmptySeq
<1>7. PICK f : Recursion(f, Seq(Stack), << >>, n, step)
  <2>. HIDE DEF step
  <2>. QED BY <1>1, <1>5, <1>6, RecursionExists
<1>8. f \in [0..n -> Seq(Stack)] /\ f[0] = << >> /\ \A k \in 1..n : f[k] = step[k][f[k - 1]]
  BY <1>7 DEF Recursion
<1>9. ASSUME NEW k \in 1..n PROVE f[k] = Joined(f[k - 1], choice[order[k]])
  <2>1. k - 1 \in 0..n
    BY <1>1
  <2>2. f[k - 1] \in Seq(Stack)
    BY <1>8, <2>1
  <2>. QED BY <1>8, <2>2
<1>. HIDE DEF step
<1>10. Equation(f)
  <2>1. ASSUME NEW k \in 0..n
        PROVE  f[k] = IF k = 0 THEN << >> ELSE IF taint!Dropped(choice[order[k]]) THEN f[k - 1]
                                               ELSE taint!Merge(f[k - 1], choice[order[k]])
    <3>1. k = 0 \/ k \in 1..n
      BY <1>1
    <3>. QED BY <1>1, <1>8, <1>9, <3>1 DEF Joined
  <2>2. f = [k \in 0..n |-> f[k]]
    BY <1>8
  <2>. QED BY <2>1, <2>2
<1>. DEFINE done == CHOOSE g : Equation(g)
<1>11. Equation(done)
  <2>. HIDE DEF Equation
  <2>. QED BY <1>10
<1>. HIDE DEF done
<1>12. DOMAIN done = 0..n /\ done = [k \in 0..n |-> done[k]] /\ done[0] = << >>
  BY <1>1, <1>11
<1>13. ASSUME NEW k \in 1..n PROVE done[k] = Joined(done[k - 1], choice[order[k]])
  <2>1. k \in 0..n /\ k # 0
    BY <1>1
  <2>. QED BY <1>11, <2>1 DEF Joined
<1>14. ASSUME NEW k \in 0..n PROVE done[k] \in Seq(Stack)
  <2>. DEFINE T == {i \in 0..n : done[i] \notin Seq(Stack)}
  <2>1. SUFFICES ASSUME T # {} PROVE FALSE
    BY <1>14
  <2>2. T \in SUBSET Nat
    BY <1>1
  <2>. HIDE DEF T
  <2>3. PICK i \in T : \A j \in T : i <= j
    BY <2>1, <2>2, LeastNumber
  <2>4. i \in 0..n /\ done[i] \notin Seq(Stack)
    BY <2>3 DEF T
  <2>5. i # 0
    BY <1>6, <1>12, <2>4
  <2>6. i - 1 \in 0..n /\ ~(i <= i - 1) /\ i \in 1..n
    BY <1>1, <2>4, <2>5
  <2>7. done[i - 1] \in Seq(Stack)
    BY <2>3, <2>6 DEF T
  <2>8. choice[order[i]] \in Stack
    BY <1>4, <2>6
  <2>. QED BY <1>13, <2>4, <2>6, <2>7, <2>8, JoinedTyped
<1>15. done \in [0..n -> Seq(Stack)]
  BY <1>12, <1>14
<1>16. taint!Stacks(choice) = done[n]
  BY <1>3 DEF done
<1>. QED BY <1>12, <1>13, <1>15, <1>16 DEF n, order

\* Some stack has the source and the sink of the route.
HasEnds(stacks, q) == \E i \in 1..Len(stacks) : {q[1], taint!Last(q)} \subseteq taint!ToSet(stacks[i])

\* A route that joins is in a stack, and the stacks keep what they have.
LEMMA JoinedKeeps ==
  ASSUME NEW stacks \in Seq(Stack), NEW q \in Stack, NEW new, new = Joined(stacks, q)
  PROVE  /\ new \in Seq(Stack) /\ Len(stacks) <= Len(new)
         /\ \A i \in 1..Len(stacks) : taint!ToSet(stacks[i]) \subseteq taint!ToSet(new[i])
         /\ ~taint!Dropped(q) => HasEnds(new, q)
<1>1. /\ Len(stacks) \in Nat /\ \A i \in 1..Len(stacks) : stacks[i] \in Stack
  BY LenProperties, ElementOfSeq
<1>2. CASE taint!Dropped(q)
  BY <1>1, <1>2 DEF Joined
<1>3. ASSUME ~taint!Dropped(q)
      PROVE  new \in Seq(Stack) /\ (Appended(new, stacks, q) \/ \E f \in 1..Len(stacks) : Extended(new, stacks, q, f))
  <2>1. new = taint!Merge(stacks, q)
    BY <1>3 DEF Joined
  <2>. QED BY <2>1, MergeJoins
<1>4. ASSUME new \in Seq(Stack), Appended(new, stacks, q)
      PROVE  /\ Len(stacks) <= Len(new)
             /\ \A i \in 1..Len(stacks) : taint!ToSet(stacks[i]) \subseteq taint!ToSet(new[i])
             /\ HasEnds(new, q)
  <2>1. /\ Len(new) = Len(stacks) + 1 /\ new[Len(new)] = q
        /\ \A i \in 1..Len(stacks) : new[i] = stacks[i]
    BY <1>4 DEF Appended
  <2>2. {q[1], taint!Last(q)} \subseteq taint!ToSet(q)
    <3>1. Len(q) \in Nat /\ Len(q) >= 1 /\ DOMAIN q = 1..Len(q) /\ taint!Last(q) \in taint!ToSet(q)
      BY StackTyped
    <3>2. 1 \in DOMAIN q
      BY <3>1
    <3>. QED BY <3>1, <3>2 DEF taint!ToSet
  <2>3. Len(new) \in 1..Len(new) /\ Len(stacks) <= Len(new)
    BY <1>1, <2>1
  <2>. QED BY <1>1, <2>1, <2>2, <2>3 DEF HasEnds
<1>5. ASSUME new \in Seq(Stack), NEW f \in 1..Len(stacks), Extended(new, stacks, q, f)
      PROVE  /\ Len(stacks) <= Len(new)
             /\ \A i \in 1..Len(stacks) : taint!ToSet(stacks[i]) \subseteq taint!ToSet(new[i])
             /\ HasEnds(new, q)
  <2>1. /\ taint!SameFlow(stacks[f], q) /\ Len(new) = Len(stacks)
        /\ new[f] = taint!Sorted(taint!ToSet(stacks[f]) \cup taint!ToSet(taint!Front(q)))
        /\ \A i \in 1..Len(stacks) : i # f => new[i] = stacks[i]
    BY <1>5 DEF Extended
  <2>2. taint!ToSet(new[f]) = taint!ToSet(stacks[f]) \cup taint!ToSet(taint!Front(q))
    BY <1>1, <2>1, MergedStack
  <2>3. \A i \in 1..Len(stacks) : taint!ToSet(stacks[i]) \subseteq taint!ToSet(new[i])
    BY <2>1, <2>2
  <2>4. q[1] \in taint!ToSet(taint!Front(q))
    <3>1. taint!Tail1(q) # {}
      BY <2>1 DEF taint!SameFlow
    <3>2. Len(q) \in Nat /\ taint!ToSet(taint!Front(q)) = {q[i] : i \in 1..(Len(q) - 1)} /\ 2..Len(q) # {}
      BY <3>1, StackTyped
    <3>3. 1 \in 1..(Len(q) - 1)
      BY <3>2
    <3>. QED BY <3>2, <3>3
  <2>5. taint!Last(q) \in taint!ToSet(stacks[f])
    BY <1>1, <2>1, StackTyped DEF taint!SameFlow
  <2>6. f \in 1..Len(new) /\ Len(stacks) <= Len(new)
    BY <1>1, <2>1
  <2>7. {q[1], taint!Last(q)} \subseteq taint!ToSet(new[f])
    BY <2>2, <2>4, <2>5
  <2>. QED BY <2>3, <2>6, <2>7 DEF HasEnds
<1>. QED BY <1>2, <1>3, <1>4, <1>5

\* The routes that were chosen.
LEMMA ChosenRoute ==
  ASSUME PoolTyped, NEW choice \in taint!Selections, NEW p \in taint!Pairs
  PROVE  choice[p] \in taint!RoutesFrom(p[1], p[2]) /\ choice[p] \in taint!Routes /\ choice[p] \in Stack
<1>1. choice[p] \in taint!Shortest(p[1], p[2])
  BY DEF taint!Selections
<1>2. choice[p] \in taint!RoutesFrom(p[1], p[2])
  BY <1>1 DEF taint!Shortest
<1>. QED BY <1>2, RouteIsStack DEF taint!RoutesFrom

\* Each route that is not dropped has its ends in a stack.
LEMMA RoutesReported ==
  ASSUME PoolTyped, NEW choice \in taint!Selections, NEW p \in taint!Pairs, ~taint!Dropped(choice[p])
  PROVE  \E i \in DOMAIN taint!Stacks(choice) : {p[1], p[2]} \subseteq taint!ToSet(taint!Stacks(choice)[i])
<1>. DEFINE n == Cardinality(taint!Pairs)
            route(k) == choice[taint!InOrder[k]]
<1>1. n \in Nat /\ taint!InOrder \in [1..n -> taint!Pairs] /\ \A k \in 1..n : taint!InOrder[k] \in taint!Pairs
  BY PairsFinite, InOrderOnto
<1>2. PICK done \in [0..n -> Seq(Stack)] :
        /\ done[0] = << >> /\ taint!Stacks(choice) = done[n]
        /\ \A k \in 1..n : done[k] = Joined(done[k - 1], route(k))
  BY StacksStepwise
<1>3. PICK j \in 1..n : taint!InOrder[j] = p
  BY InOrderOnto
<1>4. \A k \in 1..n : route(k) \in Stack
  BY <1>1, ChosenRoute
<1>. HIDE DEF n
<1>5. ASSUME NEW k \in j..n PROVE HasEnds(done[k], choice[p])
  <2>. DEFINE T == {i \in j..n : ~HasEnds(done[i], choice[p])}
  <2>1. SUFFICES ASSUME T # {} PROVE FALSE
    BY <1>5
  <2>2. T \in SUBSET Nat
    BY <1>1, <1>3
  <2>. HIDE DEF T
  <2>3. PICK i \in T : \A l \in T : i <= l
    BY <2>1, <2>2, LeastNumber
  <2>. HIDE DEF route
  <2>4. i \in j..n /\ ~HasEnds(done[i], choice[p])
    BY <2>3 DEF T
  <2>5. i \in 1..n /\ i - 1 \in 0..n /\ ~(i <= i - 1)
    BY <1>1, <1>3, <2>4
  <2>6. done[i - 1] \in Seq(Stack) /\ route(i) \in Stack /\ done[i] = Joined(done[i - 1], route(i))
    BY <1>2, <1>4, <2>5
  <2>7. i # j
    <3>1. i = j => route(i) = choice[p]
      BY <1>3 DEF route
    <3>2. ~taint!Dropped(route(i)) => HasEnds(done[i], route(i))
      BY <2>6, JoinedKeeps
    <3>. QED BY <2>4, <2>6, <3>1, <3>2
  <2>8. i - 1 \in j..n
    BY <1>1, <1>3, <2>4, <2>7
  <2>9. HasEnds(done[i - 1], choice[p])
    BY <2>3, <2>5, <2>8 DEF T
  <2>10. PICK l \in 1..Len(done[i - 1]) : {choice[p][1], taint!Last(choice[p])} \subseteq taint!ToSet(done[i - 1][l])
    BY <2>9 DEF HasEnds
  <2>11. /\ Len(done[i - 1]) <= Len(done[i]) /\ done[i] \in Seq(Stack)
         /\ taint!ToSet(done[i - 1][l]) \subseteq taint!ToSet(done[i][l])
    BY <2>6, <2>10, JoinedKeeps
  <2>12. l \in 1..Len(done[i])
    <3>1. Len(done[i - 1]) \in Nat /\ Len(done[i]) \in Nat
      BY <2>6, <2>11, LenProperties
    <3>. QED BY <2>10, <2>11, <3>1
  <2>. QED BY <2>4, <2>10, <2>11, <2>12 DEF HasEnds
<1>6. n \in j..n
  BY <1>1, <1>3
<1>7. choice[p][1] = p[1] /\ taint!Last(choice[p]) = p[2]
  BY ChosenRoute DEF taint!RoutesFrom, taint!Last
<1>8. DOMAIN taint!Stacks(choice) = 1..Len(taint!Stacks(choice))
  <2>1. taint!Stacks(choice) \in Seq(Stack)
    BY <1>1, <1>2
  <2>. QED BY <2>1, LenProperties
<1>. QED BY <1>2, <1>5, <1>6, <1>7, <1>8 DEF HasEnds

\* Stacks end at a sink, and their calls are between their sources and their sink.
Flow(m) ==
  /\ m \in Stack /\ \A i, j \in 1..Len(m) : i < j => m[i] < m[j]
  /\ taint!Last(m) \in taint!Sinks
  /\ \A x \in taint!ToSet(m) : taint!Last(m) \in taint!Taints(x) /\ \E s \in taint!ToSet(m) \cap taint!Sources : x \in taint!Taints(s)

\* A route is a flow, if every edge leads forward.
LEMMA RouteIsFlow ==
  ASSUME PoolTyped, taint!Forward, NEW s \in taint!Sources, NEW t \in taint!Sinks, NEW q \in taint!RoutesFrom(s, t)
  PROVE  Flow(q)
<1>. DEFINE n == Len(q)
<1>1. s \in DOMAIN pool
  BY DEF taint!Sources
<1>2. /\ q \in taint!Routes /\ Steps(q) /\ q[1] = s /\ q[n] = t
      /\ \A i \in 1..n : q[i] \in DOMAIN pool
  BY <1>1, RouteFromTyped
<1>3. q \in Stack /\ n \in Nat /\ n >= 1 /\ DOMAIN q = 1..n /\ q \in [1..n -> taint!Id]
  BY <1>2, RouteIsStack, RouteTyped
<1>4. \A i \in 1..n : q[i] \in Nat
  BY <1>3, TaintAssumption DEF taint!Id
<1>5. ASSUME NEW i \in 1..n, NEW j \in 1..n, i < j PROVE q[i] < q[j]
  <2>. DEFINE T == {k \in (i + 1)..n : ~(q[i] < q[k])}
  <2>1. SUFFICES ASSUME T # {} PROVE FALSE
    BY <1>5
  <2>2. T \in SUBSET Nat
    BY <1>3
  <2>3. PICK k \in T : \A l \in T : k <= l
    <3>. HIDE DEF T
    <3>. QED BY <2>1, <2>2, LeastNumber
  <2>4. k - 1 \in 1..(n - 1) /\ (k - 1) + 1 = k /\ k - 1 \in 1..n /\ k \in 1..n /\ ~(k <= k - 1)
    BY <1>3
  <2>5. q[k - 1] < q[k]
    BY <1>2, <2>4 DEF Steps, taint!Forward
  <2>6. k - 1 = i \/ q[i] < q[k - 1]
    BY <1>3, <2>3, <2>4
  <2>. QED BY <1>4, <2>3, <2>4, <2>5, <2>6
<1>6. taint!Last(q) = q[n] /\ taint!ToSet(q) = {q[i] : i \in 1..n}
  BY <1>3 DEF taint!Last, taint!ToSet
<1>7. ASSUME NEW x \in taint!ToSet(q) PROVE taint!Last(q) \in taint!Taints(x) /\ \E u \in taint!ToSet(q) \cap taint!Sources : x \in taint!Taints(u)
  <2>1. PICK i \in 1..n : x = q[i]
    BY <1>6
  <2>2. 1 \in 1..n /\ n \in 1..n /\ 1 <= i /\ i <= n
    BY <1>3
  <2>3. q[n] \in taint!Taints(q[i]) /\ q[i] \in taint!Taints(q[1])
    BY <1>2, <2>2, RouteTaints
  <2>. QED BY <1>2, <1>6, <2>1, <2>2, <2>3
<1>. QED BY <1>2, <1>3, <1>5, <1>6, <1>7 DEF Flow

\* Flows that share a call are one flow.
LEMMA MergedFlow ==
  ASSUME NEW p, Flow(p), NEW q, Flow(q), taint!SameFlow(p, q),
         NEW m, m = taint!Sorted(taint!ToSet(p) \cup taint!ToSet(taint!Front(q)))
  PROVE  Flow(m)
<1>1. p \in Stack /\ q \in Stack /\ taint!Last(p) = taint!Last(q)
  BY DEF Flow, taint!SameFlow
<1>2. m \in Stack /\ taint!ToSet(m) = taint!ToSet(p) \cup taint!ToSet(taint!Front(q)) /\ \A i, j \in 1..Len(m) : i < j => m[i] < m[j]
  BY <1>1, MergedStack
<1>3. /\ Len(p) \in Nat /\ Len(p) >= 1 /\ DOMAIN p = 1..Len(p) /\ p \in [1..Len(p) -> taint!Id]
      /\ Len(q) \in Nat /\ Len(q) >= 1 /\ DOMAIN q = 1..Len(q) /\ q \in [1..Len(q) -> taint!Id]
      /\ Len(m) \in Nat /\ Len(m) >= 1 /\ DOMAIN m = 1..Len(m) /\ m \in [1..Len(m) -> taint!Id]
      /\ taint!ToSet(taint!Front(q)) = {q[i] : i \in 1..(Len(q) - 1)} /\ taint!ToSet(q) = taint!ToSet(taint!Front(q)) \cup {taint!Last(q)}
      /\ taint!Last(p) \in taint!ToSet(p) /\ taint!Last(m) \in taint!ToSet(m)
  BY <1>1, <1>2, StackTyped
<1>4. taint!Id \subseteq Nat
  BY TaintAssumption DEF taint!Id
<1>5. ASSUME NEW x \in taint!ToSet(m) PROVE x \in Nat /\ x <= taint!Last(p)
  <2>1. CASE x \in taint!ToSet(p)
    <3>1. PICK i \in 1..Len(p) : x = p[i]
      BY <1>3, <2>1 DEF taint!ToSet
    <3>2. Len(p) \in 1..Len(p) /\ p[i] \in Nat /\ p[Len(p)] \in Nat /\ (i < Len(p) \/ i = Len(p))
      <4>1. Len(p) \in 1..Len(p) /\ (i < Len(p) \/ i = Len(p))
        <5>1. Len(p) \in Nat /\ Len(p) >= 1
          BY <1>3
        <5>. QED BY <5>1
      <4>2. p[i] \in taint!Id /\ p[Len(p)] \in taint!Id
        BY <1>3, <4>1
      <4>. QED BY <1>4, <4>1, <4>2
    <3>3. i < Len(p) => p[i] < p[Len(p)]
      BY <3>2 DEF Flow
    <3>. QED BY <3>1, <3>2, <3>3 DEF taint!Last
  <2>2. CASE x \in taint!ToSet(taint!Front(q))
    <3>1. PICK i \in 1..(Len(q) - 1) : x = q[i]
      BY <1>3, <2>2
    <3>2. i \in 1..Len(q) /\ Len(q) \in 1..Len(q) /\ i < Len(q)
      BY <1>3
    <3>3. q[i] < q[Len(q)]
      BY <3>2 DEF Flow
    <3>4. q[i] \in Nat /\ q[Len(q)] \in Nat
      <4>1. Len(q) \in Nat /\ q \in [1..Len(q) -> taint!Id] /\ Len(q) \in 1..Len(q)
        BY <1>3, <3>2
      <4>2. q[i] \in taint!Id /\ q[Len(q)] \in taint!Id
        BY <3>2, <4>1
      <4>. QED BY <1>4, <4>2
    <3>. QED BY <1>1, <3>1, <3>3, <3>4 DEF taint!Last
  <2>. QED BY <1>2, <2>1, <2>2
<1>6. taint!Last(m) = taint!Last(p)
  <2>1. PICK i \in 1..Len(m) : m[i] = taint!Last(p)
    <3>1. taint!Last(p) \in taint!ToSet(m)
      BY <1>2, <1>3
    <3>2. taint!ToSet(m) = {m[i] : i \in 1..Len(m)}
      BY <1>3 DEF taint!ToSet
    <3>. QED BY <3>1, <3>2
  <2>2. Len(m) \in 1..Len(m) /\ (i < Len(m) \/ i = Len(m))
    <3>1. Len(m) \in Nat /\ Len(m) >= 1
      BY <1>3
    <3>. QED BY <3>1
  <2>3. taint!Last(m) \in Nat /\ taint!Last(m) <= taint!Last(p) /\ taint!Last(p) \in Nat
    BY <1>2, <1>3, <1>5
  <2>4. i < Len(m) => m[i] < m[Len(m)]
    BY <1>2, <2>2
  <2>. QED BY <2>1, <2>2, <2>3, <2>4 DEF taint!Last
<1>7. ASSUME NEW x \in taint!ToSet(m) PROVE taint!Last(m) \in taint!Taints(x) /\ \E s \in taint!ToSet(m) \cap taint!Sources : x \in taint!Taints(s)
  <2>1. CASE x \in taint!ToSet(p)
    BY <1>2, <1>6, <2>1 DEF Flow
  <2>2. CASE x \in taint!ToSet(taint!Front(q))
    <3>1. x \in taint!ToSet(q)
      BY <1>3, <2>2
    <3>2. taint!Last(q) \in taint!Taints(x)
      BY <3>1 DEF Flow
    <3>3. PICK s \in taint!ToSet(q) \cap taint!Sources : x \in taint!Taints(s)
      BY <3>1 DEF Flow
    <3>4. s \in taint!ToSet(m)
      BY <1>1, <1>2, <1>3, <3>3
    <3>. QED BY <1>1, <1>6, <3>2, <3>3, <3>4
  <2>. QED BY <1>2, <2>1, <2>2
<1>8. taint!Last(m) \in taint!Sinks
  BY <1>6 DEF Flow
<1>. QED BY <1>2, <1>7, <1>8 DEF Flow

\* A flow that joins leaves flows.
LEMMA JoinedFlow ==
  ASSUME NEW stacks \in Seq(Stack), \A i \in 1..Len(stacks) : Flow(stacks[i]), NEW q, Flow(q),
         NEW new, new = Joined(stacks, q)
  PROVE  new \in Seq(Stack) /\ \A i \in 1..Len(new) : Flow(new[i])
<1>1. Len(stacks) \in Nat /\ q \in Stack
  BY LenProperties DEF Flow
<1>2. CASE taint!Dropped(q)
  BY <1>2 DEF Joined
<1>3. ASSUME ~taint!Dropped(q)
      PROVE  new \in Seq(Stack) /\ (Appended(new, stacks, q) \/ \E f \in 1..Len(stacks) : Extended(new, stacks, q, f))
  <2>1. new = taint!Merge(stacks, q)
    BY <1>3 DEF Joined
  <2>. QED BY <1>1, <2>1, MergeJoins
<1>4. ASSUME Appended(new, stacks, q) PROVE \A i \in 1..Len(new) : Flow(new[i])
  <2>1. /\ Len(new) = Len(stacks) + 1 /\ new[Len(stacks) + 1] = q
        /\ \A i \in 1..Len(stacks) : new[i] = stacks[i]
    BY <1>4 DEF Appended
  <2>2. ASSUME NEW i \in 1..Len(new) PROVE i \in 1..Len(stacks) \/ i = Len(stacks) + 1
    BY <1>1, <2>1
  <2>. QED BY <2>1, <2>2
<1>5. ASSUME NEW f \in 1..Len(stacks), Extended(new, stacks, q, f) PROVE \A i \in 1..Len(new) : Flow(new[i])
  <2>1. /\ taint!SameFlow(stacks[f], q) /\ Len(new) = Len(stacks)
        /\ new[f] = taint!Sorted(taint!ToSet(stacks[f]) \cup taint!ToSet(taint!Front(q)))
        /\ \A i \in 1..Len(stacks) : i # f => new[i] = stacks[i]
    BY <1>5 DEF Extended
  <2>2. Flow(new[f])
    BY <2>1, MergedFlow
  <2>. QED BY <2>1, <2>2
<1>. QED BY <1>2, <1>3, <1>4, <1>5

\* If every edge leads forward all stacks are flows.
LEMMA StacksFlow ==
  ASSUME PoolTyped, taint!Forward, NEW choice \in taint!Selections
  PROVE  \A i \in DOMAIN taint!Stacks(choice) : Flow(taint!Stacks(choice)[i])
<1>. DEFINE n == Cardinality(taint!Pairs)
            Flows(stacks) == stacks \in Seq(Stack) /\ \A i \in 1..Len(stacks) : Flow(stacks[i])
<1>1. n \in Nat /\ \A k \in 1..n : taint!InOrder[k] \in taint!Pairs
  BY PairsFinite, InOrderOnto
<1>2. PICK done \in [0..n -> Seq(Stack)] :
        /\ done[0] = << >> /\ taint!Stacks(choice) = done[n]
        /\ \A k \in 1..n : done[k] = Joined(done[k - 1], choice[taint!InOrder[k]])
  BY StacksStepwise
<1>3. ASSUME NEW p \in taint!Pairs PROVE Flow(choice[p])
  <2>1. p[1] \in taint!Sources /\ p[2] \in taint!Sinks /\ choice[p] \in taint!RoutesFrom(p[1], p[2])
    BY PairsFinite, ChosenRoute
  <2>. QED BY <2>1, RouteIsFlow
<1>. HIDE DEF n
<1>4. ASSUME NEW k \in 0..n PROVE Flows(done[k])
  <2>. DEFINE T == {i \in 0..n : ~Flows(done[i])}
  <2>1. SUFFICES ASSUME T # {} PROVE FALSE
    BY <1>4
  <2>2. T \in SUBSET Nat
    BY <1>1
  <2>. HIDE DEF T
  <2>3. PICK i \in T : \A l \in T : i <= l
    BY <2>1, <2>2, LeastNumber
  <2>4. i \in 0..n /\ ~Flows(done[i])
    BY <2>3 DEF T
  <2>5. Flows(<< >>)
    BY EmptySeq
  <2>. HIDE DEF Flows
  <2>6. i # 0
    BY <1>2, <2>4, <2>5
  <2>7. i \in 1..n /\ i - 1 \in 0..n /\ ~(i <= i - 1)
    BY <1>1, <2>4, <2>6
  <2>8. Flows(done[i - 1])
    BY <2>3, <2>7 DEF T
  <2>9. done[i] = Joined(done[i - 1], choice[taint!InOrder[i]]) /\ Flow(choice[taint!InOrder[i]])
    BY <1>1, <1>2, <1>3, <2>7
  <2>10. Flows(done[i])
    BY <2>8, <2>9, JoinedFlow DEF Flows
  <2>. QED BY <2>4, <2>10
<1>5. n \in 0..n
  BY <1>1
<1>6. Flows(taint!Stacks(choice))
  BY <1>2, <1>4, <1>5
<1>. QED BY <1>6, LenProperties

\* Of one source no routes are merged.
LEMMA StacksOfOneSource ==
  ASSUME PoolTyped, NEW choice \in taint!Selections, NEW x, taint!Sources = {x}
  PROVE  \A i \in DOMAIN taint!Stacks(choice) : \E p \in taint!Pairs : taint!Stacks(choice)[i] = choice[p]
<1>. DEFINE n == Cardinality(taint!Pairs)
            Before(k) == {choice[taint!InOrder[j]] : j \in 1..k}
            Unmerged(stacks, k) == stacks \in Seq(Stack) /\ \A i \in 1..Len(stacks) : stacks[i] \in Before(k)
<1>1. n \in Nat /\ (\A k \in 1..n : taint!InOrder[k] \in taint!Pairs) /\ \A i, j \in 1..n : i < j => taint!InOrder[i] # taint!InOrder[j]
  BY PairsFinite, InOrderOnto
<1>2. PICK done \in [0..n -> Seq(Stack)] :
        /\ done[0] = << >> /\ taint!Stacks(choice) = done[n]
        /\ \A k \in 1..n : done[k] = Joined(done[k - 1], choice[taint!InOrder[k]])
  BY StacksStepwise
<1>3. ASSUME NEW p \in taint!Pairs PROVE choice[p] \in Stack /\ p = <<x, p[2]>> /\ taint!Last(choice[p]) = p[2]
  <2>1. p[1] \in taint!Sources /\ p = <<p[1], p[2]>> /\ choice[p] \in taint!RoutesFrom(p[1], p[2]) /\ choice[p] \in Stack
    BY PairsFinite, ChosenRoute
  <2>2. taint!Last(choice[p]) = p[2]
    BY <2>1 DEF taint!RoutesFrom, taint!Last
  <2>3. p[1] = x
    BY <2>1
  <2>. QED BY <2>1, <2>2, <2>3
<1>. HIDE DEF n
<1>4. ASSUME NEW i \in 1..n, NEW j \in 1..n, i < j PROVE ~taint!SameFlow(choice[taint!InOrder[i]], choice[taint!InOrder[j]])
  <2>1. taint!InOrder[i] \in taint!Pairs /\ taint!InOrder[j] \in taint!Pairs /\ taint!InOrder[i] # taint!InOrder[j]
    BY <1>1, <1>4
  <2>2. taint!InOrder[i][2] # taint!InOrder[j][2]
    BY <1>3, <2>1
  <2>3. taint!Last(choice[taint!InOrder[i]]) # taint!Last(choice[taint!InOrder[j]])
    BY <1>3, <2>1, <2>2
  <2>. QED BY <2>3 DEF taint!SameFlow
<1>5. ASSUME NEW k \in 1..n, NEW stacks, Unmerged(stacks, k - 1) PROVE Unmerged(Joined(stacks, choice[taint!InOrder[k]]), k)
  <2>. DEFINE q == choice[taint!InOrder[k]]
              new == Joined(stacks, q)
  <2>1. q \in Stack /\ q \in Before(k) /\ Before(k - 1) \subseteq Before(k)
    <3>1. k \in 1..k /\ \A j \in 1..(k - 1) : j \in 1..k
      BY <1>1
    <3>. QED BY <1>1, <1>3, <3>1
  <2>2. stacks \in Seq(Stack) /\ Len(stacks) \in Nat /\ \A i \in 1..Len(stacks) : stacks[i] \in Before(k - 1)
    BY <1>5, LenProperties
  <2>3. ASSUME NEW i \in 1..Len(stacks) PROVE ~taint!SameFlow(stacks[i], q)
    <3>1. PICK j \in 1..(k - 1) : stacks[i] = choice[taint!InOrder[j]]
      BY <2>2
    <3>2. j \in 1..n /\ j < k
      BY <1>1
    <3>. QED BY <1>4, <3>1, <3>2
  <2>. HIDE DEF q, Before
  <2>4. CASE taint!Dropped(q)
    <3>1. new = stacks
      BY <2>4 DEF Joined
    <3>2. \A i \in 1..Len(stacks) : stacks[i] \in Before(k)
      BY <2>1, <2>2
    <3>. HIDE DEF new
    <3>3. Unmerged(new, k)
      BY <2>2, <3>1, <3>2
    <3>. QED BY <3>3 DEF new, q
  <2>5. CASE ~taint!Dropped(q)
    <3>1. new = taint!Merge(stacks, q)
      BY <2>5 DEF Joined
    <3>2. new \in Seq(Stack) /\ (Appended(new, stacks, q) \/ \E f \in 1..Len(stacks) : Extended(new, stacks, q, f))
      BY <2>1, <2>2, <3>1, MergeJoins
    <3>3. \A f \in 1..Len(stacks) : ~Extended(new, stacks, q, f)
      BY <2>3 DEF Extended
    <3>4. Appended(new, stacks, q)
      BY <3>2, <3>3
    <3>. HIDE DEF new
    <3>5. /\ Len(new) = Len(stacks) + 1 /\ new[Len(stacks) + 1] = q
          /\ \A i \in 1..Len(stacks) : new[i] = stacks[i]
      BY <3>4 DEF Appended
    <3>6. ASSUME NEW i \in 1..Len(new) PROVE i \in 1..Len(stacks) \/ i = Len(stacks) + 1
      BY <2>2, <3>5
    <3>7. \A i \in 1..Len(new) : new[i] \in Before(k)
      BY <2>1, <2>2, <3>5, <3>6
    <3>. QED BY <3>2, <3>7 DEF new, q
  <2>. QED BY <2>4, <2>5
<1>6. ASSUME NEW k \in 0..n PROVE Unmerged(done[k], k)
  <2>. DEFINE T == {i \in 0..n : ~Unmerged(done[i], i)}
  <2>1. SUFFICES ASSUME T # {} PROVE FALSE
    BY <1>6
  <2>2. T \in SUBSET Nat
    BY <1>1
  <2>. HIDE DEF T
  <2>3. PICK i \in T : \A l \in T : i <= l
    BY <2>1, <2>2, LeastNumber
  <2>4. i \in 0..n /\ ~Unmerged(done[i], i)
    BY <2>3 DEF T
  <2>5. Unmerged(<< >>, 0)
    BY EmptySeq
  <2>. HIDE DEF Unmerged
  <2>6. i # 0
    BY <1>2, <2>4, <2>5
  <2>7. i \in 1..n /\ i - 1 \in 0..n /\ ~(i <= i - 1)
    BY <1>1, <2>4, <2>6
  <2>8. Unmerged(done[i - 1], i - 1)
    BY <2>3, <2>7 DEF T
  <2>. QED BY <1>2, <1>5, <2>4, <2>7, <2>8
<1>7. n \in 0..n
  BY <1>1
<1>8. Unmerged(taint!Stacks(choice), n)
  BY <1>2, <1>6, <1>7
<1>. QED BY <1>1, <1>8, LenProperties

\* What the search reports.
LEMMA FlowsFound ==
  ASSUME PoolTyped, NEW choice \in taint!Selections, NEW s \in taint!Sources, NEW t \in taint!Sinks, t \in taint!Taints(s) \ {s},
         \A i \in DOMAIN pool : taint!Edge(i, t) => pool[i].ranges # "empty"
  PROVE  \E i \in DOMAIN taint!Stacks(choice) : {s, t} \subseteq taint!ToSet(taint!Stacks(choice)[i])
<1>. DEFINE p == <<s, t>>
            q == choice[p]
<1>1. s \in DOMAIN pool /\ taint!RoutesFrom(s, t) # {}
  BY TaintedReached DEF taint!Sources
<1>2. p \in taint!Pairs /\ p[1] = s /\ p[2] = t
  BY <1>1 DEF taint!Pairs
<1>. HIDE DEF p
<1>3. q \in taint!RoutesFrom(s, t)
  BY <1>2, ChosenRoute
<1>. HIDE DEF q
<1>4. q \in taint!Routes /\ Steps(q) /\ q[Len(q)] = t
  BY <1>1, <1>3, RouteFromTyped
<1>5. Len(q) \in Nat
  BY <1>4, RouteTyped
<1>6. ASSUME Len(q) > 1 PROVE pool[q[Len(q) - 1]].ranges # "empty"
  <2>1. Len(q) - 1 \in 1..(Len(q) - 1) /\ (Len(q) - 1) + 1 = Len(q)
    BY <1>5, <1>6
  <2>2. q[Len(q) - 1] \in DOMAIN pool /\ taint!Edge(q[Len(q) - 1], q[Len(q)])
    BY <1>4, <2>1 DEF Steps
  <2>. QED BY <1>4, <2>2
<1>7. ~taint!Dropped(q)
  BY <1>6 DEF taint!Dropped
<1>. QED BY <1>2, <1>7, RoutesReported DEF q

\* The steps of routes are shown, if no call is typed.
LEMMA StepsOfOneSource ==
  ASSUME PoolTyped, taint!Forward, NEW choice \in taint!Selections, Cardinality(taint!Sources) = 1,
         \A i \in DOMAIN pool : pool[i].host = "untyped",
         NEW i \in DOMAIN taint!Stacks(choice), NEW k \in 1..(Len(taint!Stacks(choice)[i]) - 1)
  PROVE  taint!Shown(taint!Stacks(choice)[i][k], taint!Stacks(choice)[i][k + 1])
<1>1. PICK x : taint!Sources = {x}
  <2>1. IsFiniteSet(taint!Sources)
    BY PoolFinite, FS_Subset DEF taint!Sources
  <2>. QED BY <2>1, FS_Singleton
<1>2. PICK p \in taint!Pairs : taint!Stacks(choice)[i] = choice[p]
  BY <1>1, StacksOfOneSource
<1>. DEFINE q == choice[p]
<1>3. p[1] \in DOMAIN pool /\ q \in taint!RoutesFrom(p[1], p[2])
  BY PairsFinite, ChosenRoute
<1>. HIDE DEF q
<1>4. Steps(q) /\ k \in 1..(Len(q) - 1)
  BY <1>2, <1>3, RouteFromTyped DEF q
<1>5. {q[k], q[k + 1]} \subseteq DOMAIN pool /\ taint!Edge(q[k], q[k + 1])
  BY <1>4 DEF Steps
<1>6. taint!Shown(q[k], q[k + 1])
  BY <1>5 DEF taint!Shown, taint!Forward, taint!Edge
<1>. QED BY <1>2, <1>6 DEF q

TaintInv == PoolTyped /\ searched \in BOOLEAN /\ (~searched => reported = << >>) /\ taint!StacksReported

\* Before the search there are no stacks.
LEMMA NoStacksRight ==
  ASSUME searched = FALSE, reported = << >>
  PROVE  taint!StacksReported
<1>1. DOMAIN reported = {}
  OBVIOUS
<1>. QED BY <1>1 DEF taint!StacksReported, taint!FlowsReported, taint!StacksAreFlows, taint!StepsShown

\* The first state, the steps of the part, and those of the others.
LEMMA TaintBegins == taint!Init => TaintInv
<1>. SUFFICES ASSUME taint!Init PROVE TaintInv
  OBVIOUS
<1>1. pool = << >> /\ searched = FALSE /\ reported = << >>
  BY DEF taint!Init
<1>2. PoolTyped
  BY <1>1, TaintAssumption, EmptySeq DEF PoolTyped
<1>. QED BY <1>1, <1>2, NoStacksRight DEF TaintInv

\* The search of a pool that stays as it is.
LEMMA SearchRight ==
  ASSUME PoolTyped, NEW choice \in taint!Selections, pool' = pool, reported' = taint!Stacks(choice)
  PROVE  taint!StacksReported'
<1>1. taint!Sources' = taint!Sources /\ taint!Sinks' = taint!Sinks
  BY DEF taint!Sources, taint!Sinks
<1>2. ASSUME NEW s PROVE taint!Taints(s)' = taint!Taints(s)
  BY DEF taint!Taints, taint!Edge
<1>3. taint!Forward' <=> taint!Forward
  BY DEF taint!Forward, taint!Edge
<1>4. taint!FlowsReported'
  <2>1. ASSUME NEW s \in taint!Sources, NEW t \in taint!Sinks, t \in taint!Taints(s) \ {s},
               \A i \in DOMAIN pool : taint!Edge(i, t)' => pool[i].ranges # "empty"
        PROVE  \E i \in DOMAIN taint!Stacks(choice) : {s, t} \subseteq taint!ToSet(taint!Stacks(choice)[i])
    <3>1. \A i \in DOMAIN pool : taint!Edge(i, t) => pool[i].ranges # "empty"
      BY <2>1 DEF taint!Edge
    <3>. QED BY <2>1, <3>1, FlowsFound
  <2>. QED BY <1>1, <1>2, <2>1 DEF taint!FlowsReported
<1>5. taint!StacksAreFlows'
  <2>1. taint!Forward => \A i \in DOMAIN reported' : Flow(reported'[i])
    BY StacksFlow
  <2>. QED BY <1>1, <1>2, <1>3, <2>1 DEF taint!StacksAreFlows, Flow
<1>6. taint!StepsShown'
  <2>1. ASSUME NEW i, NEW j, taint!Shown(i, j) PROVE taint!Shown(i, j)'
    BY <2>1 DEF taint!Shown
  <2>. QED BY <1>1, <1>3, <2>1, StepsOfOneSource, SameCardinality DEF taint!StepsShown
<1>. QED BY <1>4, <1>5, <1>6 DEF taint!StacksReported

LEMMA TaintStays == TaintInv /\ taint!Next => TaintInv'
<1>. SUFFICES ASSUME TaintInv, taint!Next PROVE TaintInv'
  OBVIOUS
<1>1. ASSUME taint!Search PROVE TaintInv'
  <2>1. pool' = pool /\ searched' = TRUE
    BY <1>1 DEF taint!Search
  <2>2. PICK choice \in taint!Selections : reported' = taint!Stacks(choice)
    BY <1>1 DEF taint!Search
  <2>3. PoolTyped /\ PoolTyped'
    BY <2>1 DEF TaintInv, PoolTyped
  <2>4. taint!StacksReported'
    BY <2>1, <2>2, <2>3, SearchRight
  <2>. QED BY <2>1, <2>3, <2>4 DEF TaintInv
<1>2. ASSUME NEW c \in Calls, taint!Record(c) PROVE TaintInv'
  <2>1. pool' = Append(pool, c) /\ searched' = FALSE /\ reported' = << >> /\ Len(pool) < MaxCalls
    BY <1>2 DEF taint!Record, TaintInv
  <2>2. PoolTyped'
    <3>1. pool \in Seq(taint!Call) /\ c \in taint!Call
      BY TaintAssumption DEF TaintInv, PoolTyped
    <3>2. Append(pool, c) \in Seq(taint!Call) /\ Len(Append(pool, c)) = Len(pool) + 1 /\ Len(pool) \in Nat
      BY <3>1, AppendProperties, LenProperties
    <3>. QED BY <2>1, <3>2, TaintAssumption DEF PoolTyped
  <2>3. taint!StacksReported'
    <3>1. DOMAIN reported' = {}
      BY <2>1
    <3>. QED BY <2>1, <3>1
         DEF taint!StacksReported, taint!FlowsReported, taint!StacksAreFlows, taint!StepsShown
  <2>. QED BY <2>1, <2>2, <2>3 DEF TaintInv
<1>. QED BY <1>1, <1>2 DEF taint!Next

LEMMA TaintRests == TaintInv /\ UNCHANGED taintVars => TaintInv'
<1>. SUFFICES ASSUME TaintInv, pool' = pool, searched' = searched, reported' = reported PROVE TaintInv'
  BY DEF taintVars
<1>1. PoolTyped' /\ searched' \in BOOLEAN /\ (~searched' => reported' = << >>)
  BY DEF TaintInv, PoolTyped
<1>2. taint!Sources' = taint!Sources /\ taint!Sinks' = taint!Sinks
  BY DEF taint!Sources, taint!Sinks
<1>3. ASSUME NEW s PROVE taint!Taints(s)' = taint!Taints(s)
  BY DEF taint!Taints, taint!Edge
<1>4. taint!Forward' <=> taint!Forward
  BY DEF taint!Forward, taint!Edge
<1>5. ASSUME NEW i, NEW j PROVE (taint!Shown(i, j)' <=> taint!Shown(i, j)) /\ (taint!Edge(i, j)' <=> taint!Edge(i, j))
  BY DEF taint!Shown, taint!Edge
<1>6. taint!FlowsReported /\ taint!StacksAreFlows /\ taint!StepsShown
  BY DEF TaintInv, taint!StacksReported
<1>7. taint!FlowsReported'
  BY <1>2, <1>3, <1>5, <1>6 DEF taint!FlowsReported
<1>8. taint!StacksAreFlows'
  BY <1>2, <1>3, <1>4, <1>6 DEF taint!StacksAreFlows
<1>9. taint!StepsShown'
  BY <1>2, <1>4, <1>5, <1>6 DEF taint!StepsShown
<1>. QED BY <1>1, <1>7, <1>8, <1>9 DEF TaintInv, taint!StacksReported

\* For any pool, hashes and choice of shortest paths: a source that taints a sink is
\* reported with it, and stacks are flows from sources to their sink whose steps users
\* are shown, so far as edges lead forward (vul_engine.py).
THEOREM StacksAlwaysReported == Spec => []StacksReported
<1>. DEFINE Safe == part = "taint" => TaintInv
<1>1. Init => Safe
  <2>1. Init /\ part = "taint" => taint!Init
    BY DEF Init
  <2>. QED BY <2>1, TaintBegins
<1>2. Safe /\ [Next]_vars => Safe'
  <2>1. [Next]_vars /\ part = "taint" => taint!Next \/ UNCHANGED taintVars
    BY DEF Next, vars
  <2>. QED BY <2>1, PartStays, TaintStays, TaintRests
<1>3. Safe => StacksReported
  BY DEF TaintInv, StacksReported
<1>. QED BY <1>1, <1>2, <1>3, PTL DEF Spec
--------------------------------------------------------------------------------
(* ReplayQueue: what is proved of the queue holds of the queue that is a part  *)
(* here.  Both instances have the same operators.                              *)

replay == INSTANCE ReplayQueue_proofs WITH
  Vul <- ReplayedVul, UserStatus <- ReplayStatus, NoVul <- None, pool <- replays,
  scan <- replayScan, logged <- verdicts

\* Each instance has its own instance of FiniteSets.
LEMMA QueueCardinality ==
  ASSUME NEW S
  PROVE  verification!Cardinality(S) = replay!Cardinality(S)
  BY DEF verification!Cardinality, replay!Cardinality

LEMMA QueueBegins == verification!Init => replay!Init
  BY DEF verification!Init, replay!Init, verification!RowId, replay!RowId, verification!NoRow,
    replay!NoRow, verification!Hit, replay!Hit, verification!IdleTask, replay!IdleTask,
    verification!IdleRecheck, replay!IdleRecheck, verification!IdleBeat, replay!IdleBeat,
    verification!IdleUpload, replay!IdleUpload, verification!IdleScan, replay!IdleScan

\* A step of one instance is a step of the other.
LEMMA QueueSteps == verification!Next => replay!Next
<1>. USE DEF verification!RowId, replay!RowId, verification!Hit, replay!Hit, verification!State, replay!State, verification!NoRow, replay!NoRow,
  verification!PendingRow, replay!PendingRow, verification!BatchSize, replay!BatchSize,
  verification!RowsOf, replay!RowsOf, verification!InState, replay!InState, verification!Exists,
  replay!Exists, verification!Moved, replay!Moved, verification!IdleTask, replay!IdleTask,
  verification!IdleRecheck, replay!IdleRecheck, verification!IdleBeat, replay!IdleBeat,
  verification!IdleUpload, replay!IdleUpload, verification!IdleScan, replay!IdleScan,
  verification!ScanOf, replay!ScanOf, verification!NextRow, replay!NextRow,
  verification!RecheckRest, replay!RecheckRest, verification!ScanRest, replay!ScanRest,
  verification!queueVars, replay!queueVars, verification!agentVars, replay!agentVars,
  verification!poolVars, replay!poolVars, verification!scanVars, replay!scanVars,
  verification!vars, replay!vars
<1>1. verification!FetchPending <=> replay!FetchPending
  BY QueueCardinality DEF verification!FetchPending, replay!FetchPending
<1>2. ASSUME NEW r PROVE verification!RecheckRaises(r) <=> replay!RecheckRaises(r)
  BY DEF verification!RecheckRaises, replay!RecheckRaises
<1>3. ASSUME NEW r PROVE verification!RecheckFails(r) <=> replay!RecheckFails(r)
  BY DEF verification!RecheckFails, replay!RecheckFails
<1>4. ASSUME NEW r PROVE verification!RecheckPrepares(r) <=> replay!RecheckPrepares(r)
  BY DEF verification!RecheckPrepares, replay!RecheckPrepares
<1>5. ASSUME NEW a PROVE verification!HeartbeatQuery(a) <=> replay!HeartbeatQuery(a)
  BY DEF verification!HeartbeatQuery, replay!HeartbeatQuery
<1>6. ASSUME NEW a PROVE verification!HeartbeatSettle(a) <=> replay!HeartbeatSettle(a)
  BY DEF verification!HeartbeatSettle, replay!HeartbeatSettle
<1>7. ASSUME NEW a PROVE verification!HeartbeatIssue(a) <=> replay!HeartbeatIssue(a)
  BY DEF verification!HeartbeatIssue, replay!HeartbeatIssue
<1>8. ASSUME NEW a PROVE verification!HeartbeatReply(a) <=> replay!HeartbeatReply(a)
  BY DEF verification!HeartbeatReply, replay!HeartbeatReply
<1>9. ASSUME NEW w, NEW r, NEW p PROVE verification!StartScan(w, r, p) <=> replay!StartScan(w, r, p)
  BY DEF verification!StartScan, replay!StartScan
<1>10. ASSUME NEW w, NEW h PROVE verification!ScanMarks(w, h) <=> replay!ScanMarks(w, h)
  BY DEF verification!ScanMarks, replay!ScanMarks
<1>11. ASSUME NEW w PROVE verification!ScanFilters(w) <=> replay!ScanFilters(w)
  BY DEF verification!ScanFilters, replay!ScanFilters
<1>12. ASSUME NEW w PROVE verification!ScanHandles(w) <=> replay!ScanHandles(w)
  BY DEF verification!ScanHandles, replay!ScanHandles
<1>13. ASSUME NEW w PROVE verification!ScanAccepts(w) <=> replay!ScanAccepts(w)
  BY DEF verification!ScanAccepts, replay!ScanAccepts
<1>14. ASSUME NEW w PROVE verification!ScanDiscards(w) <=> replay!ScanDiscards(w)
  BY DEF verification!ScanDiscards, replay!ScanDiscards
<1>15. ASSUME NEW d, NEW v PROVE verification!DetectVul(d, v) <=> replay!DetectVul(d, v)
  BY DEF verification!DetectVul, replay!DetectVul
<1>16. ASSUME NEW d PROVE verification!RequeueRow(d) <=> replay!RequeueRow(d)
  BY DEF verification!RequeueRow, replay!RequeueRow
<1>17. ASSUME NEW d PROVE verification!CreateRows(d) <=> replay!CreateRows(d)
  BY DEF verification!CreateRows, replay!CreateRows
<1>18. ASSUME NEW r PROVE verification!LoseReplay(r) <=> replay!LoseReplay(r)
  BY DEF verification!LoseReplay, replay!LoseReplay
<1>19. ASSUME NEW u, NEW r, NEW hits
       PROVE  verification!StartUpload(u, r, hits) <=> replay!StartUpload(u, r, hits)
  BY DEF verification!StartUpload, replay!StartUpload
<1>27. ASSUME NEW u PROVE verification!StoreReplay(u) <=> replay!StoreReplay(u)
  BY DEF verification!StoreReplay, replay!StoreReplay
<1>28. ASSUME NEW u PROVE verification!SettleReplay(u) <=> replay!SettleReplay(u)
  BY DEF verification!SettleReplay, replay!SettleReplay
<1>29. ASSUME NEW u PROVE verification!SendReplay(u) <=> replay!SendReplay(u)
  BY DEF verification!SendReplay, replay!SendReplay
<1>30. ASSUME NEW r PROVE verification!RecheckUnparsable(r) <=> replay!RecheckUnparsable(r)
  BY DEF verification!RecheckUnparsable, replay!RecheckUnparsable
<1>31. ASSUME NEW w PROVE verification!ScanRaises(w) <=> replay!ScanRaises(w)
  BY DEF verification!ScanRaises, replay!ScanRaises
<1>20. ASSUME NEW v PROVE verification!DeleteVul(v) <=> replay!DeleteVul(v)
  BY DEF verification!DeleteVul, replay!DeleteVul
<1>21. ASSUME NEW v, NEW s PROVE verification!ChangeStatus(v, s) <=> replay!ChangeStatus(v, s)
  BY DEF verification!ChangeStatus, replay!ChangeStatus
<1>22. ASSUME NEW b PROVE verification!SetValidation(b) <=> replay!SetValidation(b)
  BY DEF verification!SetValidation, replay!SetValidation
<1>23. verification!Crash <=> replay!Crash
  BY DEF verification!Crash, replay!Crash
<1>24. verification!VulRecheck <=> replay!VulRecheck
  BY <1>1, <1>2, <1>3, <1>4, <1>30 DEF verification!VulRecheck, replay!VulRecheck
<1>25. ASSUME NEW a PROVE verification!Heartbeat(a) <=> replay!Heartbeat(a)
  BY <1>5, <1>6, <1>7, <1>8 DEF verification!Heartbeat, replay!Heartbeat
<1>26. ASSUME NEW w PROVE verification!ReplayScan(w) <=> replay!ReplayScan(w)
  BY <1>9, <1>10, <1>11, <1>12, <1>13, <1>14, <1>31 DEF verification!ReplayScan, replay!ReplayScan
<1>. QED BY <1>15, <1>16, <1>17, <1>18, <1>19, <1>20, <1>21, <1>22, <1>23, <1>24, <1>25, <1>26, <1>27, <1>28, <1>29 DEF
  verification!Next, replay!Next

LEMMA QueueBounds == replay!QueueBounded => verification!QueueBounded
<1>1. replay!RequestPrepared => verification!RequestPrepared
  BY DEF verification!RequestPrepared, replay!RequestPrepared, verification!RowId, replay!RowId
<1>2. replay!ResentOnce => verification!ResentOnce
  BY DEF verification!ResentOnce, replay!ResentOnce, verification!RowId, replay!RowId
<1>3. ASSUME replay!RowsPerVul, NEW v \in ReplayedVul
      PROVE  verification!Cardinality(verification!RowsOf(v)) <=
               verification!Cardinality(Detector) * (IF PayloadCount[v] = 0 THEN 1 ELSE PayloadCount[v])
  <2>1. verification!RowsOf(v) = replay!RowsOf(v)
    BY DEF verification!RowsOf, replay!RowsOf, verification!RowId, replay!RowId
  <2>. QED BY <1>3, <2>1, QueueCardinality DEF replay!RowsPerVul
<1>. QED BY <1>1, <1>2, <1>3 DEF verification!QueueBounded, replay!QueueBounded, verification!RowsPerVul

\* Whatever the agents, detectors and workers do, what agents hold of the queue was built,
\* is handed out twice at most but for crashes, and detectors add one set of rows each
\* (heartbeat_handler.py, create_vul_recheck_task).
THEOREM QueueStaysBounded == Spec => []QueueBounded
<1>1. replay!Spec => []replay!QueueBounded
  <2>1. replay!IsFiniteSet(Detector)
    BY QueueAssumption DEF IsFiniteSet, replay!IsFiniteSet
  <2>. QED BY <2>1, QueueAssumption, replay!QueueAlwaysBounded, PTL
<1>. DEFINE Here == part = "queue"
<1>2. Init /\ Here => replay!Init
  BY QueueBegins DEF Init
<1>3. Here /\ [Next]_vars => [replay!Next]_replay!vars
  <2>1. Here /\ [Next]_vars => verification!Next \/ UNCHANGED queueVars
    BY DEF Next, vars
  <2>. QED BY <2>1, QueueSteps
       DEF queueVars, replay!vars, replay!queueVars, replay!agentVars, replay!poolVars, replay!scanVars
<1>4. [Next]_vars => (Here' <=> Here)
  BY PartStays
<1>5. (~Here => QueueBounded) /\ (replay!QueueBounded => QueueBounded)
  BY QueueBounds DEF QueueBounded
<1>. HIDE DEF Here
<1>. QED BY <1>1, <1>2, <1>3, <1>4, <1>5, PTL DEF Spec, replay!Spec
=================================================================================
