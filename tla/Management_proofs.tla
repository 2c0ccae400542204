--------------------------- MODULE Management_proofs ---------------------------
(* Proofs about the other components of Management, for any number of processes, *)
(* users, releases, rules and types, and any times.                              *)
EXTENDS Management, FiniteSetTheorems, NaturalsInduction, WellFoundedInduction, TLAPS

--------------------------------------------------------------------------------
(* ResultCache: whatever is stored, or about to be, was true a while ago.        *)

Longest == cache!LongestTime

CacheTyped ==
  /\ now \in 0..MaxTime /\ table \in Value
  /\ past \in [0..MaxTime -> SUBSET Value]
  /\ entry \in [value: Value, until: Nat] \cup {cache!NoEntry}
  /\ call \in [Process -> [step: {"idle", "call", "flush"}, value: Value \cup {NoKey}, since: 0..MaxTime]]
  /\ answer \in [value: Value \cup {NoKey}, at: 0..MaxTime]

\* An entry is dropped in time, counted from when its result was true.
EntryRecent == entry # cache!NoEntry =>
  \E t \in 0..now : entry.value \in past[t] /\ now <= entry.until /\ entry.until <= t + Longest + Slow

\* A call takes not too long, and its result was true since it runs.
CallsRecent == \A p \in Process :
  /\ call[p] # cache!Idle => call[p].since <= now /\ now <= call[p].since + Slow
  /\ call[p].value # NoKey => \E t \in call[p].since..now : call[p].value \in past[t]

CacheSafe ==
  /\ CacheTyped /\ EntryRecent /\ CallsRecent
  /\ table \in past[now] /\ answer.at <= now /\ cache!AnswersAreRecent

\* The longest time an entry may stay.
LEMMA LongestKnown == Longest \in Nat /\ \A n \in CacheTime : n <= Longest
  BY ManagementAssumption DEF Longest, cache!LongestTime

\* Time passes: what was true stays recorded.
LEMMA TickSafe ==
  ASSUME CacheSafe, cache!Tick
  PROVE  CacheSafe'
<1>1. /\ now < MaxTime /\ now' = now + 1
      /\ \A p \in Process : call[p] # cache!Idle => now < call[p].since + Slow
      /\ past' = [past EXCEPT ![now + 1] = {table}]
      /\ entry' = cache!NoEntry \/ (entry' = entry /\ (entry.until > now + 1 \/ entry = cache!NoEntry))
      /\ UNCHANGED <<table, call, flushes, answer>>
  <2>1. entry \in [value: Value, until: Nat] \cup {cache!NoEntry} /\ now \in Nat
    BY DEF CacheSafe, CacheTyped
  <2>. QED BY <2>1 DEF cache!Tick, cache!NoEntry
<1>2. /\ now \in 0..MaxTime /\ now + 1 \in 0..MaxTime /\ MaxTime \in Nat /\ Slow \in Nat
  BY <1>1, ManagementAssumption DEF CacheSafe, CacheTyped
<1>3. /\ past' \in [0..MaxTime -> SUBSET Value] /\ past'[now + 1] = {table}
      /\ \A t \in 0..now : past'[t] = past[t]
  BY <1>1, <1>2 DEF CacheSafe, CacheTyped
<1>4. CacheTyped'
  BY <1>1, <1>2, <1>3 DEF CacheSafe, CacheTyped
<1>5. EntryRecent'
  <2>1. SUFFICES ASSUME entry' = entry, entry # cache!NoEntry
                 PROVE  EntryRecent'
    BY <1>1 DEF EntryRecent, cache!NoEntry
  <2>2. PICK t \in 0..now : entry.value \in past[t] /\ now <= entry.until /\ entry.until <= t + Longest + Slow
    BY <2>1 DEF CacheSafe, EntryRecent
  <2>3. entry.until \in Nat /\ t \in 0..(now + 1) /\ now + 1 <= entry.until
    BY <1>1, <1>2, <2>1 DEF CacheSafe, CacheTyped
  <2>. QED BY <1>1, <1>3, <2>1, <2>2, <2>3, LongestKnown DEF EntryRecent, Longest, cache!LongestTime
<1>6. CallsRecent'
  <2>1. ASSUME NEW p \in Process, call[p] # cache!Idle
        PROVE  call[p].since <= now + 1 /\ now + 1 <= call[p].since + Slow
    BY <1>1, <1>2, <2>1 DEF CacheSafe, CacheTyped, CallsRecent
  <2>2. ASSUME NEW p \in Process, call[p].value # NoKey
        PROVE  \E t \in call[p].since..(now + 1) : call[p].value \in past'[t]
    <3>1. PICK t \in call[p].since..now : call[p].value \in past[t]
      BY <2>2 DEF CacheSafe, CallsRecent
    <3>2. call[p].since \in Nat
      BY DEF CacheSafe, CacheTyped
    <3>3. t \in 0..now /\ t \in call[p].since..(now + 1)
      BY <1>2, <3>1, <3>2
    <3>. QED BY <1>3, <3>1, <3>3
  <2>. QED BY <1>1, <2>1, <2>2 DEF CallsRecent, cache!Idle
<1>7. table' \in past'[now'] /\ answer'.at <= now'
  BY <1>1, <1>2, <1>3 DEF CacheSafe, CacheTyped
<1>8. cache!AnswersAreRecent'
  <2>1. SUFFICES ASSUME answer.value # NoKey
                 PROVE  \E t \in 0..answer.at : answer.at <= t + Longest + Slow /\ answer.value \in past'[t]
    BY <1>1 DEF cache!AnswersAreRecent, Longest, cache!LongestTime
  <2>2. PICK t \in 0..answer.at : answer.at <= t + Longest + Slow /\ answer.value \in past[t]
    BY <2>1 DEF CacheSafe, cache!AnswersAreRecent, Longest
  <2>3. t \in 0..now
    BY <1>2 DEF CacheSafe, CacheTyped
  <2>. QED BY <1>3, <2>2, <2>3
<1>. QED BY <1>4, <1>5, <1>6, <1>7, <1>8 DEF CacheSafe

\* Somebody writes what the function reads.
LEMMA WriteSafe ==
  ASSUME CacheSafe, NEW v \in Value, cache!Write(v)
  PROVE  CacheSafe'
<1>1. /\ table' = v /\ past' = [past EXCEPT ![now] = @ \cup {v}]
      /\ UNCHANGED <<now, entry, call, flushes, answer>>
  BY DEF cache!Write
<1>2. /\ past' \in [0..MaxTime -> SUBSET Value] /\ v \in past'[now]
      /\ \A t \in 0..MaxTime : past[t] \subseteq past'[t]
  BY <1>1 DEF CacheSafe, CacheTyped
<1>3. now \in 0..MaxTime /\ MaxTime \in Nat
  BY ManagementAssumption DEF CacheSafe, CacheTyped
<1>4. CacheTyped'
  BY <1>1, <1>2 DEF CacheSafe, CacheTyped
<1>5. EntryRecent'
  <2>1. SUFFICES ASSUME entry # cache!NoEntry
                 PROVE  \E t \in 0..now : entry.value \in past'[t] /\ now <= entry.until /\ entry.until <= t + Longest + Slow
    BY <1>1 DEF EntryRecent, cache!NoEntry, Longest, cache!LongestTime
  <2>2. PICK t \in 0..now : entry.value \in past[t] /\ now <= entry.until /\ entry.until <= t + Longest + Slow
    BY <2>1 DEF CacheSafe, EntryRecent
  <2>3. t \in 0..MaxTime
    BY <1>3
  <2>. QED BY <1>2, <2>2, <2>3
<1>6. CallsRecent'
  <2>1. ASSUME NEW p \in Process, call[p].value # NoKey
        PROVE  \E t \in call[p].since..now : call[p].value \in past'[t]
    <3>1. PICK t \in call[p].since..now : call[p].value \in past[t]
      BY <2>1 DEF CacheSafe, CallsRecent
    <3>2. t \in 0..MaxTime
      BY <1>3, <3>1 DEF CacheSafe, CacheTyped
    <3>. QED BY <1>2, <3>1, <3>2
  <2>. QED BY <1>1, <2>1 DEF CacheSafe, CallsRecent, cache!Idle
<1>7. cache!AnswersAreRecent'
  <2>1. SUFFICES ASSUME answer.value # NoKey
                 PROVE  \E t \in 0..answer.at : answer.at <= t + Longest + Slow /\ answer.value \in past'[t]
    BY <1>1 DEF cache!AnswersAreRecent, Longest, cache!LongestTime
  <2>2. PICK t \in 0..answer.at : answer.at <= t + Longest + Slow /\ answer.value \in past[t]
    BY <2>1 DEF CacheSafe, cache!AnswersAreRecent, Longest
  <2>3. t \in 0..MaxTime
    BY <1>3 DEF CacheSafe, CacheTyped
  <2>. QED BY <1>2, <2>2, <2>3
<1>. QED BY <1>1, <1>2, <1>4, <1>5, <1>6, <1>7 DEF CacheSafe

\* Steps of processes leave the table, its past and the time alone.
LEMMA CacheKept ==
  ASSUME CacheSafe, UNCHANGED <<now, table, past>>,
         call' \in [Process -> [step: {"idle", "call", "flush"}, value: Value \cup {NoKey}, since: 0..MaxTime]],
         \A p \in Process : call'[p] = call[p] \/ call'[p] = cache!Idle
           \/ (call'[p].since = now /\ call'[p].value = NoKey)
           \/ (call[p] # cache!Idle /\ call'[p].since = call[p].since /\ call'[p].value = table),
         entry' = entry \/ entry' = cache!NoEntry \/
           (entry' \in [value: Value, until: Nat] /\ \E t \in 0..now :
              entry'.value \in past[t] /\ now <= entry'.until /\ entry'.until <= t + Longest + Slow),
         answer' = answer \/ (answer'.at = now /\ answer'.value \in Value /\ answer' \in [value: Value, at: 0..MaxTime]
           /\ \E t \in 0..now : now <= t + Longest + Slow /\ answer'.value \in past[t])
  PROVE  CacheSafe'
<1>1. now \in Nat /\ Slow \in Nat /\ table \in past[now]
  BY ManagementAssumption DEF CacheSafe, CacheTyped
<1>2. CacheTyped'
  BY DEF CacheSafe, CacheTyped, cache!NoEntry
<1>3. EntryRecent'
  BY DEF CacheSafe, EntryRecent, cache!NoEntry, Longest, cache!LongestTime
<1>4. ASSUME NEW p \in Process
      PROVE  /\ call'[p] # cache!Idle => call'[p].since <= now /\ now <= call'[p].since + Slow
             /\ call'[p].value # NoKey => \E t \in call'[p].since..now : call'[p].value \in past[t]
  <2>1. CASE call'[p] = call[p]
    BY <2>1 DEF CacheSafe, CallsRecent
  <2>2. CASE call'[p] = cache!Idle
    BY <2>2 DEF cache!Idle
  <2>3. CASE call'[p].since = now /\ call'[p].value = NoKey
    BY <1>1, <2>3
  <2>4. CASE call[p] # cache!Idle /\ call'[p].since = call[p].since /\ call'[p].value = table
    <3>1. /\ call[p].since \in Nat /\ call[p].since <= now /\ now <= call[p].since + Slow
      BY <2>4 DEF CacheSafe, CacheTyped, CallsRecent
    <3>2. now \in call'[p].since..now
      BY <1>1, <2>4, <3>1
    <3>. QED BY <1>1, <2>4, <3>1, <3>2
  <2>. QED BY <2>1, <2>2, <2>3, <2>4
<1>5. CallsRecent'
  BY <1>4 DEF CallsRecent, cache!Idle
<1>6. answer'.at <= now
  BY <1>1 DEF CacheSafe
<1>7. cache!AnswersAreRecent'
  BY DEF CacheSafe, cache!AnswersAreRecent, Longest, cache!LongestTime
<1>. QED BY <1>1, <1>2, <1>3, <1>5, <1>6, <1>7 DEF CacheSafe

\* What the cache answers is recent enough.
LEMMA GetCacheOrCallSafe ==
  ASSUME CacheSafe, NEW p \in Process, NEW use \in BOOLEAN, cache!GetCacheOrCall(p, use)
  PROVE  CacheSafe'
<1>1. /\ call[p] = cache!Idle /\ UNCHANGED <<now, table, past, entry>>
      /\ \/ entry # cache!NoEntry /\ answer' = [value |-> entry.value, at |-> now] /\ call' = call
         \/ answer' = answer /\ call' = [call EXCEPT ![p] = [cache!Idle EXCEPT !.step = "call", !.since = now]]
  BY DEF cache!GetCacheOrCall, cache!Answer
<1>2. now \in 0..MaxTime /\ now \in Nat /\ Slow \in Nat
  BY ManagementAssumption DEF CacheSafe, CacheTyped
<1>3. CASE entry # cache!NoEntry /\ answer' = [value |-> entry.value, at |-> now] /\ call' = call
  <2>1. PICK t \in 0..now : entry.value \in past[t] /\ now <= entry.until /\ entry.until <= t + Longest + Slow
    BY <1>3 DEF CacheSafe, EntryRecent
  <2>2. entry.value \in Value /\ entry.until \in Nat
    BY <1>3 DEF CacheSafe, CacheTyped
  <2>3. /\ answer'.at = now /\ answer'.value = entry.value /\ answer' \in [value: Value, at: 0..MaxTime]
        /\ now <= t + Longest + Slow
    BY <1>2, <1>3, <2>1, <2>2, LongestKnown
  <2>4. call' \in [Process -> [step: {"idle", "call", "flush"}, value: Value \cup {NoKey}, since: 0..MaxTime]]
    BY <1>3 DEF CacheSafe, CacheTyped
  <2>. QED BY <1>1, <1>3, <2>1, <2>2, <2>3, <2>4, CacheKept
<1>4. CASE answer' = answer /\ call' = [call EXCEPT ![p] = [cache!Idle EXCEPT !.step = "call", !.since = now]]
  <2>1. PICK c : c = [cache!Idle EXCEPT !.step = "call", !.since = now]
    OBVIOUS
  <2>2. /\ c \in [step: {"idle", "call", "flush"}, value: Value \cup {NoKey}, since: 0..MaxTime]
        /\ c.since = now /\ c.value = NoKey
    BY <1>2, <2>1 DEF cache!Idle
  <2>3. /\ call' \in [Process -> [step: {"idle", "call", "flush"}, value: Value \cup {NoKey}, since: 0..MaxTime]]
        /\ \A q \in Process : call'[q] = call[q] \/ (call'[q].since = now /\ call'[q].value = NoKey)
    BY <1>4, <2>1, <2>2 DEF CacheSafe, CacheTyped
  <2>. QED BY <1>1, <1>4, <2>3, CacheKept
<1>. QED BY <1>1, <1>3, <1>4

\* A queued flush begins.
LEMMA FunctionFlushSafe ==
  ASSUME CacheSafe, NEW p \in Process, cache!FunctionFlush(p)
  PROVE  CacheSafe'
<1>1. /\ UNCHANGED <<now, table, past, entry, answer>>
      /\ call' = [call EXCEPT ![p] = [cache!Idle EXCEPT !.step = "flush", !.since = now]]
  BY DEF cache!FunctionFlush
<1>2. PICK c : c = [cache!Idle EXCEPT !.step = "flush", !.since = now]
  OBVIOUS
<1>3. /\ c \in [step: {"idle", "call", "flush"}, value: Value \cup {NoKey}, since: 0..MaxTime]
      /\ c.since = now /\ c.value = NoKey
  BY <1>2 DEF cache!Idle, CacheSafe, CacheTyped
<1>4. /\ call' \in [Process -> [step: {"idle", "call", "flush"}, value: Value \cup {NoKey}, since: 0..MaxTime]]
      /\ \A q \in Process : call'[q] = call[q] \/ (call'[q].since = now /\ call'[q].value = NoKey)
  BY <1>1, <1>2, <1>3 DEF CacheSafe, CacheTyped
<1>. QED BY <1>1, <1>4, CacheKept

\* A call returns what is true now.
LEMMA ComputeSafe ==
  ASSUME CacheSafe, NEW p \in Process, cache!Compute(p)
  PROVE  CacheSafe'
<1>1. /\ UNCHANGED <<now, table, past, entry, answer>> /\ call[p].step \in {"call", "flush"}
      /\ call' = [call EXCEPT ![p].value = table]
  BY DEF cache!Compute
<1>2. call[p] # cache!Idle
  BY <1>1 DEF cache!Idle
<1>3. /\ call' \in [Process -> [step: {"idle", "call", "flush"}, value: Value \cup {NoKey}, since: 0..MaxTime]]
      /\ call'[p].since = call[p].since /\ call'[p].value = table
      /\ \A q \in Process : q # p => call'[q] = call[q]
  BY <1>1 DEF CacheSafe, CacheTyped
<1>. QED BY <1>1, <1>2, <1>3, CacheKept

\* It is stored, for as long as the cache allows.
LEMMA CacheSetSafe ==
  ASSUME CacheSafe, NEW p \in Process, NEW t \in CacheTime, cache!CacheSet(p, t)
  PROVE  CacheSafe'
<1>1. /\ UNCHANGED <<now, table, past>> /\ call[p].value # NoKey
      /\ entry' = [value |-> call[p].value, until |-> now + t]
      /\ answer' = [value |-> call[p].value, at |-> now] \/ answer' = answer
      /\ call' = [call EXCEPT ![p] = cache!Idle]
  BY DEF cache!CacheSet, cache!Answer
<1>2. /\ now \in 0..MaxTime /\ now \in Nat /\ Slow \in Nat /\ t \in Nat
      /\ call[p] \in [step: {"idle", "call", "flush"}, value: Value \cup {NoKey}, since: 0..MaxTime]
  BY ManagementAssumption DEF CacheSafe, CacheTyped
<1>3. /\ call[p] # cache!Idle /\ call[p].value \in Value
  BY <1>1, <1>2 DEF cache!Idle
<1>4. PICK s \in call[p].since..now : call[p].value \in past[s]
  BY <1>1 DEF CacheSafe, CallsRecent
<1>5. now <= call[p].since + Slow /\ call[p].since \in Nat /\ s \in 0..now
  BY <1>2, <1>3 DEF CacheSafe, CallsRecent
<1>6. /\ now <= now + t /\ now + t <= s + Longest + Slow /\ now <= s + Longest + Slow
      /\ now + t \in Nat
  BY <1>2, <1>5, LongestKnown
<1>7. /\ entry' \in [value: Value, until: Nat]
      /\ \E x \in 0..now : entry'.value \in past[x] /\ now <= entry'.until /\ entry'.until <= x + Longest + Slow
  BY <1>1, <1>3, <1>4, <1>5, <1>6
<1>8. answer' = answer \/ (answer'.at = now /\ answer'.value \in Value /\ answer' \in [value: Value, at: 0..MaxTime]
        /\ \E x \in 0..now : now <= x + Longest + Slow /\ answer'.value \in past[x])
  BY <1>1, <1>2, <1>3, <1>4, <1>5, <1>6
<1>9. /\ call' \in [Process -> [step: {"idle", "call", "flush"}, value: Value \cup {NoKey}, since: 0..MaxTime]]
      /\ \A q \in Process : call'[q] = call[q] \/ call'[q] = cache!Idle
  BY <1>1, ManagementAssumption DEF CacheSafe, CacheTyped, cache!Idle
<1>. QED BY <1>1, <1>7, <1>8, <1>9, CacheKept

(* AnswersAreRecent: no answer of a cached function is older than an entry may stay
   and a call may take, however processes store, flush and invalidate
   (common/utils.py).                                                            *)
THEOREM AnswersAlwaysRecent == Spec => []AnswersAreRecent
<1>. DEFINE Safe == part = "cache" => CacheSafe
<1>1. Init => Safe
  <2>1. SUFFICES ASSUME cache!Init PROVE CacheSafe
    BY DEF Init
  <2>2. /\ now = 0 /\ table \in Value /\ entry = cache!NoEntry /\ answer = [value |-> NoKey, at |-> 0]
        /\ past = [t \in 0..MaxTime |-> IF t = 0 THEN {table} ELSE {}]
        /\ call = [p \in Process |-> cache!Idle] /\ 0 \in 0..MaxTime
    BY <2>1, ManagementAssumption DEF cache!Init
  <2>3. past \in [0..MaxTime -> SUBSET Value] /\ table \in past[now]
    BY <2>2
  <2>4. cache!Idle \in [step: {"idle", "call", "flush"}, value: Value \cup {NoKey}, since: 0..MaxTime]
    BY <2>2 DEF cache!Idle
  <2>5. CacheTyped
    BY <2>2, <2>3, <2>4 DEF CacheTyped
  <2>6. EntryRecent /\ CallsRecent /\ cache!AnswersAreRecent
    BY <2>2 DEF EntryRecent, CallsRecent, cache!AnswersAreRecent, cache!Idle
  <2>. QED BY <2>2, <2>3, <2>5, <2>6 DEF CacheSafe
<1>2. ASSUME CacheSafe, cache!Next \/ UNCHANGED cacheVars
      PROVE  CacheSafe'
  <2>1. CASE UNCHANGED cacheVars
    <3>1. /\ UNCHANGED <<now, table, past, entry, call, flushes, answer>>
          /\ call \in [Process -> [step: {"idle", "call", "flush"}, value: Value \cup {NoKey}, since: 0..MaxTime]]
      BY <1>2, <2>1 DEF cacheVars, CacheSafe, CacheTyped
    <3>. QED BY <1>2, <3>1, CacheKept
  <2>2. CASE cache!DisableCache
    <3>1. /\ UNCHANGED <<now, table, past, call, flushes, answer>> /\ entry' = cache!NoEntry
          /\ call \in [Process -> [step: {"idle", "call", "flush"}, value: Value \cup {NoKey}, since: 0..MaxTime]]
      BY <1>2, <2>2 DEF cache!DisableCache, CacheSafe, CacheTyped
    <3>. QED BY <1>2, <3>1, CacheKept
  <2>3. CASE \/ cache!Tick \/ \E v \in Value : cache!Write(v)
             \/ \E p \in Process : \/ \E use \in BOOLEAN : cache!GetCacheOrCall(p, use)
                                   \/ cache!FunctionFlush(p) \/ cache!Compute(p)
                                   \/ \E t \in CacheTime : cache!CacheSet(p, t)
    BY <1>2, <2>3, TickSafe, WriteSafe, GetCacheOrCallSafe, FunctionFlushSafe, ComputeSafe, CacheSetSafe
  <2>. QED BY <1>2, <2>1, <2>2, <2>3 DEF cache!Next
<1>3. Safe /\ [Next]_vars => Safe'
  BY <1>2 DEF Next, vars
<1>4. Safe => AnswersAreRecent
  BY DEF CacheSafe, AnswersAreRecent
<1>. QED BY <1>1, <1>3, <1>4, PTL DEF Spec

--------------------------------------------------------------------------------
(* StrategyRelease: the row a type is bound to is its first one.                 *)

BinderOf == [at: {"look", "create"}, todo: SUBSET Type, release: Nat, type: Type \cup {None},
             found: [Type -> Nat \cup {None}], alone: BOOLEAN]

TypesTyped ==
  /\ typeRelease \in DOMAIN TypeReleases
  /\ rows \in Seq([type: Type, system: BOOLEAN, text: Nat])
  /\ binder \in [Process -> BinderOf \cup {typeload!Idle}]
  /\ bound \in [Type -> Nat \cup {None}]

\* i is the first row of the system for the type.
Least(t, i) == i \in typeload!Of(t, TRUE) /\ \A j \in typeload!Of(t, TRUE) : i <= j

\* ... and in the next state.
LeastNext(t, i) == i \in typeload!Of(t, TRUE)' /\ \A j \in typeload!Of(t, TRUE)' : i <= j

BoundLeast == \A t \in Type : bound[t] # None => Least(t, bound[t])

\* A load that meets no other is the only one, and creates a type only that is not there.
LoadsAlone == \A p \in Process : binder[p] # typeload!Idle /\ binder[p].alone =>
  /\ \A q \in Process : q # p => binder[q] = typeload!Idle
  /\ binder[p].at = "create" => typeload!Of(binder[p].type, TRUE) = {}
  /\ \A t \in Type : binder[p].found[t] # None => Least(t, binder[p].found[t])

CreatesType == \A p \in Process :
  binder[p] # typeload!Idle /\ binder[p].at = "create" => binder[p].type \in Type

TypesSafe == TypesTyped /\ BoundLeast /\ LoadsAlone /\ CreatesType

\* There is a first one of some numbers.
LEMMA LeastOf ==
  ASSUME NEW S \in SUBSET Nat, S # {}
  PROVE  \E i \in S : \A j \in S : i <= j
<1>1. PICK x \in S : \A y \in S : ~(<<y, x>> \in OpToRel(<, Nat))
  BY NatLessThanWellFounded, WFMin
<1>2. \A y \in S : ~(y < x)
  BY <1>1 DEF OpToRel
<1>. QED BY <1>2

\* The rows of a type are numbers.
LEMMA RowsOf ==
  ASSUME TypesTyped, NEW t, NEW b
  PROVE  /\ typeload!Of(t, b) \subseteq 1..Len(rows) /\ Len(rows) \in Nat
         /\ \A i : i \in typeload!Of(t, b) <=> i \in 1..Len(rows) /\ rows[i].type = t /\ rows[i].system = b
  BY DEF TypesTyped, typeload!Of

\* ... and the same in the next state.
LEMMA RowsOfNext ==
  ASSUME TypesTyped', NEW t, NEW b
  PROVE  \A i : i \in typeload!Of(t, b)' <=> i \in 1..Len(rows') /\ rows'[i].type = t /\ rows'[i].system = b
  BY DEF TypesTyped, typeload!Of

\* Rows that come later leave the first one first.
LEMMA LeastStays ==
  ASSUME TypesTyped, TypesTyped', Len(rows) <= Len(rows'),
         \A j \in 1..Len(rows) : rows'[j].type = rows[j].type /\ rows'[j].system = rows[j].system,
         NEW t, NEW i, Least(t, i)
  PROVE  LeastNext(t, i)
<1>1. \A j : j \in typeload!Of(t, TRUE) <=> j \in 1..Len(rows) /\ rows[j].type = t /\ rows[j].system = TRUE
  BY RowsOf
<1>2. \A j : j \in typeload!Of(t, TRUE)' <=> j \in 1..Len(rows') /\ rows'[j].type = t /\ rows'[j].system = TRUE
  BY RowsOfNext
<1>3. Len(rows) \in Nat /\ Len(rows') \in Nat
  BY DEF TypesTyped
<1>4. i \in typeload!Of(t, TRUE) /\ \A j \in typeload!Of(t, TRUE) : i <= j
  BY DEF Least
<1>5. i \in 1..Len(rows) /\ i \in typeload!Of(t, TRUE)'
  <2>1. i \in 1..Len(rows) /\ rows[i].type = t /\ rows[i].system = TRUE
    BY <1>1, <1>4
  <2>2. i \in 1..Len(rows')
    BY <1>3, <2>1
  <2>3. rows'[i].type = t
    BY <2>1
  <2>4. rows'[i].system = TRUE
    BY <2>1
  <2>. QED BY <1>2, <2>1, <2>2, <2>3, <2>4
<1>6. ASSUME NEW j \in typeload!Of(t, TRUE)'
      PROVE  i <= j
  <2>1. CASE j \in 1..Len(rows)
    BY <1>1, <1>2, <1>4, <1>6, <2>1
  <2>2. CASE j \notin 1..Len(rows)
    <3>1. j \in 1..Len(rows')
      BY <1>2, <1>6
    <3>. QED BY <1>3, <1>5, <2>2, <3>1
  <2>. QED BY <2>1, <2>2
<1>. QED BY <1>5, <1>6 DEF LeastNext

\* Where no type gets a row of the system, none has one that had none.
LEMMA NoneStays ==
  ASSUME TypesTyped, TypesTyped', NEW t, typeload!Of(t, TRUE) = {},
         \A j \in 1..Len(rows') : /\ rows'[j].system = TRUE
                                  => j \in 1..Len(rows) /\ rows'[j].type = rows[j].type /\ rows[j].system = TRUE
  PROVE  typeload!Of(t, TRUE)' = {}
<1>1. \A j : j \in typeload!Of(t, TRUE) <=> j \in 1..Len(rows) /\ rows[j].type = t /\ rows[j].system = TRUE
  BY RowsOf
<1>2. \A j : j \in typeload!Of(t, TRUE)' <=> j \in 1..Len(rows') /\ rows'[j].type = t /\ rows'[j].system = TRUE
  BY RowsOfNext
<1>. QED BY <1>1, <1>2

(* A step that brings no row of the system: users, and loads that look, end or
   are stopped.                                                                  *)
LEMMA TypesKept ==
  ASSUME TypesSafe, TypesTyped', UNCHANGED bound, Len(rows) <= Len(rows'),
         \A j \in 1..Len(rows) : rows'[j].type = rows[j].type /\ rows'[j].system = rows[j].system,
         \A j \in 1..Len(rows') : rows'[j].system = TRUE => j \in 1..Len(rows),
         UNCHANGED binder
  PROVE  TypesSafe'
<1>1. \A t, i : Least(t, i) => LeastNext(t, i)
  BY LeastStays DEF TypesSafe
<1>2. \A t : typeload!Of(t, TRUE) = {} => typeload!Of(t, TRUE)' = {}
  BY NoneStays DEF TypesSafe
<1>3. BoundLeast'
  BY <1>1 DEF TypesSafe, BoundLeast, Least, LeastNext
<1>4. LoadsAlone'
  BY <1>1, <1>2 DEF TypesSafe, LoadsAlone, Least, LeastNext
<1>. QED BY <1>3, <1>4 DEF TypesSafe, CreatesType

\* A step of a load that is under way.
LEMMA BinderMoves ==
  ASSUME TypesSafe, TypesTyped', NEW p \in Process, binder[p] # typeload!Idle,
         NEW l, binder' = [binder EXCEPT ![p] = l],
         \A t \in Type : bound'[t] # None => LeastNext(t, bound'[t]),
         l = typeload!Idle \/
           /\ l.at = "create" => l.type \in Type
           /\ l.alone => /\ binder[p].alone
                         /\ l.at = "create" => typeload!Of(l.type, TRUE)' = {}
                         /\ \A t \in Type : l.found[t] # None => LeastNext(t, l.found[t])
  PROVE  TypesSafe'
<1>1. binder'[p] = l /\ \A q \in Process : q # p => binder'[q] = binder[q]
  BY DEF TypesSafe, TypesTyped
<1>2. BoundLeast'
  BY DEF BoundLeast, Least, LeastNext
<1>3. CreatesType'
  BY <1>1 DEF TypesSafe, CreatesType, typeload!Idle
<1>4. ASSUME NEW q \in Process, NEW m, m = binder'[q], m # typeload!Idle, m.alone
      PROVE  /\ q = p /\ \A x \in Process : x # q => binder'[x] = typeload!Idle
             /\ m.at = "create" => typeload!Of(m.type, TRUE)' = {}
             /\ \A t \in Type : m.found[t] # None => LeastNext(t, m.found[t])
  <2>1. q = p
    BY <1>1, <1>4 DEF TypesSafe, LoadsAlone
  <2>2. m = l /\ l # typeload!Idle /\ l.alone
    BY <1>1, <1>4, <2>1
  <2>3. \A x \in Process : x # p => binder[x] = typeload!Idle
    BY <2>2 DEF TypesSafe, LoadsAlone
  <2>. QED BY <1>1, <2>1, <2>2, <2>3
<1>5. LoadsAlone'
  BY <1>4 DEF LoadsAlone, typeload!Idle, Least, LeastNext
<1>. QED BY <1>2, <1>3, <1>5 DEF TypesSafe

\* Rows that are updated or added keep what was first.
LEMMA BoundStays ==
  ASSUME TypesSafe, TypesTyped', UNCHANGED bound, Len(rows) <= Len(rows'),
         \A j \in 1..Len(rows) : rows'[j].type = rows[j].type /\ rows'[j].system = rows[j].system
  PROVE  /\ \A t, i : Least(t, i) => LeastNext(t, i)
         /\ \A t \in Type : bound'[t] # None => LeastNext(t, bound'[t])
<1>1. \A t, i : Least(t, i) => LeastNext(t, i)
  BY LeastStays DEF TypesSafe
<1>. QED BY <1>1 DEF TypesSafe, BoundLeast

\* Positions are numbers.
LEMMA NumbersOf ==
  ASSUME NEW n \in Nat, NEW S, S \subseteq 1..n
  PROVE  S \in SUBSET Nat
  OBVIOUS

\* The elements of a sequence.
LEMMA ElementOf ==
  ASSUME NEW S, NEW s \in Seq(S), NEW i \in 1..Len(s)
  PROVE  s[i] \in S
  OBVIOUS

\* The texts of a strategy are written anew, in rows of the system.
LEMMA RowsUpdated ==
  ASSUME TypesTyped, NEW t \in Type, NEW text \in Nat, rows' = typeload!Updated(t, text)
  PROVE  /\ rows' \in Seq([type: Type, system: BOOLEAN, text: Nat]) /\ Len(rows') = Len(rows)
         /\ \A j \in 1..Len(rows) : /\ rows'[j].type = rows[j].type /\ rows'[j].system = rows[j].system
                                    /\ ~rows[j].system => rows'[j] = rows[j]
<1>1. rows \in Seq([type: Type, system: BOOLEAN, text: Nat]) /\ Len(rows) \in Nat /\ DOMAIN rows = 1..Len(rows)
  BY DEF TypesTyped
<1>2. /\ DOMAIN rows' = 1..Len(rows)
      /\ \A j \in 1..Len(rows) : \/ rows'[j] = rows[j]
                                 \/ j \in typeload!Of(t, TRUE) /\ rows'[j] = [rows[j] EXCEPT !.text = text]
  BY <1>1 DEF typeload!Updated
<1>3. ASSUME NEW j \in 1..Len(rows)
      PROVE  /\ rows'[j] \in [type: Type, system: BOOLEAN, text: Nat]
             /\ rows'[j].type = rows[j].type /\ rows'[j].system = rows[j].system
             /\ ~rows[j].system => rows'[j] = rows[j]
  <2>1. rows[j] \in [type: Type, system: BOOLEAN, text: Nat]
    BY <1>1, ElementOf
  <2>2. CASE rows'[j] = rows[j]
    BY <2>1, <2>2
  <2>3. CASE j \in typeload!Of(t, TRUE) /\ rows'[j] = [rows[j] EXCEPT !.text = text]
    BY <2>1, <2>3 DEF typeload!Of
  <2>. QED BY <1>2, <2>2, <2>3
<1>4. rows' = [j \in 1..Len(rows) |-> rows'[j]]
  BY <1>1 DEF typeload!Updated
<1>5. rows' \in Seq([type: Type, system: BOOLEAN, text: Nat]) /\ Len(rows') = Len(rows)
  BY <1>1, <1>3, <1>4
<1>. QED BY <1>3, <1>5

\* A load looks at a type: it adopts the first row, leaves the type, or will create it.
LEMMA LookSafe ==
  ASSUME TypesSafe, NEW p \in Process, typeload!Look(p)
  PROVE  TypesSafe' /\ UNCHANGED bound /\ \A i \in DOMAIN rows : ~rows[i].system => rows'[i] = rows[i]
<1>1. /\ binder[p] # typeload!Idle /\ binder[p].at = "look" /\ UNCHANGED <<typeRelease, bound, loads>>
  BY DEF typeload!Look
<1>2. PICK t \in binder[p].todo :
        \/ /\ typeload!Of(t, TRUE) # {} /\ rows' = typeload!Updated(t, binder[p].release)
           /\ binder' = [binder EXCEPT ![p] = [binder[p] EXCEPT !.todo = @ \ {t}, !.type = t,
                           !.found[t] = typeload!Oldest(typeload!Of(t, TRUE))]]
        \/ /\ rows' = rows
           /\ binder' = [binder EXCEPT ![p] = [binder[p] EXCEPT !.todo = @ \ {t}, !.type = t]]
        \/ /\ typeload!Of(t, TRUE) = {} /\ rows' = rows
           /\ binder' = [binder EXCEPT ![p] = [binder[p] EXCEPT !.todo = @ \ {t}, !.type = t, !.at = "create"]]
  BY DEF typeload!Look
<1>3. /\ binder \in [Process -> BinderOf \cup {typeload!Idle}] /\ binder[p] \in BinderOf
      /\ t \in Type /\ rows \in Seq([type: Type, system: BOOLEAN, text: Nat])
      /\ typeRelease' = typeRelease /\ bound' = bound
  BY <1>1, <1>2 DEF TypesSafe, TypesTyped, BinderOf
<1>4. CASE /\ typeload!Of(t, TRUE) # {} /\ rows' = typeload!Updated(t, binder[p].release)
           /\ binder' = [binder EXCEPT ![p] = [binder[p] EXCEPT !.todo = @ \ {t}, !.type = t,
                           !.found[t] = typeload!Oldest(typeload!Of(t, TRUE))]]
  <2>1. PICK i : i = typeload!Oldest(typeload!Of(t, TRUE))
    OBVIOUS
  <2>2. Least(t, i) /\ i \in Nat
    <3>1. typeload!Of(t, TRUE) \in SUBSET Nat
      <4>1. typeload!Of(t, TRUE) \subseteq 1..Len(rows) /\ Len(rows) \in Nat
        BY RowsOf DEF TypesSafe
      <4>. QED BY <4>1, NumbersOf
    <3>2. \E j \in typeload!Of(t, TRUE) : \A k \in typeload!Of(t, TRUE) : j <= k
      BY <1>4, <3>1, LeastOf
    <3>. QED BY <2>1, <3>1, <3>2 DEF typeload!Oldest, Least
  <2>3. PICK l : l = [binder[p] EXCEPT !.todo = @ \ {t}, !.type = t, !.found[t] = i]
    OBVIOUS
  <2>4. /\ l \in BinderOf /\ l.type = t /\ l.at = "look" /\ l.alone = binder[p].alone
        /\ l.found[t] = i /\ \A s \in Type : s # t => l.found[s] = binder[p].found[s]
    BY <1>1, <1>3, <2>2, <2>3 DEF BinderOf
  <2>5. binder' = [binder EXCEPT ![p] = l] /\ binder[p].release \in Nat
    BY <1>3, <1>4, <2>1, <2>3 DEF BinderOf
  <2>6. /\ rows' \in Seq([type: Type, system: BOOLEAN, text: Nat]) /\ Len(rows') = Len(rows)
        /\ \A j \in 1..Len(rows) : /\ rows'[j].type = rows[j].type /\ rows'[j].system = rows[j].system
                                   /\ ~rows[j].system => rows'[j] = rows[j]
    BY <1>3, <1>4, <2>5, RowsUpdated DEF TypesSafe
  <2>7. TypesTyped'
    BY <1>3, <2>4, <2>5, <2>6 DEF TypesSafe, TypesTyped
  <2>8. /\ \A s, j : Least(s, j) => LeastNext(s, j)
        /\ \A s \in Type : bound'[s] # None => LeastNext(s, bound'[s])
    <3>1. Len(rows) <= Len(rows')
      BY <1>3, <2>6
    <3>. QED BY <1>3, <2>6, <2>7, <3>1, BoundStays
  <2>9. l.alone => \A s \in Type : l.found[s] # None => LeastNext(s, l.found[s])
    BY <1>1, <2>2, <2>4, <2>8 DEF TypesSafe, LoadsAlone
  <2>10. TypesSafe'
    BY <1>1, <2>4, <2>5, <2>7, <2>8, <2>9, BinderMoves
  <2>. QED BY <1>3, <2>6, <2>10
<1>5. CASE /\ rows' = rows
           /\ \/ binder' = [binder EXCEPT ![p] = [binder[p] EXCEPT !.todo = @ \ {t}, !.type = t]]
              \/ /\ typeload!Of(t, TRUE) = {}
                 /\ binder' = [binder EXCEPT ![p] = [binder[p] EXCEPT !.todo = @ \ {t}, !.type = t, !.at = "create"]]
  <2>1. PICK l : /\ binder' = [binder EXCEPT ![p] = l]
                 /\ \/ l = [binder[p] EXCEPT !.todo = @ \ {t}, !.type = t]
                    \/ /\ typeload!Of(t, TRUE) = {}
                       /\ l = [binder[p] EXCEPT !.todo = @ \ {t}, !.type = t, !.at = "create"]
    BY <1>5
  <2>2. /\ l \in BinderOf /\ l.type = t /\ l.alone = binder[p].alone /\ l.found = binder[p].found
        /\ l.at = "create" => typeload!Of(t, TRUE) = {}
    <3>1. CASE l = [binder[p] EXCEPT !.todo = @ \ {t}, !.type = t]
      BY <1>1, <1>3, <3>1 DEF BinderOf
    <3>2. CASE typeload!Of(t, TRUE) = {} /\ l = [binder[p] EXCEPT !.todo = @ \ {t}, !.type = t, !.at = "create"]
      BY <1>1, <1>3, <3>2 DEF BinderOf
    <3>. QED BY <2>1, <3>1, <3>2
  <2>3. TypesTyped'
    BY <1>3, <1>5, <2>1, <2>2 DEF TypesSafe, TypesTyped
  <2>4. /\ \A s, j : Least(s, j) => LeastNext(s, j)
        /\ \A s \in Type : bound'[s] # None => LeastNext(s, bound'[s])
        /\ typeload!Of(t, TRUE)' = typeload!Of(t, TRUE)
    BY <1>3, <1>5 DEF Least, LeastNext, TypesSafe, BoundLeast, typeload!Of
  <2>5. l.alone => \A s \in Type : l.found[s] # None => LeastNext(s, l.found[s])
    BY <1>1, <2>2, <2>4 DEF TypesSafe, LoadsAlone
  <2>6. TypesSafe'
    BY <1>1, <1>3, <2>1, <2>2, <2>3, <2>4, <2>5, BinderMoves
  <2>. QED BY <1>3, <1>5, <2>6
<1>. QED BY <1>2, <1>4, <1>5

\* A load creates the type that it did not find.
LEMMA CreateSafe ==
  ASSUME TypesSafe, NEW p \in Process, typeload!Create(p)
  PROVE  TypesSafe' /\ UNCHANGED bound /\ \A i \in DOMAIN rows : rows'[i] = rows[i]
<1>. DEFINE Row == [type: Type, system: BOOLEAN, text: Nat]
<1>1. PICK b : b = binder[p]
  OBVIOUS
<1>2. /\ b \in BinderOf /\ b.at = "create" /\ b.type \in Type /\ b.release \in Nat /\ b # typeload!Idle
      /\ rows \in Seq(Row) /\ Len(rows) \in Nat /\ UNCHANGED <<typeRelease, bound>>
      /\ binder \in [Process -> BinderOf \cup {typeload!Idle}]
  BY <1>1 DEF typeload!Create, TypesSafe, TypesTyped, CreatesType, BinderOf
<1>3. PICK n, row : n = Len(rows) + 1 /\ row = [type |-> b.type, system |-> TRUE, text |-> b.release]
  OBVIOUS
<1>4. row \in Row /\ n \in Nat /\ row.type = b.type /\ row.system = TRUE
  BY <1>2, <1>3
<1>5. rows' = Append(rows, row)
  BY <1>1, <1>3 DEF typeload!Create, typeload!Insert
<1>6. PICK l : l = [b EXCEPT !.at = "look", !.found[b.type] = n]
  OBVIOUS
<1>7. binder' = [binder EXCEPT ![p] = l]
  BY <1>1, <1>3, <1>6 DEF typeload!Create
<1>8. /\ l \in BinderOf /\ l.at = "look" /\ l.alone = b.alone
      /\ l.found[b.type] = n /\ \A s \in Type : s # b.type => l.found[s] = b.found[s]
  BY <1>2, <1>4, <1>6 DEF BinderOf
<1>. HIDE DEF Row
<1>9. /\ rows' \in Seq(Row) /\ Len(rows') = n /\ rows'[n] = row
      /\ \A j \in 1..Len(rows) : rows'[j] = rows[j]
  BY <1>2, <1>3, <1>4, <1>5
<1>10. TypesTyped'
  BY <1>2, <1>7, <1>8, <1>9 DEF TypesSafe, TypesTyped, Row
<1>11. Len(rows) <= Len(rows') /\ Len(rows) < n /\ n \in 1..n
  BY <1>2, <1>3, <1>9
<1>12. /\ \A s, j : Least(s, j) => LeastNext(s, j)
       /\ \A s \in Type : bound'[s] # None => LeastNext(s, bound'[s])
  BY <1>2, <1>9, <1>10, <1>11, BoundStays
<1>13. b.alone => LeastNext(b.type, n)
  <2>1. SUFFICES ASSUME b.alone PROVE LeastNext(b.type, n)
    OBVIOUS
  <2>2. typeload!Of(b.type, TRUE) = {}
    BY <1>1, <1>2, <2>1 DEF TypesSafe, LoadsAlone
  <2>3. \A j \in 1..Len(rows) : ~(rows[j].type = b.type /\ rows[j].system = TRUE)
    <3>1. \A j : j \in typeload!Of(b.type, TRUE) <=> j \in 1..Len(rows) /\ rows[j].type = b.type /\ rows[j].system = TRUE
      BY RowsOf DEF TypesSafe
    <3>. QED BY <2>2, <3>1
  <2>4. \A j : j \in typeload!Of(b.type, TRUE)' <=> j \in 1..Len(rows') /\ rows'[j].type = b.type /\ rows'[j].system = TRUE
    BY <1>10, RowsOfNext
  <2>5. n \in typeload!Of(b.type, TRUE)'
    BY <1>4, <1>9, <1>11, <2>4
  <2>6. ASSUME NEW j \in typeload!Of(b.type, TRUE)' PROVE n <= j
    <3>1. j \in 1..n /\ rows'[j].type = b.type /\ rows'[j].system = TRUE
      BY <1>9, <2>4, <2>6
    <3>2. j \notin 1..Len(rows)
      BY <1>9, <2>3, <3>1
    <3>. QED BY <1>2, <1>3, <3>1, <3>2
  <2>. QED BY <2>5, <2>6 DEF LeastNext
<1>14. l.alone => \A s \in Type : l.found[s] # None => LeastNext(s, l.found[s])
  <2>1. ASSUME l.alone, NEW s \in Type, l.found[s] # None
        PROVE  LeastNext(s, l.found[s])
    <3>1. CASE s = b.type
      BY <1>8, <1>13, <2>1, <3>1
    <3>2. CASE s # b.type
      BY <1>1, <1>2, <1>8, <1>12, <2>1, <3>2 DEF TypesSafe, LoadsAlone
    <3>. QED BY <3>1, <3>2
  <2>. QED BY <2>1
<1>15. TypesSafe'
  BY <1>1, <1>2, <1>7, <1>8, <1>10, <1>12, <1>14, BinderMoves
<1>16. DOMAIN rows = 1..Len(rows)
  BY <1>2
<1>. QED BY <1>2, <1>9, <1>15, <1>16

\* A load ends: what it found is bound, if it met no other.
LEMMA EndSafe ==
  ASSUME TypesSafe, NEW p \in Process, typeload!End(p)
  PROVE  TypesSafe' /\ rows' = rows /\ \A t \in Type : bound[t] # None => bound'[t] = bound[t]
<1>1. /\ binder[p] # typeload!Idle /\ UNCHANGED <<typeRelease, rows>>
      /\ binder' = [binder EXCEPT ![p] = typeload!Idle]
      /\ bound' = IF binder[p].alone
                    THEN [t \in Type |-> IF binder[p].found[t] # None THEN binder[p].found[t] ELSE bound[t]]
                    ELSE bound
  BY DEF typeload!End
<1>2. /\ binder \in [Process -> BinderOf \cup {typeload!Idle}] /\ binder[p] \in BinderOf
      /\ bound \in [Type -> Nat \cup {None}]
  BY <1>1 DEF TypesSafe, TypesTyped
<1>3. \A t, i : LeastNext(t, i) <=> Least(t, i)
  BY <1>1 DEF Least, LeastNext, typeload!Of
<1>4. ASSUME NEW t \in Type
      PROVE  /\ bound'[t] # None => Least(t, bound'[t])
             /\ bound[t] # None => bound'[t] = bound[t]
             /\ bound'[t] \in Nat \cup {None}
  <2>1. CASE binder[p].alone /\ binder[p].found[t] # None
    <3>1. bound'[t] = binder[p].found[t] /\ bound'[t] \in Nat \cup {None}
      BY <1>1, <1>2, <1>4, <2>1 DEF BinderOf
    <3>2. Least(t, bound'[t])
      BY <1>1, <1>4, <2>1, <3>1 DEF TypesSafe, LoadsAlone
    <3>3. bound[t] # None => Least(t, bound[t])
      BY <1>4 DEF TypesSafe, BoundLeast
    <3>4. ASSUME Least(t, bound[t]) PROVE bound'[t] = bound[t]
      <4>1. /\ bound[t] \in typeload!Of(t, TRUE) /\ bound'[t] \in typeload!Of(t, TRUE)
            /\ bound[t] <= bound'[t] /\ bound'[t] <= bound[t]
        BY <3>2, <3>4 DEF Least
      <4>2. typeload!Of(t, TRUE) \subseteq 1..Len(rows) /\ Len(rows) \in Nat
        BY RowsOf DEF TypesSafe
      <4>3. bound[t] \in 1..Len(rows) /\ bound'[t] \in 1..Len(rows)
        BY <4>1, <4>2
      <4>. QED BY <4>1, <4>2, <4>3
    <3>. QED BY <3>1, <3>2, <3>3, <3>4
  <2>2. CASE ~(binder[p].alone /\ binder[p].found[t] # None)
    <3>1. bound'[t] = bound[t]
      BY <1>1, <1>4, <2>2
    <3>. QED BY <1>2, <1>4, <3>1 DEF TypesSafe, BoundLeast
  <2>. QED BY <2>1, <2>2
<1>5. bound' \in [Type -> Nat \cup {None}]
  <2>1. CASE binder[p].alone
    BY <1>1, <1>2, <2>1 DEF BinderOf
  <2>2. CASE ~binder[p].alone
    BY <1>1, <1>2, <2>2
  <2>. QED BY <2>1, <2>2
<1>6. TypesTyped'
  BY <1>1, <1>2, <1>5 DEF TypesSafe, TypesTyped
<1>7. TypesSafe'
  BY <1>1, <1>3, <1>4, <1>6, BinderMoves
<1>. QED BY <1>1, <1>4, <1>7

\* ... or it is stopped.
LEMMA CrashSafe ==
  ASSUME TypesSafe, NEW p \in Process, typeload!Crash(p)
  PROVE  TypesSafe' /\ UNCHANGED <<rows, bound>>
<1>1. /\ binder[p] # typeload!Idle /\ UNCHANGED <<typeRelease, rows, bound>>
      /\ binder' = [binder EXCEPT ![p] = typeload!Idle]
  BY DEF typeload!Crash, typeload!Busy
<1>2. TypesTyped'
  BY <1>1 DEF TypesSafe, TypesTyped
<1>3. \A t \in Type : bound'[t] # None => LeastNext(t, bound'[t])
  BY <1>1 DEF TypesSafe, BoundLeast, Least, LeastNext, typeload!Of
<1>. QED BY <1>1, <1>2, <1>3, BinderMoves

\* A load begins: it is alone if there is no other, which it disturbs.
LEMMA StartSafe ==
  ASSUME TypesSafe, NEW p \in Process, typeload!Start(p)
  PROVE  TypesSafe' /\ UNCHANGED <<rows, bound>>
<1>. DEFINE L == [at |-> "look", todo |-> TypeReleases[typeRelease], release |-> typeRelease, type |-> None,
                  found |-> [t \in Type |-> None], alone |-> typeload!Busy = {}]
<1>1. /\ binder[p] = typeload!Idle /\ UNCHANGED <<typeRelease, rows, bound>>
      /\ binder' = [q \in Process |-> IF q = p THEN L
                     ELSE IF q \in typeload!Busy THEN [binder[q] EXCEPT !.alone = FALSE] ELSE binder[q]]
  BY DEF typeload!Start, typeload!Busy
<1>2. binder \in [Process -> BinderOf \cup {typeload!Idle}] /\ typeRelease \in DOMAIN TypeReleases
  BY DEF TypesSafe, TypesTyped
<1>3. TypeReleases[typeRelease] \in SUBSET Type /\ typeRelease \in Nat
  <2>1. TypeReleases \in Seq(SUBSET Type)
    BY ManagementAssumption
  <2>. QED BY <1>2, <2>1
<1>4. /\ L \in BinderOf /\ L.at = "look" /\ L.alone = (typeload!Busy = {}) /\ \A t \in Type : L.found[t] = None
  BY <1>3 DEF BinderOf
<1>5. binder'[p] = L
  BY <1>1
<1>. HIDE DEF L
<1>6. ASSUME NEW q \in Process, q # p
      PROVE  \/ binder[q] = typeload!Idle /\ binder'[q] = typeload!Idle
             \/ /\ binder[q] # typeload!Idle /\ typeload!Busy # {} /\ binder[q] \in BinderOf
                /\ binder'[q] \in BinderOf /\ ~binder'[q].alone /\ binder'[q].at = binder[q].at
                /\ binder'[q].type = binder[q].type
  <2>1. CASE q \notin typeload!Busy
    BY <1>1, <1>6, <2>1 DEF typeload!Busy
  <2>2. CASE q \in typeload!Busy
    <3>1. binder'[q] = [binder[q] EXCEPT !.alone = FALSE]
      BY <1>1, <1>6, <2>2
    <3>2. binder[q] \in BinderOf /\ binder[q] # typeload!Idle
      BY <1>2, <1>6, <2>2 DEF typeload!Busy
    <3>. QED BY <2>2, <3>1, <3>2 DEF BinderOf
  <2>. QED BY <2>1, <2>2
<1>7. binder' \in [Process -> BinderOf \cup {typeload!Idle}]
  <2>1. \A q \in Process : binder'[q] \in BinderOf \cup {typeload!Idle}
    BY <1>4, <1>5, <1>6
  <2>2. binder' = [q \in Process |-> binder'[q]]
    BY <1>1
  <2>. QED BY <2>1, <2>2
<1>8. TypesTyped'
  BY <1>1, <1>7 DEF TypesSafe, TypesTyped
<1>9. BoundLeast'
  BY <1>1 DEF TypesSafe, BoundLeast, Least, typeload!Of
<1>10. LoadsAlone'
  <2>1. ASSUME NEW q \in Process, NEW m, m = binder'[q], m # typeload!Idle, m.alone
        PROVE  /\ \A x \in Process : x # q => binder'[x] = typeload!Idle
               /\ m.at = "look" /\ \A t \in Type : m.found[t] = None
    <3>1. q = p /\ m = L
      BY <1>5, <1>6, <2>1
    <3>2. typeload!Busy = {}
      BY <1>4, <2>1, <3>1
    <3>. QED BY <1>4, <1>6, <3>1, <3>2
  <2>. QED BY <2>1 DEF LoadsAlone
<1>11. CreatesType'
  BY <1>4, <1>5, <1>6 DEF TypesSafe, CreatesType
<1>. QED BY <1>1, <1>8, <1>9, <1>10, <1>11 DEF TypesSafe

\* Nothing happens to rows, loads and what they bound.
LEMMA TypesRest ==
  ASSUME TypesSafe, TypesTyped', UNCHANGED <<rows, binder, bound>>
  PROVE  TypesSafe'
<1>1. \A t, b : typeload!Of(t, b)' = typeload!Of(t, b)
  BY DEF typeload!Of
<1>. QED BY <1>1 DEF TypesSafe, BoundLeast, LoadsAlone, CreatesType, Least

\* A user adds a type, or edits a strategy.
LEMMA UserAddsSafe ==
  ASSUME TypesSafe, NEW t \in Type, typeload!UserAdds(t)
  PROVE  TypesSafe' /\ UNCHANGED <<binder, bound>>
<1>. DEFINE Row == [type: Type, system: BOOLEAN, text: Nat]
<1>1. PICK row : row = [type |-> t, system |-> FALSE, text |-> typeload!OwnText]
  OBVIOUS
<1>2. /\ rows' = Append(rows, row) /\ UNCHANGED <<typeRelease, binder, bound>>
      /\ rows \in Seq(Row) /\ Len(rows) \in Nat /\ row \in Row /\ row.system = FALSE
  BY <1>1 DEF typeload!UserAdds, typeload!Insert, typeload!OwnText, TypesSafe, TypesTyped
<1>. HIDE DEF Row
<1>3. /\ rows' \in Seq(Row) /\ Len(rows') = Len(rows) + 1 /\ rows'[Len(rows) + 1] = row
      /\ \A j \in 1..Len(rows) : rows'[j] = rows[j]
  BY <1>2
<1>4. TypesTyped'
  BY <1>2, <1>3 DEF TypesSafe, TypesTyped, Row
<1>5. \A j \in 1..Len(rows') : rows'[j].system = TRUE => j \in 1..Len(rows)
  <2>1. \A j \in 1..Len(rows') : j \in 1..Len(rows) \/ j = Len(rows) + 1
    BY <1>2, <1>3
  <2>. QED BY <1>2, <1>3, <2>1
<1>6. Len(rows) <= Len(rows')
  BY <1>2, <1>3
<1>. QED BY <1>2, <1>3, <1>4, <1>5, <1>6, TypesKept

LEMMA UserEditsSafe ==
  ASSUME TypesSafe, NEW i, typeload!UserEdits(i)
  PROVE  TypesSafe' /\ UNCHANGED <<binder, bound>>
<1>. DEFINE Row == [type: Type, system: BOOLEAN, text: Nat]
<1>1. /\ rows \in Seq(Row) /\ Len(rows) \in Nat /\ DOMAIN rows = 1..Len(rows)
      /\ i \in 1..Len(rows) /\ UNCHANGED <<typeRelease, binder, bound>>
  BY DEF typeload!UserEdits, TypesSafe, TypesTyped
<1>2. rows[i] \in Row
  BY <1>1, ElementOf
<1>3. PICK row : row = [rows[i] EXCEPT !.text = typeload!OwnText]
  OBVIOUS
<1>4. row \in Row /\ row.type = rows[i].type /\ row.system = rows[i].system
  BY <1>2, <1>3 DEF typeload!OwnText
<1>5. rows' = [rows EXCEPT ![i] = row]
  BY <1>3 DEF typeload!UserEdits
<1>. HIDE DEF Row
<1>6. /\ rows' \in Seq(Row) /\ Len(rows') = Len(rows)
      /\ \A j \in 1..Len(rows) : rows'[j] = IF j = i THEN row ELSE rows[j]
  BY <1>1, <1>4, <1>5
<1>7. TypesTyped'
  BY <1>1, <1>6 DEF TypesSafe, TypesTyped, Row
<1>8. Len(rows) <= Len(rows')
  BY <1>1, <1>6
<1>. QED BY <1>1, <1>4, <1>6, <1>7, <1>8, TypesKept

(* BindingStable: no load changes a type or strategy of users, and one that meets no
   other binds a type to the row it was bound to before, whatever rows stopped or
   meeting loads left behind (load_hook_strategy.py).                             *)
THEOREM BindingAlwaysStable == Spec => BindingStable
<1>. DEFINE Safe == part = "types" => TypesSafe
<1>1. Init => Safe
  <2>1. SUFFICES ASSUME typeload!Init PROVE TypesSafe
    BY DEF Init
  <2>2. /\ typeRelease = 1 /\ rows = <<>> /\ binder = [p \in Process |-> typeload!Idle]
        /\ bound = [t \in Type |-> None]
    BY <2>1 DEF typeload!Init
  <2>3. 1 \in DOMAIN TypeReleases
    <3>1. TypeReleases \in Seq(SUBSET Type) /\ TypeReleases # <<>>
      BY ManagementAssumption
    <3>. QED BY <3>1
  <2>4. TypesTyped
    BY <2>2, <2>3 DEF TypesTyped
  <2>5. BoundLeast /\ LoadsAlone /\ CreatesType
    BY <2>2 DEF BoundLeast, LoadsAlone, CreatesType
  <2>. QED BY <2>4, <2>5 DEF TypesSafe
<1>2. ASSUME TypesSafe, typeload!Next \/ UNCHANGED typeVars
      PROVE  TypesSafe' /\ typeload!BindingStep
  <2>1. CASE UNCHANGED typeVars
    <3>1. UNCHANGED <<typeRelease, rows, binder, bound>>
      BY <2>1 DEF typeVars
    <3>2. TypesTyped'
      BY <1>2, <3>1 DEF TypesSafe, TypesTyped
    <3>4. TypesSafe'
      BY <1>2, <3>1, <3>2, TypesRest
    <3>. QED BY <3>1, <3>4 DEF typeload!BindingStep
  <2>2. CASE typeload!Deploy
    <3>1. UNCHANGED <<rows, binder, bound>> /\ typeRelease' \in DOMAIN TypeReleases
      BY <2>2 DEF typeload!Deploy
    <3>2. TypesTyped'
      BY <1>2, <3>1 DEF TypesSafe, TypesTyped
    <3>4. TypesSafe'
      BY <1>2, <3>1, <3>2, TypesRest
    <3>. QED BY <3>1, <3>4 DEF typeload!BindingStep
  <2>3. CASE (\E t \in Type : typeload!UserAdds(t)) \/ \E i \in 1..MaxRows : typeload!UserEdits(i)
    <3>1. TypesSafe' /\ UNCHANGED <<binder, bound>>
      BY <1>2, <2>3, UserAddsSafe, UserEditsSafe
    <3>. QED BY <3>1 DEF typeload!BindingStep
  <2>4. ASSUME NEW p \in Process,
               typeload!Start(p) \/ typeload!Look(p) \/ typeload!Create(p) \/ typeload!End(p) \/ typeload!Crash(p)
        PROVE  TypesSafe' /\ typeload!BindingStep
    <3>1. CASE typeload!Start(p) \/ typeload!Crash(p)
      BY <1>2, <3>1, StartSafe, CrashSafe DEF typeload!BindingStep
    <3>2. CASE typeload!Look(p)
      BY <1>2, <3>2, LookSafe DEF typeload!BindingStep
    <3>3. CASE typeload!Create(p)
      BY <1>2, <3>3, CreateSafe DEF typeload!BindingStep
    <3>4. CASE typeload!End(p)
      BY <1>2, <3>4, EndSafe DEF typeload!BindingStep
    <3>. QED BY <2>4, <3>1, <3>2, <3>3, <3>4
  <2>. QED BY <1>2, <2>1, <2>2, <2>3, <2>4 DEF typeload!Next
<1>3. Safe /\ [Next]_vars => Safe' /\ (part = "types" => typeload!BindingStep)
  BY <1>2 DEF Next, vars
<1>. QED BY <1>1, <1>3, PTL DEF Spec, BindingStable

--------------------------------------------------------------------------------
(* HookRelease: what a load that meets no other one did is all that is there of the
   system.                                                                       *)

LoaderOf == [at: {"clear", "demote", "policy", "create", "adopt"}, todo: SUBSET Key, keys: SUBSET Key,
             alone: BOOLEAN, key: Key \cup {None}, id: Nat \cup {None}, row: HookRow \cup {None}]

HooksTyped ==
  /\ hookRelease \in DOMAIN HookReleases
  /\ hooks \in Seq(HookRow \cup {None})
  /\ editing \in [Editor -> HookEdit \cup {None}]
  /\ loader \in [Process -> LoaderOf \cup {hookload!Idle, hookload!Failed}]

\* A load that is under way.
IsLoad(l) == l \notin {hookload!Idle, hookload!Failed}

\* The rows of the system among some.
SystemOf(h) == {i \in DOMAIN h : h[i] # None /\ h[i].system}

\* Only a release brings rows of the system without a mark, and every edit leaves one.
RowsMarked == \A i \in DOMAIN hooks : hooks[i] # None =>
  /\ hooks[i].edited => hooks[i].modified
  /\ hooks[i].system /\ ~hooks[i].modified => hooks[i].by = "release"

\* What a request is to save: a further rule of a user, or the one it read with its mark.
EditOf(e, h) ==
  /\ e.id = None => ~e.row.system /\ ~e.row.edited
  /\ e.id # None => /\ e.id \in DOMAIN h /\ e.read \in HookRow
                    /\ e.row.modified /\ e.row.system = e.read.system
                    /\ e.read.system => e.row.key = e.read.key
                    /\ e.read.system /\ e.row.status = "deleted" => e.read.status = "deleted"

EditsKnown == \A u \in Editor : editing[u] # None => EditOf(editing[u], hooks)

\* A load has rules of its release to do, among them the one it works on.
Known(l, h) ==
  /\ l.todo \subseteq l.keys
  /\ l.at \in {"clear", "demote"} => l.todo = l.keys
  /\ l.at \in {"create", "adopt"} => l.key \in l.keys /\ l.key \notin l.todo
  /\ l.at = "adopt" => l.id \in DOMAIN h /\ l.row \in HookRow /\ l.row.key = l.key

\* The rules it did, and only those, are the system's; it adopts none that users deleted.
Installed(l, h) == l.at \in {"policy", "create", "adopt"} =>
  /\ \A k \in Key : (\E i \in SystemOf(h) : h[i].key = k) <=>
       k \in l.keys /\ k \notin l.todo /\ ~(l.at # "policy" /\ k = l.key)
  /\ \A i \in SystemOf(h) : h[i].status # "deleted" \/ h[i].key \in Sink
  /\ l.at = "adopt" => /\ l.row.status # "deleted" \/ l.row.key \in Sink
                       /\ h[l.id] # None /\ h[l.id].system => h[l.id].key = l.key

LoadsKnown == \A p \in Process : IsLoad(loader[p]) => Known(loader[p], hooks)

AloneInstalls == \A p \in Process : IsLoad(loader[p]) /\ loader[p].alone =>
  /\ \A q \in Process : q # p => ~IsLoad(loader[q])
  /\ Installed(loader[p], hooks)

HooksSafe == HooksTyped /\ RowsMarked /\ EditsKnown /\ LoadsKnown /\ AloneInstalls

\* A load that is under way has its fields, and the release it loads has keys.
LEMMA LoaderKnown ==
  ASSUME HooksSafe, NEW p \in Process, IsLoad(loader[p])
  PROVE  loader[p] \in LoaderOf /\ Known(loader[p], hooks) /\ loader[p].keys \subseteq Key
<1>1. loader[p] \in LoaderOf
  BY DEF HooksSafe, HooksTyped, IsLoad
<1>2. loader[p].keys \subseteq Key
  BY <1>1 DEF LoaderOf
<1>. QED BY <1>1, <1>2 DEF HooksSafe, LoadsKnown

\* A step of a load that is under way.
LEMMA LoaderMoves ==
  ASSUME HooksSafe, HooksTyped', RowsMarked', UNCHANGED editing, DOMAIN hooks \subseteq DOMAIN hooks',
         NEW p \in Process, IsLoad(loader[p]), NEW l, loader' = [loader EXCEPT ![p] = l],
         IsLoad(l) => /\ Known(l, hooks')
                      /\ l.alone => loader[p].alone /\ Installed(l, hooks')
  PROVE  HooksSafe'
<1>1. loader'[p] = l /\ \A q \in Process : q # p => loader'[q] = loader[q]
  BY DEF HooksSafe, HooksTyped
<1>2. LoadsKnown'
  <2>1. ASSUME NEW q \in Process, IsLoad(loader'[q])
        PROVE  Known(loader'[q], hooks')
    <3>1. CASE q = p
      BY <1>1, <2>1, <3>1
    <3>2. CASE q # p
      <4>1. loader'[q] = loader[q] /\ Known(loader[q], hooks)
        BY <1>1, <2>1, <3>2 DEF HooksSafe, LoadsKnown
      <4>. QED BY <4>1 DEF Known
    <3>. QED BY <3>1, <3>2
  <2>. QED BY <2>1 DEF LoadsKnown, IsLoad
<1>3. AloneInstalls'
  <2>1. ASSUME NEW q \in Process, IsLoad(loader'[q]), loader'[q].alone
        PROVE  /\ \A r \in Process : r # q => ~IsLoad(loader'[r])
               /\ Installed(loader'[q], hooks')
    <3>1. q = p
      <4>1. SUFFICES ASSUME q # p PROVE FALSE
        OBVIOUS
      <4>2. IsLoad(loader[q]) /\ loader[q].alone
        BY <1>1, <2>1, <4>1
      <4>. QED BY <4>1, <4>2 DEF HooksSafe, AloneInstalls
    <3>2. IsLoad(l) /\ l.alone /\ loader[p].alone /\ Installed(l, hooks')
      BY <1>1, <2>1, <3>1
    <3>3. \A r \in Process : r # p => ~IsLoad(loader[r])
      BY <3>2 DEF HooksSafe, AloneInstalls
    <3>. QED BY <1>1, <3>1, <3>2, <3>3
  <2>. QED BY <2>1 DEF AloneInstalls, IsLoad
<1>4. EditsKnown'
  BY DEF HooksSafe, EditsKnown, EditOf
<1>. QED BY <1>2, <1>3, <1>4 DEF HooksSafe

(* What users do to rows: further ones of theirs, marks and statuses, and no deletion
   of one of the system.                                                         *)
LEMMA HooksEdited ==
  ASSUME HooksSafe, HooksTyped', RowsMarked', EditsKnown', UNCHANGED loader, DOMAIN hooks \subseteq DOMAIN hooks',
         \A i \in DOMAIN hooks : /\ hooks'[i] = None <=> hooks[i] = None
                                 /\ hooks[i] # None =>
                                      /\ hooks'[i].system = hooks[i].system
                                      /\ hooks[i].system => hooks'[i].key = hooks[i].key
                                      /\ hooks[i].system /\ hooks'[i].status = "deleted" => hooks[i].status = "deleted",
         \A i \in DOMAIN hooks' : hooks'[i] # None /\ hooks'[i].system => i \in DOMAIN hooks
  PROVE  HooksSafe'
<1>1. /\ SystemOf(hooks') = SystemOf(hooks)
      /\ \A i \in SystemOf(hooks) : /\ hooks'[i].key = hooks[i].key
                                    /\ hooks'[i].status = "deleted" => hooks[i].status = "deleted"
  BY DEF SystemOf
<1>2. LoadsKnown'
  BY DEF HooksSafe, LoadsKnown, Known, IsLoad
<1>3. ASSUME NEW p \in Process, IsLoad(loader[p]), loader[p].alone
      PROVE  Installed(loader[p], hooks')
  <2>1. PICK l : l = loader[p]
    OBVIOUS
  <2>2. Known(l, hooks) /\ Installed(l, hooks)
    BY <1>3, <2>1 DEF HooksSafe, LoadsKnown, AloneInstalls
  <2>3. SUFFICES ASSUME l.at \in {"policy", "create", "adopt"}
        PROVE  Installed(l, hooks')
    BY <2>1 DEF Installed
  <2>4. \A k \in Key : (\E i \in SystemOf(hooks') : hooks'[i].key = k) <=>
          k \in l.keys /\ k \notin l.todo /\ ~(l.at # "policy" /\ k = l.key)
    BY <1>1, <2>2, <2>3 DEF Installed
  <2>5. \A i \in SystemOf(hooks') : hooks'[i].status # "deleted" \/ hooks'[i].key \in Sink
    BY <1>1, <2>2, <2>3 DEF Installed
  <2>6. l.at = "adopt" => /\ l.row.status # "deleted" \/ l.row.key \in Sink
                          /\ hooks'[l.id] # None /\ hooks'[l.id].system => hooks'[l.id].key = l.key
    BY <2>2 DEF Installed, Known
  <2>. QED BY <2>4, <2>5, <2>6 DEF Installed
<1>4. AloneInstalls'
  BY <1>3 DEF HooksSafe, AloneInstalls, IsLoad
<1>. QED BY <1>2, <1>4 DEF HooksSafe

(* Rows are updated one by one: hooks is a sequence of the same length.           *)
LEMMA HooksUpdated ==
  ASSUME HooksTyped, NEW f, hooks' = [i \in DOMAIN hooks |-> f[i]],
         \A i \in DOMAIN hooks : f[i] \in HookRow \cup {None}
  PROVE  /\ hooks' \in Seq(HookRow \cup {None}) /\ DOMAIN hooks' = DOMAIN hooks
         /\ \A i \in DOMAIN hooks : hooks'[i] = f[i]
<1>1. PICK n \in Nat : n = Len(hooks) /\ DOMAIN hooks = 1..n
  BY DEF HooksTyped
<1>2. hooks' = [i \in 1..n |-> f[i]] /\ \A i \in 1..n : f[i] \in HookRow \cup {None}
  BY <1>1
<1>. QED BY <1>1, <1>2

\* A row is added.
LEMMA HooksAdded ==
  ASSUME HooksTyped, NEW row \in HookRow, hooks' = Append(hooks, row)
  PROVE  /\ hooks' \in Seq(HookRow \cup {None}) /\ Len(hooks) + 1 \in DOMAIN hooks'
         /\ DOMAIN hooks' = DOMAIN hooks \cup {Len(hooks) + 1} /\ Len(hooks) + 1 \notin DOMAIN hooks
         /\ hooks'[Len(hooks) + 1] = row /\ \A i \in DOMAIN hooks : hooks'[i] = hooks[i]
<1>1. hooks \in Seq(HookRow \cup {None}) /\ row \in HookRow \cup {None} /\ Len(hooks) \in Nat /\ DOMAIN hooks = 1..Len(hooks)
  BY DEF HooksTyped
<1>2. /\ hooks' \in Seq(HookRow \cup {None}) /\ Len(hooks') = Len(hooks) + 1 /\ DOMAIN hooks' = 1..(Len(hooks) + 1)
      /\ hooks'[Len(hooks) + 1] = row /\ \A i \in 1..Len(hooks) : hooks'[i] = hooks[i]
  BY <1>1
<1>. QED BY <1>1, <1>2

\* A row that is there has its fields, and is not None.
LEMMA RowThere ==
  ASSUME HooksTyped, NEW i \in DOMAIN hooks
  PROVE  /\ hooks[i] \in HookRow \cup {None} /\ None \notin HookRow
         /\ hooks[i] # None => hooks[i] \in HookRow
<1>1. hooks[i] \in HookRow \cup {None}
  BY ElementOf DEF HooksTyped
<1>. QED BY <1>1, ManagementAssumption

\* Loads that met another one, or a row that was changed before it was saved.
LEMMA DisturbedLoad ==
  ASSUME HooksSafe, NEW q \in Process
  PROVE  LET l == hookload!Disturbed[q]
         IN  \/ ~IsLoad(loader[q]) /\ l = loader[q]
             \/ /\ IsLoad(loader[q]) /\ hookload!Busy # {} /\ loader[q] \in LoaderOf
                /\ l \in LoaderOf /\ ~l.alone /\ l.at = loader[q].at /\ Known(l, hooks)
<1>1. PICK l : l = hookload!Disturbed[q]
  OBVIOUS
<1>2. CASE q \notin hookload!Busy
  BY <1>1, <1>2 DEF hookload!Disturbed, hookload!Busy, IsLoad
<1>3. CASE q \in hookload!Busy
  <2>1. l = [loader[q] EXCEPT !.alone = FALSE]
    BY <1>1, <1>3 DEF hookload!Disturbed
  <2>2. loader[q] \in LoaderOf /\ IsLoad(loader[q]) /\ Known(loader[q], hooks)
    BY <1>3 DEF hookload!Busy, IsLoad, HooksSafe, HooksTyped, LoadsKnown
  <2>3. /\ l \in LoaderOf /\ ~l.alone /\ l.at = loader[q].at /\ l.todo = loader[q].todo
        /\ l.keys = loader[q].keys /\ l.key = loader[q].key /\ l.id = loader[q].id /\ l.row = loader[q].row
    BY <2>1, <2>2 DEF LoaderOf
  <2>4. Known(l, hooks)
    BY <2>2, <2>3 DEF Known
  <2>. QED BY <1>1, <1>3, <2>2, <2>3, <2>4
<1>. QED BY <1>2, <1>3

\* A user's request reads what it needs.
LEMMA ReadSafe ==
  ASSUME HooksSafe, NEW u \in Editor, NEW id, NEW read, NEW row, hookload!Edit(u, id, read, row),
         NEW e \in HookEdit, e = [id |-> id, read |-> read, row |-> row], EditOf(e, hooks)
  PROVE  HooksSafe' /\ UNCHANGED <<hooks, loader>>
<1>1. UNCHANGED <<hookRelease, hooks, loader>> /\ editing' = [editing EXCEPT ![u] = e]
  BY DEF hookload!Edit, hookload!Request
<1>2. HooksTyped' /\ RowsMarked'
  BY <1>1 DEF HooksSafe, HooksTyped, RowsMarked
<1>3. editing'[u] = e /\ \A v \in Editor : v # u => editing'[v] = editing[v]
  BY <1>1 DEF HooksSafe, HooksTyped
<1>4. EditsKnown'
  BY <1>1, <1>3 DEF HooksSafe, EditsKnown, EditOf
<1>5. LoadsKnown' /\ AloneInstalls'
  BY <1>1 DEF HooksSafe, LoadsKnown, AloneInstalls, IsLoad
<1>. QED BY <1>1, <1>2, <1>4, <1>5 DEF HooksSafe

\* A user is to add a rule.
LEMMA AddSafe ==
  ASSUME HooksSafe, NEW u \in Editor, NEW key \in Key, hookload!Add(u, key)
  PROVE  HooksSafe' /\ UNCHANGED <<hooks, loader>>
<1>1. PICK row : row = hookload!NewRule(key, "user")
  OBVIOUS
<1>2. hookload!Edit(u, None, None, row)
  BY <1>1 DEF hookload!Add
<1>3. row \in HookRow /\ row.system = FALSE /\ row.edited = FALSE
  BY <1>1 DEF hookload!NewRule, HookRow, hookload!Status
<1>4. PICK e : e = [id |-> None, read |-> None, row |-> row]
  OBVIOUS
<1>5. e \in HookEdit /\ e.id = None /\ e.row = row
  BY <1>3, <1>4 DEF HookEdit
<1>6. EditOf(e, hooks)
  BY <1>3, <1>5 DEF EditOf
<1>. QED BY <1>2, <1>4, <1>5, <1>6, ReadSafe

\* A rule that was read is to be saved with what the user changed.
LEMMA ReadRuleSafe ==
  ASSUME HooksSafe, NEW u \in Editor, NEW i \in DOMAIN hooks, hooks[i] # None, NEW row \in HookRow,
         hookload!Edit(u, i, hooks[i], row), row.modified, row.system = hooks[i].system,
         hooks[i].system => row.key = hooks[i].key,
         hooks[i].system /\ row.status = "deleted" => hooks[i].status = "deleted"
  PROVE  HooksSafe' /\ UNCHANGED <<hooks, loader>>
<1>1. PICK e : e = [id |-> i, read |-> hooks[i], row |-> row]
  OBVIOUS
<1>2. hooks[i] \in HookRow /\ i \in Nat /\ i # None
  BY RowThere, ManagementAssumption DEF HooksSafe, HooksTyped
<1>3. e \in HookEdit /\ e.id = i /\ e.read = hooks[i] /\ e.row = row
  BY <1>1, <1>2 DEF HookEdit
<1>4. EditOf(e, hooks)
  BY <1>2, <1>3 DEF EditOf
<1>. QED BY <1>1, <1>3, <1>4, ReadSafe

\* A user edits a rule.
LEMMA ModifySafe ==
  ASSUME HooksSafe, NEW u \in Editor, NEW j, NEW key \in Key, hookload!Modify(u, j, key)
  PROVE  HooksSafe' /\ UNCHANGED <<hooks, loader>>
<1>1. j \in DOMAIN hooks /\ hooks[j] # None
  BY DEF hookload!Modify, hookload!Stored
<1>2. hooks[j].system => key = hooks[j].key
  BY <1>1 DEF hookload!Modify, hookload!System
<1>3. PICK row : row = [hooks[j] EXCEPT !.key = key, !.edited = TRUE, !.modified = TRUE]
  OBVIOUS
<1>4. hookload!Edit(u, j, hooks[j], row)
  BY <1>3 DEF hookload!Modify
<1>5. hooks[j] \in HookRow
  BY <1>1, RowThere DEF HooksSafe
<1>6. /\ row \in HookRow /\ row.key = key /\ row.system = hooks[j].system /\ row.modified
      /\ row.status = hooks[j].status
  BY <1>3, <1>5 DEF HookRow
<1>. QED BY <1>1, <1>2, <1>4, <1>6, ReadRuleSafe

\* A user changes rules that are there.
LEMMA EditSafe ==
  ASSUME HooksSafe, UNCHANGED <<hookRelease, editing, loader>>, NEW f, hooks' = [i \in DOMAIN hooks |-> f[i]],
         \A i \in DOMAIN hooks : \/ f[i] = hooks[i]
                                 \/ /\ hooks[i] # None /\ f[i] \in HookRow
                                    /\ f[i].key = hooks[i].key /\ f[i].system = hooks[i].system /\ f[i].by = hooks[i].by
                                    /\ f[i].edited => f[i].modified
                                    /\ hooks[i].modified => f[i].modified
                                    /\ hooks[i].system /\ f[i].status = "deleted" => hooks[i].status = "deleted"
  PROVE  HooksSafe'
<1>1. \A i \in DOMAIN hooks : hooks[i] \in HookRow \cup {None} /\ None \notin HookRow
  BY RowThere DEF HooksSafe
<1>2. \A i \in DOMAIN hooks : f[i] \in HookRow \cup {None}
  BY <1>1
<1>3. /\ hooks' \in Seq(HookRow \cup {None}) /\ DOMAIN hooks' = DOMAIN hooks
      /\ \A i \in DOMAIN hooks : hooks'[i] = f[i]
  BY <1>2, HooksUpdated DEF HooksSafe
<1>4. HooksTyped'
  BY <1>3 DEF HooksSafe, HooksTyped
<1>5. RowsMarked'
  BY <1>3 DEF HooksSafe, RowsMarked
<1>6. \A i \in DOMAIN hooks : /\ hooks'[i] = None <=> hooks[i] = None
                              /\ hooks[i] # None =>
                                   /\ hooks'[i].key = hooks[i].key /\ hooks'[i].system = hooks[i].system
                                   /\ hooks[i].system /\ hooks'[i].status = "deleted" => hooks[i].status = "deleted"
  BY <1>1, <1>3
<1>7. EditsKnown'
  BY <1>3 DEF HooksSafe, EditsKnown, EditOf
<1>. QED BY <1>3, <1>4, <1>5, <1>6, <1>7, HooksEdited

\* A rule with a status, and with the mark of users.
WithStatus(r, st) == [r EXCEPT !.status = st]
WithMark(r, st) == [r EXCEPT !.status = st, !.modified = TRUE]

\* A rule that may get a status.
LEMMA RowSwitched ==
  ASSUME HooksSafe, NEW st \in hookload!Status, NEW i \in hookload!Allowed(st), NEW row,
         row = WithMark(hooks[i], st) \/ row = WithStatus(hooks[i], st)
  PROVE  /\ i \in DOMAIN hooks /\ hooks[i] # None /\ row \in HookRow
         /\ row.key = hooks[i].key /\ row.system = hooks[i].system /\ row.by = hooks[i].by
         /\ row.edited => row.modified
         /\ hooks[i].modified => row.modified
         /\ hooks[i].system /\ row.status = "deleted" => hooks[i].status = "deleted"
<1>1. i \in hookload!Stored /\ (st = "deleted" => i \notin hookload!System)
  <2>1. CASE st = "deleted"
    BY <2>1 DEF hookload!Allowed
  <2>2. CASE st # "deleted"
    BY <2>2 DEF hookload!Allowed
  <2>. QED BY <2>1, <2>2
<1>2. i \in DOMAIN hooks /\ hooks[i] # None
  BY <1>1 DEF hookload!Stored
<1>3. st = "deleted" => ~hooks[i].system
  BY <1>1 DEF hookload!System
<1>4. hooks[i] \in HookRow
  BY <1>2, RowThere DEF HooksSafe
<1>5. hooks[i].edited => hooks[i].modified
  BY <1>2 DEF HooksSafe, RowsMarked
<1>6. CASE row = WithMark(hooks[i], st)
  <2>1. /\ row.key = hooks[i].key /\ row.system = hooks[i].system /\ row.by = hooks[i].by
        /\ row.modified /\ row.status = st
    BY <1>4, <1>6 DEF HookRow, WithMark
  <2>2. row \in HookRow
    BY <1>4, <1>6 DEF HookRow, WithMark
  <2>. QED BY <1>2, <1>3, <2>1, <2>2
<1>7. CASE row = WithStatus(hooks[i], st)
  <2>1. /\ row.key = hooks[i].key /\ row.system = hooks[i].system /\ row.by = hooks[i].by
        /\ row.modified = hooks[i].modified /\ row.edited = hooks[i].edited /\ row.status = st
    BY <1>4, <1>7 DEF HookRow, WithStatus
  <2>2. row \in HookRow
    BY <1>4, <1>7 DEF HookRow, WithStatus
  <2>. QED BY <1>2, <1>3, <1>5, <2>1, <2>2
<1>. QED BY <1>6, <1>7

\* A user switches one rule.
LEMMA SwitchOneSafe ==
  ASSUME HooksSafe, NEW u \in Editor, NEW i, NEW st \in hookload!Status, hookload!SwitchOne(u, i, st)
  PROVE  HooksSafe' /\ UNCHANGED <<hooks, loader>>
<1>1. PICK row : row = WithMark(hooks[i], st)
  OBVIOUS
<1>2. i \in hookload!Allowed(st) /\ hookload!Edit(u, i, hooks[i], row)
  BY <1>1 DEF hookload!SwitchOne, WithMark
<1>3. /\ i \in DOMAIN hooks /\ hooks[i] # None /\ row \in HookRow
      /\ row.key = hooks[i].key /\ row.system = hooks[i].system
      /\ hooks[i].system /\ row.status = "deleted" => hooks[i].status = "deleted"
  BY <1>1, <1>2, RowSwitched
<1>4. row.modified
  <2>1. hooks[i] \in HookRow
    BY <1>3, RowThere DEF HooksSafe
  <2>. QED BY <1>1, <2>1 DEF WithMark, HookRow
<1>. QED BY <1>2, <1>3, <1>4, ReadRuleSafe

\* What was read is saved: a further rule of a user ...
LEMMA SaveNewSafe ==
  ASSUME HooksSafe, NEW u \in Editor, hookload!Save(u), editing[u].id = None
  PROVE  HooksSafe' /\ UNCHANGED loader
<1>1. PICK e : e = editing[u]
  OBVIOUS
<1>2. /\ e \in HookEdit /\ e.id = None /\ EditOf(e, hooks) /\ hooks' = Append(hooks, e.row)
      /\ UNCHANGED <<hookRelease, loader>> /\ editing' = [editing EXCEPT ![u] = None]
  BY <1>1 DEF hookload!Save, hookload!Insert, HooksSafe, HooksTyped, EditsKnown
<1>3. e.row \in HookRow /\ e.row # None /\ ~e.row.system /\ ~e.row.edited
  BY <1>2, ManagementAssumption DEF HookEdit, EditOf
<1>4. /\ hooks' \in Seq(HookRow \cup {None})
      /\ DOMAIN hooks' = DOMAIN hooks \cup {Len(hooks) + 1} /\ Len(hooks) + 1 \notin DOMAIN hooks
      /\ hooks'[Len(hooks) + 1] = e.row /\ \A i \in DOMAIN hooks : hooks'[i] = hooks[i]
  BY <1>2, <1>3, HooksAdded DEF HooksSafe
<1>5. HooksTyped' /\ EditsKnown'
  BY <1>2, <1>4 DEF HooksSafe, HooksTyped, EditsKnown, EditOf
<1>6. RowsMarked'
  BY <1>3, <1>4 DEF HooksSafe, RowsMarked
<1>. QED BY <1>2, <1>3, <1>4, <1>5, <1>6, HooksEdited

\* ... or the whole row of one that is there, or was.
LEMMA SaveRowSafe ==
  ASSUME HooksSafe, NEW u \in Editor, hookload!Save(u), editing[u].id # None
  PROVE  HooksSafe' /\ loader' \in {loader, hookload!Disturbed}
<1>1. PICK e : e = editing[u]
  OBVIOUS
<1>2. /\ e \in HookEdit /\ e.id # None /\ EditOf(e, hooks) /\ hooks' = [hooks EXCEPT ![e.id] = e.row]
      /\ UNCHANGED hookRelease /\ editing' = [editing EXCEPT ![u] = None]
      /\ loader' = IF hooks[e.id] = e.read THEN loader ELSE hookload!Disturbed
  BY <1>1 DEF hookload!Save, HooksSafe, HooksTyped, EditsKnown
<1>3. /\ e.row \in HookRow /\ e.row # None /\ e.id \in DOMAIN hooks /\ e.read \in HookRow /\ e.read # None
      /\ e.row.modified
  BY <1>2, ManagementAssumption DEF HookEdit, EditOf
<1>4. /\ hooks' \in Seq(HookRow \cup {None}) /\ DOMAIN hooks' = DOMAIN hooks
      /\ hooks'[e.id] = e.row /\ \A i \in DOMAIN hooks : i # e.id => hooks'[i] = hooks[i]
  <2>1. hooks \in Seq(HookRow \cup {None}) /\ e.row \in HookRow \cup {None}
    BY <1>3 DEF HooksSafe, HooksTyped
  <2>. QED BY <1>2, <1>3, <2>1
<1>5. RowsMarked'
  BY <1>3, <1>4 DEF HooksSafe, RowsMarked
<1>6. EditsKnown' /\ editing' \in [Editor -> HookEdit \cup {None}]
  BY <1>2, <1>4 DEF HooksSafe, HooksTyped, EditsKnown, EditOf
<1>7. CASE hooks[e.id] = e.read
  <2>1. loader' = loader
    BY <1>2, <1>7
  <2>2. HooksTyped'
    BY <1>2, <1>4, <1>6, <2>1 DEF HooksSafe, HooksTyped
  <2>3. \A i \in DOMAIN hooks : /\ hooks'[i] = None <=> hooks[i] = None
                                /\ hooks[i] # None =>
                                     /\ hooks'[i].system = hooks[i].system
                                     /\ hooks[i].system => hooks'[i].key = hooks[i].key
                                     /\ hooks[i].system /\ hooks'[i].status = "deleted" => hooks[i].status = "deleted"
    BY <1>2, <1>3, <1>4, <1>7 DEF EditOf
  <2>. QED BY <1>4, <1>5, <1>6, <2>1, <2>2, <2>3, HooksEdited
<1>8. CASE hooks[e.id] # e.read
  <2>1. loader' = hookload!Disturbed /\ loader' = [q \in Process |-> loader'[q]]
    BY <1>2, <1>8 DEF hookload!Disturbed
  <2>2. ASSUME NEW q \in Process
        PROVE  \/ ~IsLoad(loader[q]) /\ loader'[q] = loader[q]
               \/ loader'[q] \in LoaderOf /\ ~loader'[q].alone /\ Known(loader'[q], hooks')
    <3>1. Known(loader'[q], hooks) => Known(loader'[q], hooks')
      BY <1>4 DEF Known
    <3>. QED BY <2>1, <3>1, DisturbedLoad
  <2>3. loader' \in [Process -> LoaderOf \cup {hookload!Idle, hookload!Failed}]
    <3>1. \A q \in Process : loader'[q] \in LoaderOf \cup {hookload!Idle, hookload!Failed}
      BY <2>2 DEF IsLoad
    <3>. QED BY <2>1, <3>1
  <2>4. HooksTyped'
    BY <1>2, <1>4, <1>6, <2>3 DEF HooksSafe, HooksTyped
  <2>5. LoadsKnown' /\ AloneInstalls'
    BY <2>2 DEF LoadsKnown, AloneInstalls, IsLoad
  <2>. QED BY <1>5, <1>6, <2>1, <2>4, <2>5 DEF HooksSafe
<1>. QED BY <1>7, <1>8

\* Several rules are switched on or off, or those of users deleted, with a mark ...
LEMMA SwitchSafe ==
  ASSUME HooksSafe, NEW S, NEW st \in hookload!Status, hookload!Switch(S, st)
  PROVE  HooksSafe' /\ UNCHANGED loader
<1>1. UNCHANGED <<hookRelease, editing, loader>>
  BY DEF hookload!Switch, hookload!Request
<1>2. PICK f : f = [i \in DOMAIN hooks |-> IF i \in S \cap hookload!Allowed(st)
                      THEN [hooks[i] EXCEPT !.status = st, !.modified = TRUE] ELSE hooks[i]]
  OBVIOUS
<1>3. hooks' = f
  BY <1>2 DEF hookload!Switch, hookload!Update
<1>4. hooks' = [i \in DOMAIN hooks |-> f[i]]
  BY <1>2, <1>3
<1>5. ASSUME NEW i \in DOMAIN hooks
      PROVE  \/ f[i] = hooks[i]
             \/ /\ hooks[i] # None /\ f[i] \in HookRow
                /\ f[i].key = hooks[i].key /\ f[i].system = hooks[i].system /\ f[i].by = hooks[i].by
                /\ f[i].edited => f[i].modified
                /\ hooks[i].modified => f[i].modified
                /\ hooks[i].system /\ f[i].status = "deleted" => hooks[i].status = "deleted"
  <2>1. CASE i \notin S \cap hookload!Allowed(st)
    BY <1>2, <2>1
  <2>2. CASE i \in S \cap hookload!Allowed(st)
    <3>1. f[i] = WithMark(hooks[i], st) /\ i \in hookload!Allowed(st)
      BY <1>2, <2>2 DEF WithMark
    <3>. QED BY <3>1, RowSwitched
  <2>. QED BY <2>1, <2>2
<1>6. HooksSafe'
  BY <1>1, <1>4, <1>5, EditSafe
<1>. QED BY <1>1, <1>6

\* ... or without one.
LEMMA SwitchTypeSafe ==
  ASSUME HooksSafe, NEW S, NEW st \in hookload!Status, hookload!SwitchType(S, st)
  PROVE  HooksSafe' /\ UNCHANGED loader
<1>1. UNCHANGED <<hookRelease, editing, loader>>
  BY DEF hookload!SwitchType, hookload!Request
<1>2. PICK T : T = {i \in S \cap hookload!Allowed(st) : hooks[i].key \notin Sink}
  OBVIOUS
<1>3. PICK f : f = [i \in DOMAIN hooks |-> IF i \in T THEN [hooks[i] EXCEPT !.status = st] ELSE hooks[i]]
  OBVIOUS
<1>4. hooks' = f
  BY <1>2, <1>3 DEF hookload!SwitchType, hookload!Update
<1>5. hooks' = [i \in DOMAIN hooks |-> f[i]]
  BY <1>3, <1>4
<1>6. ASSUME NEW i \in DOMAIN hooks
      PROVE  \/ f[i] = hooks[i]
             \/ /\ hooks[i] # None /\ f[i] \in HookRow
                /\ f[i].key = hooks[i].key /\ f[i].system = hooks[i].system /\ f[i].by = hooks[i].by
                /\ f[i].edited => f[i].modified
                /\ hooks[i].modified => f[i].modified
                /\ hooks[i].system /\ f[i].status = "deleted" => hooks[i].status = "deleted"
  <2>1. CASE i \notin T
    BY <1>3, <2>1
  <2>2. CASE i \in T
    <3>1. f[i] = WithStatus(hooks[i], st) /\ i \in hookload!Allowed(st)
      BY <1>2, <1>3, <2>2 DEF WithStatus
    <3>. QED BY <3>1, RowSwitched
  <2>. QED BY <2>1, <2>2
<1>7. HooksSafe'
  BY <1>1, <1>5, <1>6, EditSafe
<1>. QED BY <1>1, <1>7

\* What a step of a load may do to rules.
RulesStay == \A i \in hookload!Stored :
  \/ hooks'[i] # None /\ hooks'[i].status = hooks[i].status
  \/ hooks'[i] = None /\ hooks[i].by = "release" /\ ~hooks[i].edited
  \/ hooks'[i] # None /\ \E p \in Process : /\ loader[p].at = "adopt" /\ loader[p].id = i
                                            /\ hooks'[i].status = loader[p].row.status

\* A load begins: it is alone if there is no other, which it disturbs.
LEMMA HookStartSafe ==
  ASSUME HooksSafe, NEW p \in Process, hookload!Start(p)
  PROVE  HooksSafe' /\ UNCHANGED hooks
<1>1. PICK b \in BOOLEAN : b = (hookload!Busy = {})
  OBVIOUS
<1>2. PICK keys : keys = hookload!Bound(HookReleases[hookRelease])
  OBVIOUS
<1>3. PICK l : l = [at |-> "clear", todo |-> keys, keys |-> keys, alone |-> b,
                    key |-> None, id |-> None, row |-> None]
  OBVIOUS
<1>4. /\ UNCHANGED <<hookRelease, hooks, editing>> /\ loader' = [hookload!Disturbed EXCEPT ![p] = l]
  BY <1>1, <1>2, <1>3 DEF hookload!Start
<1>5. keys \in SUBSET Key
  <2>1. HookReleases \in Seq(SUBSET Key) /\ hookRelease \in DOMAIN HookReleases
    BY ManagementAssumption DEF HooksSafe, HooksTyped
  <2>2. HookReleases[hookRelease] \in SUBSET Key
    BY <2>1
  <2>. QED BY <1>2, <2>2 DEF hookload!Bound
<1>6. l \in LoaderOf /\ l.at = "clear" /\ l.alone = b /\ l.todo = l.keys
  BY <1>3, <1>5 DEF LoaderOf
<1>7. loader'[p] = l /\ \A q \in Process : q # p => loader'[q] = hookload!Disturbed[q]
  BY <1>4 DEF hookload!Disturbed
<1>8. ASSUME NEW q \in Process, q # p
      PROVE  \/ ~IsLoad(loader[q]) /\ loader'[q] = loader[q]
             \/ /\ IsLoad(loader[q]) /\ hookload!Busy # {}
                /\ loader'[q] \in LoaderOf /\ ~loader'[q].alone /\ Known(loader'[q], hooks)
  BY <1>7, <1>8, DisturbedLoad
<1>9. HooksTyped'
  <2>1. \A q \in Process : loader'[q] \in LoaderOf \cup {hookload!Idle, hookload!Failed}
    BY <1>6, <1>7, <1>8 DEF IsLoad
  <2>2. loader' = [q \in Process |-> loader'[q]]
    BY <1>4 DEF hookload!Disturbed
  <2>3. loader' \in [Process -> LoaderOf \cup {hookload!Idle, hookload!Failed}]
    BY <2>1, <2>2
  <2>. QED BY <1>4, <2>3 DEF HooksSafe, HooksTyped
<1>10. RowsMarked' /\ EditsKnown'
  BY <1>4 DEF HooksSafe, RowsMarked, EditsKnown
<1>11. LoadsKnown'
  <2>1. ASSUME NEW q \in Process, IsLoad(loader'[q]) PROVE Known(loader'[q], hooks)
    <3>1. CASE q = p
      BY <1>6, <1>7, <3>1 DEF Known
    <3>2. CASE q # p
      BY <1>8, <2>1, <3>2
    <3>. QED BY <3>1, <3>2
  <2>. QED BY <1>4, <2>1 DEF LoadsKnown, IsLoad
<1>12. AloneInstalls'
  <2>1. ASSUME NEW q \in Process, IsLoad(loader'[q]), loader'[q].alone
        PROVE  /\ \A r \in Process : r # q => ~IsLoad(loader'[r])
               /\ Installed(loader'[q], hooks)
    <3>1. q = p
      BY <1>8, <2>1
    <3>2. hookload!Busy = {}
      BY <1>1, <1>6, <1>7, <2>1, <3>1
    <3>3. Installed(l, hooks)
      BY <1>6 DEF Installed
    <3>4. \A r \in Process : r # p => ~IsLoad(loader'[r])
      BY <1>8, <3>2
    <3>. QED BY <1>7, <3>1, <3>3, <3>4
  <2>. QED BY <1>4, <2>1 DEF AloneInstalls, IsLoad
<1>. QED BY <1>4, <1>9, <1>10, <1>11, <1>12 DEF HooksSafe

\* Rules without a mark are deleted.
LEMMA HookClearSafe ==
  ASSUME HooksSafe, NEW p \in Process, hookload!Clear(p)
  PROVE  HooksSafe' /\ RulesStay
<1>1. PICK f : f = [i \in DOMAIN hooks |-> IF i \in hookload!System /\ ~hooks[i].modified THEN None ELSE hooks[i]]
  OBVIOUS
<1>2. /\ loader[p].at = "clear" /\ UNCHANGED <<hookRelease, editing>> /\ hooks' = f
      /\ loader' = [loader EXCEPT ![p] = [loader[p] EXCEPT !.at = "demote"]]
  BY <1>1 DEF hookload!Clear, hookload!Load, hookload!Continue
<1>3. IsLoad(loader[p])
  BY <1>2 DEF IsLoad, hookload!Idle, hookload!Failed
<1>4. loader[p] \in LoaderOf /\ Known(loader[p], hooks)
  BY <1>3, LoaderKnown
<1>5. \A i \in DOMAIN hooks : hooks[i] \in HookRow \cup {None}
  BY RowThere DEF HooksSafe
<1>6. /\ hooks' \in Seq(HookRow \cup {None}) /\ DOMAIN hooks' = DOMAIN hooks
      /\ \A i \in DOMAIN hooks : hooks'[i] = f[i]
  <2>1. hooks' = [i \in DOMAIN hooks |-> f[i]] /\ \A i \in DOMAIN hooks : f[i] \in HookRow \cup {None}
    BY <1>1, <1>2, <1>5
  <2>. QED BY <2>1, HooksUpdated DEF HooksSafe
<1>7. \A i \in DOMAIN hooks : \/ hooks'[i] = hooks[i]
                              \/ hooks'[i] = None /\ (hooks[i] # None => hooks[i].system /\ ~hooks[i].modified)
  BY <1>1, <1>6 DEF hookload!System
<1>8. PICK l : l = [loader[p] EXCEPT !.at = "demote"]
  OBVIOUS
<1>9. /\ l \in LoaderOf /\ l.at = "demote" /\ l.todo = loader[p].todo /\ l.keys = loader[p].keys
      /\ l.alone = loader[p].alone /\ loader' = [loader EXCEPT ![p] = l]
  BY <1>2, <1>4, <1>8 DEF LoaderOf
<1>10. HooksTyped'
  BY <1>2, <1>6, <1>9 DEF HooksSafe, HooksTyped
<1>11. RowsMarked'
  BY <1>6, <1>7 DEF HooksSafe, RowsMarked
<1>12. Known(l, hooks') /\ Installed(l, hooks') /\ UNCHANGED editing
  BY <1>2, <1>4, <1>9 DEF Known, Installed
<1>13. HooksSafe'
  BY <1>3, <1>6, <1>9, <1>10, <1>11, <1>12, LoaderMoves
<1>14. RulesStay
  <2>1. ASSUME NEW i \in DOMAIN hooks, hooks[i] # None
        PROVE  \/ hooks'[i] # None /\ hooks'[i].status = hooks[i].status
               \/ hooks'[i] = None /\ hooks[i].by = "release" /\ ~hooks[i].edited
    BY <1>7, <2>1 DEF HooksSafe, RowsMarked
  <2>. QED BY <2>1 DEF RulesStay, hookload!Stored
<1>. QED BY <1>13, <1>14

\* The others become users' rules.
LEMMA HookDemoteSafe ==
  ASSUME HooksSafe, NEW p \in Process, hookload!Demote(p)
  PROVE  HooksSafe' /\ RulesStay
<1>1. PICK f : f = [i \in DOMAIN hooks |-> IF i \in hookload!System THEN [hooks[i] EXCEPT !.system = FALSE] ELSE hooks[i]]
  OBVIOUS
<1>2. /\ loader[p].at = "demote" /\ UNCHANGED <<hookRelease, editing>> /\ hooks' = f
      /\ loader' = [loader EXCEPT ![p] = [loader[p] EXCEPT !.at = "policy"]]
  BY <1>1 DEF hookload!Demote, hookload!Load, hookload!Continue, hookload!Update
<1>3. IsLoad(loader[p])
  BY <1>2 DEF IsLoad, hookload!Idle, hookload!Failed
<1>4. loader[p] \in LoaderOf /\ Known(loader[p], hooks)
  BY <1>3, LoaderKnown
<1>5. ASSUME NEW i \in DOMAIN hooks
      PROVE  /\ f[i] \in HookRow \cup {None}
             /\ f[i] = None <=> hooks[i] = None
             /\ hooks[i] # None => /\ ~f[i].system /\ f[i].status = hooks[i].status
                                   /\ f[i].edited = hooks[i].edited /\ f[i].modified = hooks[i].modified
  <2>1. hooks[i] \in HookRow \cup {None} /\ None \notin HookRow
    BY RowThere DEF HooksSafe
  <2>2. CASE i \in hookload!System
    <3>1. hooks[i] \in HookRow /\ f[i] = [hooks[i] EXCEPT !.system = FALSE]
      BY <1>1, <2>1, <2>2 DEF hookload!System, hookload!Stored
    <3>2. /\ f[i] \in HookRow /\ f[i].system = FALSE /\ f[i].status = hooks[i].status
          /\ f[i].edited = hooks[i].edited /\ f[i].modified = hooks[i].modified
      BY <3>1 DEF HookRow
    <3>. QED BY <2>1, <3>1, <3>2
  <2>3. CASE i \notin hookload!System
    <3>1. f[i] = hooks[i] /\ (hooks[i] # None => ~hooks[i].system)
      BY <1>1, <2>3 DEF hookload!System, hookload!Stored
    <3>. QED BY <2>1, <3>1
  <2>. QED BY <2>2, <2>3
<1>6. /\ hooks' \in Seq(HookRow \cup {None}) /\ DOMAIN hooks' = DOMAIN hooks
      /\ \A i \in DOMAIN hooks : hooks'[i] = f[i]
  <2>1. hooks' = [i \in DOMAIN hooks |-> f[i]]
    BY <1>1, <1>2
  <2>. QED BY <1>5, <2>1, HooksUpdated DEF HooksSafe
<1>7. SystemOf(hooks') = {}
  BY <1>5, <1>6 DEF SystemOf
<1>8. PICK l : l = [loader[p] EXCEPT !.at = "policy"]
  OBVIOUS
<1>9. /\ l \in LoaderOf /\ l.at = "policy" /\ l.todo = loader[p].todo /\ l.keys = loader[p].keys
      /\ l.alone = loader[p].alone /\ loader' = [loader EXCEPT ![p] = l]
  BY <1>2, <1>4, <1>8 DEF LoaderOf
<1>10. HooksTyped'
  BY <1>2, <1>6, <1>9 DEF HooksSafe, HooksTyped
<1>11. RowsMarked'
  BY <1>5, <1>6 DEF HooksSafe, RowsMarked
<1>12. Known(l, hooks') /\ Installed(l, hooks') /\ UNCHANGED editing
  BY <1>2, <1>4, <1>7, <1>9 DEF Known, Installed
<1>13. HooksSafe'
  BY <1>3, <1>6, <1>9, <1>10, <1>11, <1>12, LoaderMoves
<1>14. RulesStay
  BY <1>5, <1>6 DEF RulesStay, hookload!Stored
<1>. QED BY <1>13, <1>14

\* A load ends with nothing to do, or is stopped.
LEMMA HookEndSafe ==
  ASSUME HooksSafe, NEW p \in Process, hookload!End(p) \/ hookload!Crash(p)
  PROVE  HooksSafe' /\ UNCHANGED hooks
<1>1. PICK l : /\ l \in {hookload!Idle, hookload!Failed} /\ loader' = [loader EXCEPT ![p] = l]
               /\ UNCHANGED <<hookRelease, hooks, editing>>
  BY DEF hookload!End, hookload!Crash, hookload!Continue, hookload!Load
<1>2. IsLoad(loader[p])
  <2>1. CASE hookload!End(p)
    BY <2>1 DEF IsLoad, hookload!Idle, hookload!Failed, hookload!End
  <2>2. CASE hookload!Crash(p)
    BY <2>2 DEF IsLoad, hookload!Crash, hookload!Busy
  <2>. QED BY <2>1, <2>2
<1>3. HooksTyped' /\ RowsMarked' /\ ~IsLoad(l)
  BY <1>1 DEF HooksSafe, HooksTyped, RowsMarked, IsLoad
<1>4. HooksSafe'
  BY <1>1, <1>2, <1>3, LoaderMoves
<1>. QED BY <1>1, <1>4

\* A rule that a load looks for is none, one or a failure.
LEMMA HookFound ==
  ASSUME NEW p \in Process, hookload!Find(p)
  PROVE  \E key \in loader[p].todo :
           \/ /\ hookload!Of(key) = {}
              /\ loader' = [loader EXCEPT ![p] = [loader[p] EXCEPT !.todo = @ \ {key}, !.key = key, !.at = "create"]]
           \/ loader' = [loader EXCEPT ![p] = hookload!Failed]
           \/ \E i \in hookload!Existing(key) :
                loader' = [loader EXCEPT ![p] = [loader[p] EXCEPT !.todo = @ \ {key}, !.key = key,
                                                   !.at = "adopt", !.id = i, !.row = hooks[i]]]
  BY DEF hookload!Find, hookload!Continue

\* A rule of the release is looked for.
LEMMA HookFindSafe ==
  ASSUME HooksSafe, NEW p \in Process, hookload!Find(p)
  PROVE  HooksSafe' /\ UNCHANGED hooks
<1>1. loader[p].at = "policy" /\ UNCHANGED <<hookRelease, hooks, editing>>
  BY DEF hookload!Find, hookload!Load
<1>2. PICK key \in loader[p].todo :
        \/ /\ hookload!Of(key) = {}
           /\ loader' = [loader EXCEPT ![p] = [loader[p] EXCEPT !.todo = @ \ {key}, !.key = key, !.at = "create"]]
        \/ loader' = [loader EXCEPT ![p] = hookload!Failed]
        \/ \E i \in hookload!Existing(key) :
             loader' = [loader EXCEPT ![p] = [loader[p] EXCEPT !.todo = @ \ {key}, !.key = key,
                                                !.at = "adopt", !.id = i, !.row = hooks[i]]]
  BY HookFound
<1>3. IsLoad(loader[p])
  BY <1>1 DEF IsLoad, hookload!Idle, hookload!Failed
<1>4. PICK b : b = loader[p]
  OBVIOUS
<1>5. /\ b \in LoaderOf /\ Known(b, hooks) /\ b.at = "policy" /\ b.keys \subseteq Key
      /\ b.alone => Installed(b, hooks)
  BY <1>1, <1>3, <1>4, LoaderKnown DEF HooksSafe, AloneInstalls
<1>6. key \in b.todo /\ key \in b.keys /\ key \in Key
  BY <1>2, <1>4, <1>5 DEF Known
<1>7. RowsMarked'
  BY <1>1 DEF HooksSafe, RowsMarked
\* What the load did is as before; the key is what it works on.
<1>8. ASSUME NEW l \in LoaderOf, l.at \in {"create", "adopt"}, l.todo = b.todo \ {key}, l.key = key,
             l.keys = b.keys, l.alone = b.alone, loader' = [loader EXCEPT ![p] = l],
             l.at = "adopt" => /\ l.id \in DOMAIN hooks /\ l.row = hooks[l.id] /\ l.row \in HookRow /\ l.row.key = key
                               /\ l.row.status # "deleted" \/ key \in Sink
      PROVE  HooksSafe'
  <2>1. HooksTyped'
    BY <1>1, <1>8 DEF HooksSafe, HooksTyped
  <2>2. Known(l, hooks')
    BY <1>1, <1>5, <1>6, <1>8 DEF Known
  <2>3. ASSUME b.alone
        PROVE  Installed(l, hooks')
    <3>1. \A k \in Key : (\E i \in SystemOf(hooks) : hooks[i].key = k) <=>
            k \in b.keys /\ k \notin b.todo
      BY <1>5, <2>3 DEF Installed
    <3>2. \A k \in Key : (\E i \in SystemOf(hooks) : hooks[i].key = k) <=>
            k \in l.keys /\ k \notin l.todo /\ ~(l.at # "policy" /\ k = l.key)
      BY <1>6, <1>8, <3>1
    <3>3. \A i \in SystemOf(hooks) : hooks[i].status # "deleted" \/ hooks[i].key \in Sink
      BY <1>5, <2>3 DEF Installed
    <3>. QED BY <1>1, <1>8, <3>2, <3>3 DEF Installed
  <2>4. DOMAIN hooks \subseteq DOMAIN hooks'
    BY <1>1
  <2>. QED BY <1>1, <1>3, <1>4, <1>7, <1>8, <2>1, <2>2, <2>3, <2>4, LoaderMoves
<1>9. CASE loader' = [loader EXCEPT ![p] = [b EXCEPT !.todo = @ \ {key}, !.key = key, !.at = "create"]]
  <2>1. PICK l : l = [b EXCEPT !.todo = @ \ {key}, !.key = key, !.at = "create"]
    OBVIOUS
  <2>2. /\ l \in LoaderOf /\ l.at = "create" /\ l.todo = b.todo \ {key} /\ l.key = key
        /\ l.keys = b.keys /\ l.alone = b.alone
    BY <1>5, <1>6, <2>1 DEF LoaderOf
  <2>. QED BY <1>1, <1>8, <1>9, <2>1, <2>2
<1>10. CASE loader' = [loader EXCEPT ![p] = hookload!Failed]
  <2>1. HooksTyped' /\ DOMAIN hooks \subseteq DOMAIN hooks' /\ ~IsLoad(hookload!Failed)
    BY <1>1, <1>10 DEF HooksSafe, HooksTyped, IsLoad
  <2>2. HooksSafe'
    BY <1>1, <1>3, <1>7, <1>10, <2>1, LoaderMoves
  <2>. QED BY <1>1, <2>2
<1>11. ASSUME NEW i \in hookload!Existing(key),
              loader' = [loader EXCEPT ![p] = [b EXCEPT !.todo = @ \ {key}, !.key = key,
                                                 !.at = "adopt", !.id = i, !.row = hooks[i]]]
       PROVE  HooksSafe' /\ UNCHANGED hooks
  <2>1. PICK l : l = [b EXCEPT !.todo = @ \ {key}, !.key = key, !.at = "adopt", !.id = i, !.row = hooks[i]]
    OBVIOUS
  <2>2. /\ i \in DOMAIN hooks /\ hooks[i] # None /\ hooks[i].key = key
        /\ key \in Sink \/ hooks[i].status # "deleted"
    BY <1>11 DEF hookload!Existing, hookload!Of, hookload!Stored, hookload!Standing
  <2>3. hooks[i] \in HookRow /\ i \in Nat
    BY <2>2, RowThere DEF HooksSafe, HooksTyped
  <2>4. /\ l \in LoaderOf /\ l.at = "adopt" /\ l.todo = b.todo \ {key} /\ l.key = key /\ l.id = i /\ l.row = hooks[i]
        /\ l.keys = b.keys /\ l.alone = b.alone
    BY <1>5, <1>6, <2>1, <2>3 DEF LoaderOf
  <2>5. HooksSafe'
    BY <1>8, <1>11, <2>1, <2>2, <2>3, <2>4
  <2>. QED BY <1>1, <2>5
<1>. QED BY <1>1, <1>2, <1>4, <1>9, <1>10, <1>11

(* One row becomes the system's, with the key that the load works on.              *)
LEMMA InstallSafe ==
  ASSUME HooksSafe, UNCHANGED <<hookRelease, editing>>, NEW p \in Process, NEW b, b = loader[p], b.at \in {"create", "adopt"},
         loader' = [loader EXCEPT ![p] = [b EXCEPT !.at = "policy"]],
         hooks' \in Seq(HookRow \cup {None}), NEW n \in DOMAIN hooks', DOMAIN hooks' = DOMAIN hooks \cup {n},
         hooks'[n] \in HookRow, hooks'[n].system, hooks'[n].key = b.key,
         \A i \in DOMAIN hooks : i # n => hooks'[i] = hooks[i],
         RowsMarked', IsLoad(b),
         b.alone => /\ hooks'[n].status # "deleted" \/ b.key \in Sink
                    /\ n \in DOMAIN hooks /\ hooks[n] # None /\ hooks[n].system => hooks[n].key = b.key
  PROVE  HooksSafe'
<1>1. /\ b \in LoaderOf /\ Known(b, hooks) /\ b.keys \subseteq Key
      /\ b.alone => Installed(b, hooks)
  BY LoaderKnown DEF HooksSafe, AloneInstalls
<1>2. PICK l : l = [b EXCEPT !.at = "policy"]
  OBVIOUS
<1>3. /\ l \in LoaderOf /\ l.at = "policy" /\ l.todo = b.todo /\ l.keys = b.keys /\ l.alone = b.alone
      /\ loader' = [loader EXCEPT ![p] = l]
  BY <1>1, <1>2 DEF LoaderOf
<1>4. HooksTyped'
  BY <1>3 DEF HooksSafe, HooksTyped
<1>5. Known(l, hooks')
  BY <1>1, <1>3 DEF Known
<1>6. b.key \in b.keys /\ b.key \notin b.todo /\ b.key \in Key
  BY <1>1 DEF Known
<1>7. SystemOf(hooks') = SystemOf(hooks) \cup {n}
  <2>1. None \notin HookRow
    BY ManagementAssumption
  <2>2. \A i \in DOMAIN hooks : i # n => (i \in SystemOf(hooks') <=> i \in SystemOf(hooks))
    BY DEF SystemOf
  <2>3. n \in SystemOf(hooks')
    BY <2>1 DEF SystemOf
  <2>4. SystemOf(hooks) \subseteq DOMAIN hooks /\ SystemOf(hooks') \subseteq DOMAIN hooks \cup {n}
    BY DEF SystemOf
  <2>. QED BY <2>2, <2>3, <2>4
<1>8. ASSUME b.alone PROVE Installed(l, hooks')
  <2>1. /\ \A k \in Key : (\E i \in SystemOf(hooks) : hooks[i].key = k) <=>
             k \in b.keys /\ k \notin b.todo /\ k # b.key
        /\ \A i \in SystemOf(hooks) : hooks[i].status # "deleted" \/ hooks[i].key \in Sink
    BY <1>1, <1>8 DEF Installed
  <2>2. n \notin SystemOf(hooks)
    BY <1>6, <1>8, <2>1 DEF SystemOf
  <2>3. \A i \in SystemOf(hooks) : hooks'[i] = hooks[i]
    BY <2>2 DEF SystemOf
  <2>4. ASSUME NEW k \in Key
        PROVE  (\E i \in SystemOf(hooks') : hooks'[i].key = k) <=> k \in l.keys /\ k \notin l.todo
    <3>1. (\E i \in SystemOf(hooks') : hooks'[i].key = k) <=> (\E i \in SystemOf(hooks) : hooks[i].key = k) \/ k = b.key
      BY <1>7, <2>3
    <3>. QED BY <1>3, <1>6, <2>1, <3>1
  <2>5. \A i \in SystemOf(hooks') : hooks'[i].status # "deleted" \/ hooks'[i].key \in Sink
    BY <1>7, <1>8, <2>1, <2>3
  <2>. QED BY <1>3, <2>4, <2>5 DEF Installed
<1>9. DOMAIN hooks \subseteq DOMAIN hooks' /\ IsLoad(loader[p]) /\ (l.alone => loader[p].alone /\ Installed(l, hooks'))
  BY <1>3, <1>8
<1>. QED BY <1>3, <1>4, <1>5, <1>9, LoaderMoves

\* The load creates the rule ...
LEMMA HookCreateSafe ==
  ASSUME HooksSafe, NEW p \in Process, hookload!Create(p)
  PROVE  HooksSafe' /\ RulesStay
<1>1. PICK b : b = loader[p]
  OBVIOUS
<1>2. PICK row : row = [key |-> b.key, by |-> "release", system |-> "release" = "release", modified |-> FALSE,
                        edited |-> FALSE, status |-> "on"]
  OBVIOUS
<1>3. /\ b.at = "create" /\ UNCHANGED <<hookRelease, editing>> /\ hooks' = Append(hooks, row)
      /\ loader' = [loader EXCEPT ![p] = [b EXCEPT !.at = "policy"]]
  BY <1>1, <1>2 DEF hookload!Create, hookload!Load, hookload!Continue, hookload!Insert, hookload!NewRule
<1>4. IsLoad(b)
  BY <1>3 DEF IsLoad, hookload!Idle, hookload!Failed
<1>5. b.key \in Key
  <2>1. Known(b, hooks) /\ b.keys \subseteq Key
    BY <1>1, <1>4, LoaderKnown
  <2>. QED BY <1>3, <2>1 DEF Known
<1>6. row \in HookRow /\ row.system = TRUE /\ row.edited = FALSE /\ row.by = "release" /\ row.key = b.key /\ row.status = "on"
  BY <1>2, <1>5 DEF HookRow, hookload!Status
<1>7. PICK n : n = Len(hooks) + 1
  OBVIOUS
<1>8. /\ hooks' \in Seq(HookRow \cup {None}) /\ n \in DOMAIN hooks'
      /\ DOMAIN hooks' = DOMAIN hooks \cup {n} /\ n \notin DOMAIN hooks
      /\ hooks'[n] = row /\ \A i \in DOMAIN hooks : hooks'[i] = hooks[i]
  BY <1>3, <1>6, <1>7, HooksAdded DEF HooksSafe
<1>9. RowsMarked'
  BY <1>6, <1>8 DEF HooksSafe, RowsMarked
<1>10. HooksSafe'
  <2>1. /\ b = loader[p] /\ b.at \in {"create", "adopt"} /\ UNCHANGED <<hookRelease, editing>> /\ IsLoad(b)
        /\ loader' = [loader EXCEPT ![p] = [b EXCEPT !.at = "policy"]]
    BY <1>1, <1>3, <1>4
  <2>2. hooks'[n] \in HookRow /\ hooks'[n].system /\ hooks'[n].key = b.key
    BY <1>6, <1>8
  <2>3. b.alone => /\ hooks'[n].status # "deleted" \/ b.key \in Sink
                   /\ n \in DOMAIN hooks /\ hooks[n] # None /\ hooks[n].system => hooks[n].key = b.key
    BY <1>6, <1>8
  <2>. QED BY <1>8, <1>9, <2>1, <2>2, <2>3, InstallSafe
<1>11. RulesStay
  BY <1>8 DEF RulesStay, hookload!Stored
<1>. QED BY <1>10, <1>11

\* ... or adopts the one it found, as it was when it was read.
LEMMA HookAdoptSafe ==
  ASSUME HooksSafe, NEW p \in Process, hookload!Adopt(p)
  PROVE  HooksSafe' /\ RulesStay
<1>1. PICK b : b = loader[p]
  OBVIOUS
<1>2. PICK row : row = hookload!Adopted(b.row)
  OBVIOUS
<1>3. /\ b.at = "adopt" /\ UNCHANGED <<hookRelease, editing>> /\ hooks' = [hooks EXCEPT ![b.id] = row]
      /\ loader' = [loader EXCEPT ![p] = [b EXCEPT !.at = "policy"]]
  BY <1>1, <1>2 DEF hookload!Adopt, hookload!Load, hookload!Continue
<1>4. IsLoad(b)
  BY <1>3 DEF IsLoad, hookload!Idle, hookload!Failed
<1>5. Known(b, hooks) /\ (b.alone => Installed(b, hooks))
  BY <1>1, <1>4, LoaderKnown DEF HooksSafe, AloneInstalls
<1>6. b.id \in DOMAIN hooks /\ b.row \in HookRow /\ b.row.key = b.key
  BY <1>3, <1>5 DEF Known
<1>7. /\ row \in HookRow /\ row.system = TRUE /\ row.modified = TRUE /\ row.key = b.key
      /\ row.status = b.row.status /\ row # None
  <2>1. /\ row \in HookRow /\ row.system = TRUE /\ row.modified = TRUE /\ row.key = b.key
        /\ row.status = b.row.status
    BY <1>2, <1>6 DEF HookRow, hookload!Adopted
  <2>. QED BY <2>1, ManagementAssumption
<1>8. /\ hooks' \in Seq(HookRow \cup {None}) /\ DOMAIN hooks' = DOMAIN hooks
      /\ hooks'[b.id] = row /\ \A i \in DOMAIN hooks : i # b.id => hooks'[i] = hooks[i]
  <2>1. hooks \in Seq(HookRow \cup {None}) /\ row \in HookRow \cup {None}
    BY <1>7 DEF HooksSafe, HooksTyped
  <2>. QED BY <1>3, <1>6, <2>1
<1>9. RowsMarked'
  BY <1>7, <1>8 DEF HooksSafe, RowsMarked
<1>10. b.alone => /\ row.status # "deleted" \/ b.key \in Sink
                  /\ hooks[b.id] # None /\ hooks[b.id].system => hooks[b.id].key = b.key
  BY <1>3, <1>5, <1>6, <1>7 DEF Installed
<1>11. HooksSafe'
  <2>1. PICK n : n = b.id
    OBVIOUS
  <2>2. /\ b = loader[p] /\ b.at \in {"create", "adopt"} /\ UNCHANGED <<hookRelease, editing>> /\ IsLoad(b)
        /\ loader' = [loader EXCEPT ![p] = [b EXCEPT !.at = "policy"]]
    BY <1>1, <1>3, <1>4
  <2>3. /\ hooks' \in Seq(HookRow \cup {None}) /\ n \in DOMAIN hooks' /\ DOMAIN hooks' = DOMAIN hooks \cup {n}
        /\ \A i \in DOMAIN hooks : i # n => hooks'[i] = hooks[i]
    BY <1>6, <1>8, <2>1
  <2>4. hooks'[n] \in HookRow /\ hooks'[n].system /\ hooks'[n].key = b.key
    BY <1>7, <1>8, <2>1
  <2>5. b.alone => /\ hooks'[n].status # "deleted" \/ b.key \in Sink
                   /\ n \in DOMAIN hooks /\ hooks[n] # None /\ hooks[n].system => hooks[n].key = b.key
    BY <1>8, <1>10, <2>1
  <2>. QED BY <1>9, <2>2, <2>3, <2>4, <2>5, InstallSafe
<1>12. RulesStay
  <2>1. ASSUME NEW i \in hookload!Stored
        PROVE  \/ hooks'[i] # None /\ hooks'[i].status = hooks[i].status
               \/ hooks'[i] # None /\ \E q \in Process : /\ loader[q].at = "adopt" /\ loader[q].id = i
                                                         /\ hooks'[i].status = loader[q].row.status
    <3>1. CASE i = b.id
      BY <1>1, <1>3, <1>7, <1>8, <3>1
    <3>2. CASE i # b.id
      BY <1>8, <2>1, <3>2 DEF hookload!Stored
    <3>. QED BY <3>1, <3>2
  <2>. QED BY <2>1 DEF RulesStay
<1>. QED BY <1>11, <1>12

\* A load that has to do something does not end.
HookLoadsEnd == \A p \in Process : loader[p].at = "policy" /\ loader'[p] = hookload!Idle => loader[p].todo = {}

\* One load makes a step, the others go on.
LEMMA OneLoadEnds ==
  ASSUME HooksSafe, NEW p \in Process, NEW l, loader' = [loader EXCEPT ![p] = l],
         l = hookload!Idle => loader[p].at # "policy" \/ loader[p].todo = {}
  PROVE  HookLoadsEnd
<1>1. loader'[p] = l /\ \A q \in Process : q # p => loader'[q] = loader[q]
  BY DEF HooksSafe, HooksTyped
<1>. QED BY <1>1 DEF HookLoadsEnd, hookload!Idle

\* A load that was disturbed goes on.
LEMMA DisturbedEnds ==
  ASSUME HooksSafe, NEW q \in Process, loader[q].at = "policy"
  PROVE  hookload!Disturbed[q] # hookload!Idle
<1>1. PICK l : l = hookload!Disturbed[q]
  OBVIOUS
<1>2. l.at = "policy"
  BY <1>1, DisturbedLoad
<1>. QED BY <1>1, <1>2 DEF hookload!Idle

\* Only End makes a load idle.
LEMMA LoadsEndDone ==
  ASSUME HooksSafe, NEW p \in Process,
         \/ hookload!Start(p) \/ hookload!Clear(p) \/ hookload!Demote(p) \/ hookload!Find(p)
         \/ hookload!Create(p) \/ hookload!Adopt(p) \/ hookload!End(p) \/ hookload!Crash(p)
  PROVE  HookLoadsEnd
<1>1. CASE hookload!Start(p)
  <2>1. ASSUME NEW q \in Process, loader[q].at = "policy" PROVE loader'[q] # hookload!Idle
    <3>1. q # p
      BY <1>1, <2>1 DEF hookload!Start, hookload!Busy, hookload!Idle, hookload!Failed
    <3>2. loader'[q] = hookload!Disturbed[q]
      BY <1>1, <3>1 DEF hookload!Start, hookload!Disturbed
    <3>. QED BY <2>1, <3>2, DisturbedEnds
  <2>. QED BY <2>1 DEF HookLoadsEnd
<1>2. CASE hookload!Clear(p) \/ hookload!Demote(p) \/ hookload!Create(p) \/ hookload!Adopt(p)
  <2>1. /\ loader[p].at # "policy" /\ \E l : loader' = [loader EXCEPT ![p] = l]
    BY <1>2 DEF hookload!Clear, hookload!Demote, hookload!Create, hookload!Adopt, hookload!Continue
  <2>. QED BY <2>1, OneLoadEnds
<1>3. CASE hookload!Find(p)
  <2>1. loader[p].at = "policy"
    BY <1>3 DEF hookload!Find
  <2>2. loader[p] \in LoaderOf
    BY <2>1, LoaderKnown DEF IsLoad, hookload!Idle, hookload!Failed
  <2>3. PICK key \in loader[p].todo :
          \/ /\ hookload!Of(key) = {}
             /\ loader' = [loader EXCEPT ![p] = [loader[p] EXCEPT !.todo = @ \ {key}, !.key = key, !.at = "create"]]
          \/ loader' = [loader EXCEPT ![p] = hookload!Failed]
          \/ \E i \in hookload!Existing(key) :
               loader' = [loader EXCEPT ![p] = [loader[p] EXCEPT !.todo = @ \ {key}, !.key = key,
                                                  !.at = "adopt", !.id = i, !.row = hooks[i]]]
    BY <1>3, HookFound
  <2>4. CASE loader' = [loader EXCEPT ![p] = [loader[p] EXCEPT !.todo = @ \ {key}, !.key = key, !.at = "create"]]
    <3>1. PICK l : l = [loader[p] EXCEPT !.todo = @ \ {key}, !.key = key, !.at = "create"]
      OBVIOUS
    <3>2. l # hookload!Idle
      BY <2>2, <3>1 DEF LoaderOf, hookload!Idle
    <3>. QED BY <2>4, <3>1, <3>2, OneLoadEnds
  <2>5. CASE loader' = [loader EXCEPT ![p] = hookload!Failed]
    <3>1. hookload!Failed # hookload!Idle
      BY DEF hookload!Failed, hookload!Idle
    <3>. QED BY <2>5, <3>1, OneLoadEnds
  <2>6. ASSUME NEW i \in hookload!Existing(key),
               loader' = [loader EXCEPT ![p] = [loader[p] EXCEPT !.todo = @ \ {key}, !.key = key,
                                                  !.at = "adopt", !.id = i, !.row = hooks[i]]]
        PROVE  HookLoadsEnd
    <3>1. PICK l : l = [loader[p] EXCEPT !.todo = @ \ {key}, !.key = key, !.at = "adopt", !.id = i, !.row = hooks[i]]
      OBVIOUS
    <3>2. l # hookload!Idle
      BY <2>2, <3>1 DEF LoaderOf, hookload!Idle
    <3>. QED BY <2>6, <3>1, <3>2, OneLoadEnds
  <2>. QED BY <2>3, <2>4, <2>5, <2>6
<1>4. CASE hookload!End(p)
  BY <1>4, OneLoadEnds DEF hookload!End, hookload!Continue
<1>5. CASE hookload!Crash(p)
  <2>1. loader' = [loader EXCEPT ![p] = hookload!Failed] /\ hookload!Failed # hookload!Idle
    BY <1>5 DEF hookload!Crash, hookload!Continue, hookload!Failed, hookload!Idle
  <2>. QED BY <2>1, OneLoadEnds
<1>. QED BY <1>1, <1>2, <1>3, <1>4, <1>5

(* LoadsKeepRules: however loads meet, end or are stopped, none deletes a rule that a
   user added or edited or changes its status, and one that meets no other, nor a user
   who saves a row that changed since it was read, installs its release, but for types
   that only users had (load_hook_strategy.py, engine_hook_rule_modify.py).        *)
THEOREM LoadsAlwaysKeepRules == Spec => LoadsKeepRules
<1>. DEFINE Safe == part = "hooks" => HooksSafe
<1>1. Init => Safe
  <2>1. SUFFICES ASSUME hookload!Init PROVE HooksSafe
    BY DEF Init
  <2>2. /\ hookRelease = 1 /\ hooks = <<>> /\ editing = [u \in Editor |-> None]
        /\ loader = [p \in Process |-> hookload!Idle]
    BY <2>1 DEF hookload!Init
  <2>3. 1 \in DOMAIN HookReleases
    <3>1. HookReleases \in Seq(SUBSET Key) /\ HookReleases # <<>>
      BY ManagementAssumption
    <3>. QED BY <3>1
  <2>4. HooksTyped
    BY <2>2, <2>3 DEF HooksTyped
  <2>5. RowsMarked /\ EditsKnown /\ LoadsKnown /\ AloneInstalls
    BY <2>2 DEF RowsMarked, EditsKnown, LoadsKnown, AloneInstalls, IsLoad
  <2>. QED BY <2>4, <2>5 DEF HooksSafe
<1>2. ASSUME HooksSafe, hookload!Next \/ UNCHANGED hookVars
      PROVE  HooksSafe' /\ (UNCHANGED loader \/ (HookLoadsEnd /\ (UNCHANGED hooks \/ RulesStay \/ editing' # editing)))
  <2>1. CASE UNCHANGED hookVars \/ hookload!Deploy \/ \E t \in Type : hookload!UserType(t)
    <3>1. UNCHANGED <<hooks, editing, loader>> /\ hookRelease' \in DOMAIN HookReleases
      BY <1>2, <2>1 DEF hookVars, hookload!Deploy, hookload!UserType, hookload!Request, HooksSafe, HooksTyped
    <3>2. HooksSafe'
      BY <1>2, <3>1 DEF HooksSafe, HooksTyped, RowsMarked, EditsKnown, LoadsKnown, AloneInstalls, IsLoad
    <3>. QED BY <3>1, <3>2
  <2>2. ASSUME NEW u \in Editor, \/ \E key \in Key : hookload!Add(u, key) \/ \E i \in 1..MaxHooks : hookload!Modify(u, i, key)
                                 \/ \E i \in 1..MaxHooks, st \in hookload!Status : hookload!SwitchOne(u, i, st)
        PROVE  HooksSafe' /\ UNCHANGED loader
    BY <1>2, <2>2, AddSafe, ModifySafe, SwitchOneSafe
  <2>4. ASSUME NEW u \in Editor, hookload!Save(u)
        PROVE  HooksSafe' /\ HookLoadsEnd /\ editing' # editing
    <3>1. editing' # editing
      BY <1>2, <2>4 DEF hookload!Save, HooksSafe, HooksTyped
    <3>2. HooksSafe' /\ loader' \in {loader, hookload!Disturbed}
      BY <1>2, <2>4, SaveNewSafe, SaveRowSafe
    <3>3. HookLoadsEnd
      BY <1>2, <3>2, DisturbedEnds DEF HookLoadsEnd, hookload!Idle
    <3>. QED BY <3>1, <3>2, <3>3
  <2>5. CASE \E S \in SUBSET (1..MaxHooks) \ {{}}, st \in hookload!Status :
               hookload!Switch(S, st) \/ hookload!SwitchType(S, st)
    BY <1>2, <2>5, SwitchSafe, SwitchTypeSafe
  <2>3. ASSUME NEW p \in Process,
               \/ hookload!Start(p) \/ hookload!Clear(p) \/ hookload!Demote(p) \/ hookload!Find(p)
               \/ hookload!Create(p) \/ hookload!Adopt(p) \/ hookload!End(p) \/ hookload!Crash(p)
        PROVE  HooksSafe' /\ HookLoadsEnd /\ (UNCHANGED hooks \/ RulesStay)
    <3>1. HookLoadsEnd
      BY <1>2, <2>3, LoadsEndDone
    <3>2. HooksSafe' /\ (UNCHANGED hooks \/ RulesStay)
      BY <1>2, <2>3, HookStartSafe, HookClearSafe, HookDemoteSafe, HookFindSafe, HookCreateSafe,
         HookAdoptSafe, HookEndSafe
    <3>. QED BY <3>1, <3>2
  <2>. QED BY <1>2, <2>1, <2>2, <2>3, <2>4, <2>5 DEF hookload!Next
<1>3. ASSUME HooksSafe, UNCHANGED loader \/ (HookLoadsEnd /\ (UNCHANGED hooks \/ RulesStay \/ editing' # editing))
      PROVE  hookload!UserRulesStay
  BY <1>3 DEF hookload!UserRulesStay, RulesStay, hookload!Stored
<1>4. ASSUME HooksSafe, UNCHANGED loader \/ (HookLoadsEnd /\ (UNCHANGED hooks \/ RulesStay \/ editing' # editing))
      PROVE  hookload!ReleaseInstalled
  <2>1. ASSUME NEW p \in Process, loader[p].at = "policy", loader[p].alone, loader'[p] = hookload!Idle
        PROVE  /\ {hooks[i].key : i \in hookload!System} = loader[p].keys
               /\ \A i \in hookload!System : hookload!Standing(i) \/ hooks[i].key \in Sink
    <3>1. loader[p].todo = {}
      BY <1>4, <2>1 DEF HookLoadsEnd, hookload!Idle
    <3>2. IsLoad(loader[p])
      BY <2>1 DEF IsLoad, hookload!Idle, hookload!Failed
    <3>3. Installed(loader[p], hooks) /\ loader[p].keys \subseteq Key
      BY <1>4, <2>1, <3>2, LoaderKnown DEF HooksSafe, AloneInstalls
    <3>4. hookload!System = SystemOf(hooks)
      BY DEF hookload!System, hookload!Stored, SystemOf
    <3>5. /\ \A k \in Key : (\E i \in SystemOf(hooks) : hooks[i].key = k) <=> k \in loader[p].keys
          /\ \A i \in SystemOf(hooks) : hooks[i].status # "deleted" \/ hooks[i].key \in Sink
      BY <2>1, <3>1, <3>3 DEF Installed
    <3>6. \A i \in SystemOf(hooks) : hooks[i].key \in Key
      BY <1>4, RowThere DEF HooksSafe, SystemOf, HookRow
    <3>. QED BY <3>3, <3>4, <3>5, <3>6 DEF hookload!Standing
  <2>. QED BY <2>1 DEF hookload!ReleaseInstalled
<1>5. Safe /\ [Next]_vars => Safe' /\ (part = "hooks" => hookload!LoadStep)
  BY <1>2, <1>3, <1>4 DEF Next, vars, hookload!LoadStep
<1>. QED BY <1>1, <1>5, PTL DEF Spec, LoadsKeepRules

--------------------------------------------------------------------------------
(* SensitiveRules: what a load that meets no other one did is in one rule of the
   system each, whatever updates of users were read before.                       *)

LoadOf == [at: {"hooks", "rules"} \cup Pattern, todo: SUBSET Pattern, ids: SUBSET Nat, alone: BOOLEAN,
           patterns: SUBSET Pattern]

RulesTyped ==
  /\ deployed \in DOMAIN RuleReleases
  /\ rules \in Seq(RuleRow \cup {None})
  /\ update \in [Owner -> RuleUpdate \cup {None}]
  /\ load \in [Process -> LoadOf \cup {sensitive!NoLoad, sensitive!Down}]

\* A load that is under way.
IsLoading(l) == l \notin {sensitive!NoLoad, sensitive!Down}

\* Two versions of a rule have one owner, and of the system's one pattern.
Agree(r, s) == r.system = s.system /\ (r.system => r.pattern = s.pattern)

\* What a user writes agrees with the rule, if it is there, and with what others write.
UpdateKnown(u) == update[u] # None =>
  /\ update[u].id \in DOMAIN rules
  /\ rules[update[u].id] # None => Agree(update[u].row, rules[update[u].id])
  /\ \A v \in Owner : update[v] # None /\ update[v].id = update[u].id => Agree(update[v].row, update[u].row)
UpdatesKnown == \A u \in Owner : UpdateKnown(u)

\* Each pattern that is done is in one rule of the load's, and no other one.
LoadedRules(l, r) ==
  /\ l.at \in Pattern => l.at \in l.todo
  /\ l.todo \subseteq l.patterns
  /\ \A i \in l.ids : /\ i \in DOMAIN r /\ r[i] # None /\ r[i].system
                      /\ r[i].pattern \in l.patterns /\ r[i].pattern \notin l.todo
  /\ \A k \in l.patterns : k \notin l.todo => \E i \in l.ids : r[i].pattern = k
  /\ \A i, j \in l.ids : r[i].pattern = r[j].pattern => i = j

AloneLoads == \A p \in Process : IsLoading(load[p]) /\ load[p].alone =>
  /\ \A q \in Process : q # p => ~IsLoading(load[q])
  /\ LoadedRules(load[p], rules)

RulesSafe == RulesTyped /\ UpdatesKnown /\ AloneLoads

\* Rules of the system stay, with their patterns.
SystemStays == /\ DOMAIN rules \subseteq DOMAIN rules'
               /\ \A i \in DOMAIN rules : rules[i] # None /\ rules[i].system =>
                    rules'[i] # None /\ rules'[i].system /\ rules'[i].pattern = rules[i].pattern

LEMMA LoadedStays ==
  ASSUME SystemStays, NEW l, LoadedRules(l, rules)
  PROVE  LoadedRules(l, rules')
<1>1. /\ DOMAIN rules \subseteq DOMAIN rules'
      /\ \A i \in l.ids : /\ i \in DOMAIN rules /\ rules'[i] # None /\ rules'[i].system
                          /\ rules'[i].pattern = rules[i].pattern
  BY DEF SystemStays, LoadedRules
<1>2. \A k \in l.patterns : k \notin l.todo => \E i \in l.ids : rules'[i].pattern = k
  BY <1>1 DEF LoadedRules
<1>3. \A i, j \in l.ids : rules'[i].pattern = rules'[j].pattern => i = j
  BY <1>1 DEF LoadedRules
<1>. QED BY <1>1, <1>2, <1>3 DEF LoadedRules

\* A row that is there has its fields, and is not None.
LEMMA RuleThere ==
  ASSUME RulesTyped, NEW i \in DOMAIN rules
  PROVE  /\ rules[i] \in RuleRow \cup {None} /\ None \notin RuleRow
         /\ rules[i] # None => rules[i] \in RuleRow
<1>1. rules[i] \in RuleRow \cup {None}
  BY ElementOf DEF RulesTyped
<1>. QED BY <1>1, ManagementAssumption

\* Rules that are written or gone keep what updates agreed with.
LEMMA UpdatesStay ==
  ASSUME UpdatesKnown, UNCHANGED update, DOMAIN rules \subseteq DOMAIN rules',
         \A i \in DOMAIN rules : rules'[i] # None => rules[i] # None /\ Agree(rules[i], rules'[i])
  PROVE  UpdatesKnown'
  BY DEF UpdatesKnown, UpdateKnown, Agree

\* A step of users.
LEMMA RulesEdited ==
  ASSUME RulesSafe, RulesTyped', UpdatesKnown', UNCHANGED load, SystemStays
  PROVE  RulesSafe'
<1>1. \A p \in Process : IsLoading(load[p]) /\ load[p].alone => LoadedRules(load[p], rules')
  BY LoadedStays DEF RulesSafe, AloneLoads
<1>2. AloneLoads'
  BY <1>1 DEF RulesSafe, AloneLoads, IsLoading
<1>. QED BY <1>2 DEF RulesSafe

\* A step of a load that is under way.
LEMMA LoadMoves ==
  ASSUME RulesSafe, RulesTyped', UpdatesKnown', NEW p \in Process, IsLoading(load[p]),
         NEW l, load' = [load EXCEPT ![p] = l],
         IsLoading(l) /\ l.alone => load[p].alone /\ LoadedRules(l, rules')
  PROVE  RulesSafe'
<1>1. load'[p] = l /\ \A q \in Process : q # p => load'[q] = load[q]
  BY DEF RulesSafe, RulesTyped
<1>2. ASSUME NEW q \in Process, IsLoading(load'[q]), load'[q].alone
      PROVE  /\ \A r \in Process : r # q => ~IsLoading(load'[r])
             /\ LoadedRules(load'[q], rules')
  <2>1. q = p
    <3>1. SUFFICES ASSUME q # p PROVE FALSE
      OBVIOUS
    <3>2. IsLoading(load[q]) /\ load[q].alone
      BY <1>1, <1>2, <3>1
    <3>. QED BY <3>1, <3>2 DEF RulesSafe, AloneLoads
  <2>2. IsLoading(l) /\ l.alone /\ load[p].alone /\ LoadedRules(l, rules')
    BY <1>1, <1>2, <2>1
  <2>3. \A r \in Process : r # p => ~IsLoading(load[r])
    BY <2>2 DEF RulesSafe, AloneLoads
  <2>. QED BY <1>1, <2>1, <2>2, <2>3
<1>3. AloneLoads'
  BY <1>2 DEF AloneLoads, IsLoading
<1>. QED BY <1>3 DEF RulesSafe

\* A rule is added: updates and the rules there are stay.
LEMMA RuleAdded ==
  ASSUME RulesSafe, NEW row \in RuleRow, rules' = Append(rules, row)
  PROVE  /\ rules' \in Seq(RuleRow \cup {None}) /\ SystemStays
         /\ DOMAIN rules' = DOMAIN rules \cup {Len(rules) + 1} /\ Len(rules) + 1 \notin DOMAIN rules
         /\ Len(rules) + 1 \in Nat /\ Len(rules') = Len(rules) + 1
         /\ rules'[Len(rules) + 1] = row /\ \A i \in DOMAIN rules : rules'[i] = rules[i]
         /\ UNCHANGED update => UpdatesKnown'
<1>1. /\ rules \in Seq(RuleRow \cup {None}) /\ row \in RuleRow \cup {None} /\ Len(rules) \in Nat
      /\ DOMAIN rules = 1..Len(rules)
  BY DEF RulesSafe, RulesTyped
<1>2. /\ rules' \in Seq(RuleRow \cup {None}) /\ Len(rules') = Len(rules) + 1 /\ DOMAIN rules' = 1..(Len(rules) + 1)
      /\ rules'[Len(rules) + 1] = row /\ \A i \in 1..Len(rules) : rules'[i] = rules[i]
  BY <1>1
<1>3. /\ DOMAIN rules' = DOMAIN rules \cup {Len(rules) + 1} /\ Len(rules) + 1 \notin DOMAIN rules
      /\ Len(rules) + 1 \in Nat /\ DOMAIN rules \subseteq DOMAIN rules' /\ \A i \in DOMAIN rules : rules'[i] = rules[i]
  BY <1>1, <1>2
<1>4. SystemStays
  BY <1>3 DEF SystemStays
<1>5. UNCHANGED update => UpdatesKnown'
  BY <1>3, UpdatesStay DEF RulesSafe, Agree
<1>. QED BY <1>2, <1>3, <1>4, <1>5

\* Rules are written one by one, as EXCEPT and a status do it.
LEMMA RulesWritten ==
  ASSUME RulesTyped, NEW f, rules' = [i \in DOMAIN rules |-> f[i]],
         \A i \in DOMAIN rules : f[i] \in RuleRow \cup {None}
  PROVE  /\ rules' \in Seq(RuleRow \cup {None}) /\ DOMAIN rules' = DOMAIN rules
         /\ \A i \in DOMAIN rules : rules'[i] = f[i]
<1>1. PICK n \in Nat : n = Len(rules) /\ DOMAIN rules = 1..n
  BY DEF RulesTyped
<1>2. rules' = [i \in 1..n |-> f[i]] /\ \A i \in 1..n : f[i] \in RuleRow \cup {None}
  BY <1>1
<1>. QED BY <1>1, <1>2

\* A user creates a rule ...
LEMMA RuleCreateSafe ==
  ASSUME RulesSafe, NEW u \in Owner, NEW p \in Pattern, NEW st \in sensitive!Status, sensitive!Create(u, p, st)
  PROVE  RulesSafe' /\ UNCHANGED load
<1>1. PICK row : row = [user |-> u, pattern |-> p, status |-> st, system |-> FALSE]
  OBVIOUS
<1>2. rules' = Append(rules, row) /\ UNCHANGED <<deployed, update, load>>
  BY <1>1 DEF sensitive!Create, sensitive!Insert
<1>3. row \in RuleRow
  BY <1>1 DEF RuleRow, sensitive!Status
<1>4. rules' \in Seq(RuleRow \cup {None}) /\ SystemStays /\ UpdatesKnown'
  BY <1>2, <1>3, RuleAdded
<1>5. RulesTyped'
  BY <1>2, <1>4 DEF RulesSafe, RulesTyped
<1>. QED BY <1>2, <1>4, <1>5, RulesEdited

\* ... reads one to update it ...
LEMMA UpdateReadSafe ==
  ASSUME RulesSafe, NEW u \in Owner, NEW i, NEW p \in Pattern, NEW st \in sensitive!Status,
         sensitive!UpdateRead(u, i, p, st)
  PROVE  RulesSafe' /\ UNCHANGED <<load, rules>>
<1>1. PICK row : row = IF rules[i].system THEN [rules[i] EXCEPT !.status = st]
                       ELSE [rules[i] EXCEPT !.pattern = p, !.status = st]
  OBVIOUS
<1>2. /\ UNCHANGED <<deployed, rules, load>> /\ i \in DOMAIN rules /\ rules[i] # None
      /\ update' = [update EXCEPT ![u] = [id |-> i, row |-> row]]
  BY <1>1 DEF sensitive!UpdateRead, sensitive!Stored
<1>3. rules[i] \in RuleRow /\ i \in Nat
  BY <1>2, RuleThere DEF RulesSafe, RulesTyped
<1>4. row \in RuleRow /\ Agree(row, rules[i])
  <2>1. CASE rules[i].system
    BY <1>1, <1>3, <2>1 DEF RuleRow, Agree, sensitive!Status
  <2>2. CASE ~rules[i].system
    BY <1>1, <1>3, <2>2 DEF RuleRow, Agree, sensitive!Status
  <2>. QED BY <2>1, <2>2
<1>5. PICK x : x = [id |-> i, row |-> row]
  OBVIOUS
<1>6. x \in RuleUpdate /\ x.id = i /\ x.row = row /\ x # None
  <2>1. x \in RuleUpdate /\ x.id = i /\ x.row = row
    BY <1>3, <1>4, <1>5 DEF RuleUpdate
  <2>. QED BY <2>1, ManagementAssumption
<1>7. update'[u] = x /\ \A v \in Owner : v # u => update'[v] = update[v]
  BY <1>2, <1>5 DEF RulesSafe, RulesTyped
<1>8. RulesTyped'
  BY <1>2, <1>5, <1>6 DEF RulesSafe, RulesTyped
<1>9. ASSUME NEW v \in Owner, update'[v] # None
      PROVE  /\ update'[v].id \in DOMAIN rules
             /\ rules[update'[v].id] # None => Agree(update'[v].row, rules[update'[v].id])
  BY <1>2, <1>4, <1>6, <1>7, <1>9 DEF RulesSafe, UpdatesKnown, UpdateKnown
<1>10. ASSUME NEW v \in Owner, update'[v] # None, NEW w \in Owner, update'[w] # None, update'[w].id = update'[v].id
       PROVE  Agree(update'[w].row, update'[v].row)
  <2>1. CASE update'[v].id = i
    BY <1>2, <1>9, <1>10, <2>1 DEF Agree
  <2>2. CASE update'[v].id # i
    BY <1>6, <1>7, <1>10, <2>2 DEF RulesSafe, UpdatesKnown, UpdateKnown
  <2>. QED BY <2>1, <2>2
<1>11. UpdatesKnown'
  BY <1>2, <1>9, <1>10 DEF UpdatesKnown, UpdateKnown
<1>12. SystemStays
  BY <1>2 DEF SystemStays
<1>. QED BY <1>2, <1>8, <1>11, <1>12, RulesEdited

\* ... and writes it, which may bring back one of the system that is gone.
LEMMA UpdateWriteSafe ==
  ASSUME RulesSafe, NEW u \in Owner, sensitive!UpdateWrite(u)
  PROVE  RulesSafe' /\ UNCHANGED load
<1>1. PICK x : x = update[u]
  OBVIOUS
<1>2. /\ x # None /\ UNCHANGED <<deployed, load>> /\ update' = [update EXCEPT ![u] = None]
      /\ rules' = IF x.row.system \/ x.id \in sensitive!Stored THEN [rules EXCEPT ![x.id] = x.row] ELSE rules
  BY <1>1 DEF sensitive!UpdateWrite
<1>3. /\ x \in RuleUpdate /\ x.id \in DOMAIN rules /\ x.row \in RuleRow
      /\ rules[x.id] # None => Agree(x.row, rules[x.id])
      /\ \A v \in Owner : update[v] # None /\ update[v].id = x.id => Agree(update[v].row, x.row)
  BY <1>1, <1>2 DEF RulesSafe, RulesTyped, UpdatesKnown, UpdateKnown, RuleUpdate
<1>4. x.row # None
  BY <1>3, ManagementAssumption
<1>5. /\ rules' \in Seq(RuleRow \cup {None}) /\ DOMAIN rules' = DOMAIN rules
      /\ \A i \in DOMAIN rules : i # x.id => rules'[i] = rules[i]
      /\ rules'[x.id] \in {x.row, rules[x.id]}
  <2>1. rules \in Seq(RuleRow \cup {None}) /\ x.row \in RuleRow \cup {None}
    BY <1>3 DEF RulesSafe, RulesTyped
  <2>. QED BY <1>2, <1>3, <2>1
<1>6. update'[u] = None /\ \A v \in Owner : v # u => update'[v] = update[v]
  BY <1>2 DEF RulesSafe, RulesTyped
<1>7. RulesTyped'
  BY <1>2, <1>5 DEF RulesSafe, RulesTyped
<1>8. ASSUME NEW v \in Owner, update'[v] # None
      PROVE  /\ update'[v].id \in DOMAIN rules'
             /\ rules'[update'[v].id] # None => Agree(update'[v].row, rules'[update'[v].id])
             /\ \A w \in Owner : update'[w] # None /\ update'[w].id = update'[v].id => Agree(update'[w].row, update'[v].row)
  <2>1. update'[v] = update[v] /\ UpdateKnown(v) /\ update[v] # None
    BY <1>6, <1>8 DEF RulesSafe, UpdatesKnown
  <2>2. rules'[update'[v].id] # None => Agree(update'[v].row, rules'[update'[v].id])
    BY <1>3, <1>5, <2>1 DEF UpdateKnown
  <2>. QED BY <1>5, <1>6, <2>1, <2>2 DEF UpdateKnown
<1>9. UpdatesKnown'
  BY <1>8 DEF UpdatesKnown, UpdateKnown
<1>10. SystemStays
  BY <1>3, <1>4, <1>5 DEF SystemStays, Agree
<1>. QED BY <1>2, <1>7, <1>9, <1>10, RulesEdited

\* Statuses of rules are set.
LEMMA SetStatusSafe ==
  ASSUME RulesSafe, UNCHANGED <<deployed, update, load>>, NEW S, S \subseteq sensitive!Stored,
         NEW st \in {"on", "off", "deleted"}, sensitive!SetStatus(S, st)
  PROVE  RulesSafe'
<1>1. PICK f : f = [i \in DOMAIN rules |-> IF i \in S THEN [rules[i] EXCEPT !.status = st] ELSE rules[i]]
  OBVIOUS
<1>2. rules' = [i \in DOMAIN rules |-> f[i]]
  BY <1>1 DEF sensitive!SetStatus
<1>3. ASSUME NEW i \in DOMAIN rules
      PROVE  \/ f[i] = rules[i]
             \/ /\ rules[i] # None /\ f[i] # None /\ f[i] \in RuleRow
                /\ f[i].system = rules[i].system /\ f[i].pattern = rules[i].pattern
  <2>1. CASE i \notin S
    BY <1>1, <2>1
  <2>2. CASE i \in S
    <3>1. rules[i] # None /\ rules[i] \in RuleRow /\ f[i] = [rules[i] EXCEPT !.status = st] /\ None \notin RuleRow
      BY <1>1, <2>2, RuleThere DEF RulesSafe, sensitive!Stored
    <3>2. f[i] \in RuleRow /\ f[i].system = rules[i].system /\ f[i].pattern = rules[i].pattern
      BY <3>1 DEF RuleRow
    <3>. QED BY <3>1, <3>2
  <2>. QED BY <2>1, <2>2
<1>4. \A i \in DOMAIN rules : f[i] \in RuleRow \cup {None}
  BY <1>3, RuleThere DEF RulesSafe
<1>5. /\ rules' \in Seq(RuleRow \cup {None}) /\ DOMAIN rules' = DOMAIN rules
      /\ \A i \in DOMAIN rules : rules'[i] = f[i]
  BY <1>2, <1>4, RulesWritten DEF RulesSafe
<1>6. RulesTyped'
  BY <1>5 DEF RulesSafe, RulesTyped
<1>7. UpdatesKnown'
  BY <1>3, <1>5, UpdatesStay DEF RulesSafe, Agree
<1>8. SystemStays
  BY <1>3, <1>5 DEF SystemStays
<1>. QED BY <1>6, <1>7, <1>8, RulesEdited

\* A load that is under way has its fields.
LEMMA LoadingKnown ==
  ASSUME RulesSafe, NEW p \in Process, load[p].at \in {"hooks", "rules"} \cup Pattern \/ IsLoading(load[p])
  PROVE  /\ IsLoading(load[p]) /\ load[p] \in LoadOf /\ load[p].patterns \subseteq Pattern
         /\ load[p].alone => LoadedRules(load[p], rules)
<1>1. IsLoading(load[p])
  <2>1. CASE load[p].at \in {"hooks", "rules"} \cup Pattern
    BY <2>1, ManagementAssumption DEF IsLoading, sensitive!NoLoad, sensitive!Down
  <2>. QED BY <2>1
<1>2. load[p] \in LoadOf
  BY <1>1 DEF RulesSafe, RulesTyped, IsLoading
<1>3. load[p].patterns \subseteq Pattern
  BY <1>2 DEF LoadOf
<1>. QED BY <1>1, <1>2, <1>3 DEF RulesSafe, AloneLoads

\* What a step of a load may do to rules.
RulesLeft == \A i \in sensitive!Stored : rules'[i] = rules[i] \/ (rules[i].system /\ rules'[i] = None)

\* What a load that met no other one leaves.
ReleaseLeft(p) ==
  /\ {rules'[i].pattern : i \in sensitive!System'} = load[p].patterns
  /\ \A i, j \in sensitive!System' : rules'[i].pattern = rules'[j].pattern => i = j

RuleLoadsEnd == \A p \in Process :
  sensitive!Loaded(p) /\ load'[p] = sensitive!NoLoad /\ load[p].alone => ReleaseLeft(p)

\* One load makes a step, the others go on.
LEMMA OneRuleLoad ==
  ASSUME RulesSafe, NEW p \in Process, NEW l, load' = [load EXCEPT ![p] = l],
         sensitive!Loaded(p) /\ l = sensitive!NoLoad /\ load[p].alone => ReleaseLeft(p)
  PROVE  RuleLoadsEnd
<1>1. load'[p] = l /\ \A q \in Process : q # p => load'[q] = load[q]
  BY DEF RulesSafe, RulesTyped
<1>. QED BY <1>1 DEF RuleLoadsEnd, sensitive!Loaded, sensitive!NoLoad

\* A load begins: it is alone if there is no other, which it disturbs.
LEMMA LoadStartSafe ==
  ASSUME RulesSafe, NEW p \in Process, sensitive!LoadStart(p)
  PROVE  RulesSafe' /\ UNCHANGED rules /\ RuleLoadsEnd
<1>1. PICK b \in BOOLEAN : b = (sensitive!Loading = {})
  OBVIOUS
<1>2. PICK patterns : patterns = sensitive!Bound(RuleReleases[deployed])
  OBVIOUS
<1>2a. PICK l : l = [at |-> "hooks", todo |-> patterns, patterns |-> patterns, ids |-> {}, alone |-> b]
  OBVIOUS
<1>3. /\ ~IsLoading(load[p]) /\ UNCHANGED <<deployed, rules, update>>
      /\ load' = [q \in Process |-> IF q = p THEN l
                    ELSE IF q \in sensitive!Loading THEN [load[q] EXCEPT !.alone = FALSE] ELSE load[q]]
  BY <1>1, <1>2, <1>2a DEF sensitive!LoadStart, sensitive!Loading, IsLoading
<1>4. load \in [Process -> LoadOf \cup {sensitive!NoLoad, sensitive!Down}] /\ deployed \in DOMAIN RuleReleases
  BY DEF RulesSafe, RulesTyped
<1>5. patterns \in SUBSET Pattern
  <2>1. RuleReleases \in Seq(SUBSET Pattern)
    BY ManagementAssumption
  <2>2. RuleReleases[deployed] \in SUBSET Pattern
    BY <1>4, <2>1
  <2>. QED BY <1>2, <2>2 DEF sensitive!Bound
<1>6. /\ l \in LoadOf /\ l.at = "hooks" /\ l.alone = b /\ l.ids = {} /\ l.todo = l.patterns
  BY <1>5, <1>2a DEF LoadOf
<1>7. load'[p] = l
  BY <1>3
<1>8. ASSUME NEW q \in Process, q # p
      PROVE  \/ ~IsLoading(load[q]) /\ load'[q] = load[q]
             \/ /\ IsLoading(load[q]) /\ sensitive!Loading # {} /\ load[q] \in LoadOf
                /\ load'[q] \in LoadOf /\ ~load'[q].alone /\ load'[q].at = load[q].at
  <2>1. CASE q \notin sensitive!Loading
    BY <1>3, <1>8, <2>1 DEF sensitive!Loading, IsLoading
  <2>2. CASE q \in sensitive!Loading
    <3>1. load'[q] = [load[q] EXCEPT !.alone = FALSE]
      BY <1>3, <1>8, <2>2
    <3>2. load[q] \in LoadOf /\ IsLoading(load[q])
      BY <1>4, <1>8, <2>2 DEF sensitive!Loading, IsLoading
    <3>3. load'[q] \in LoadOf /\ ~load'[q].alone /\ load'[q].at = load[q].at
      BY <3>1, <3>2 DEF LoadOf
    <3>. QED BY <2>2, <3>2, <3>3
  <2>. QED BY <2>1, <2>2
<1>9. RulesTyped'
  <2>1. \A q \in Process : load'[q] \in LoadOf \cup {sensitive!NoLoad, sensitive!Down}
    BY <1>4, <1>6, <1>7, <1>8
  <2>2. load' = [q \in Process |-> load'[q]]
    BY <1>3
  <2>3. load' \in [Process -> LoadOf \cup {sensitive!NoLoad, sensitive!Down}]
    BY <2>1, <2>2
  <2>. QED BY <1>3, <2>3 DEF RulesSafe, RulesTyped
<1>10. UpdatesKnown'
  BY <1>3 DEF RulesSafe, UpdatesKnown, UpdateKnown
<1>11. AloneLoads'
  <2>1. ASSUME NEW q \in Process, IsLoading(load'[q]), load'[q].alone
        PROVE  /\ \A r \in Process : r # q => ~IsLoading(load'[r])
               /\ LoadedRules(load'[q], rules)
    <3>1. q = p
      BY <1>8, <2>1
    <3>2. sensitive!Loading = {}
      BY <1>1, <1>6, <1>7, <2>1, <3>1
    <3>3. "hooks" \notin Pattern
      BY ManagementAssumption
    <3>4. LoadedRules(l, rules)
      BY <1>6, <3>3 DEF LoadedRules
    <3>5. \A r \in Process : r # p => ~IsLoading(load'[r])
      BY <1>8, <3>2
    <3>. QED BY <1>7, <3>1, <3>4, <3>5
  <2>. QED BY <1>3, <2>1 DEF AloneLoads, IsLoading
<1>12. RuleLoadsEnd
  <2>1. ASSUME NEW q \in Process, load[q].at = "rules" PROVE load'[q] # sensitive!NoLoad
    <3>1. IsLoading(load[q])
      BY <2>1, LoadingKnown
    <3>2. load'[q].at = "rules"
      BY <1>3, <1>8, <2>1, <3>1
    <3>. QED BY <3>2 DEF sensitive!NoLoad
  <2>. QED BY <2>1 DEF RuleLoadsEnd, sensitive!Loaded
<1>. QED BY <1>3, <1>9, <1>10, <1>11, <1>12 DEF RulesSafe

\* The check sums are saved, or the process is stopped.
LEMMA LoadOnSafe ==
  ASSUME RulesSafe, NEW p \in Process, sensitive!SaveSha1sum(p) \/ sensitive!Crash(p)
  PROVE  RulesSafe' /\ UNCHANGED rules /\ RuleLoadsEnd
<1>1. UNCHANGED <<deployed, rules, update>>
  BY DEF sensitive!SaveSha1sum, sensitive!Crash
<1>2. IsLoading(load[p])
  <2>1. CASE sensitive!SaveSha1sum(p)
    BY <2>1, LoadingKnown DEF sensitive!SaveSha1sum
  <2>2. CASE sensitive!Crash(p)
    BY <2>2 DEF sensitive!Crash, sensitive!Loading, IsLoading
  <2>. QED BY <2>1, <2>2
<1>3. /\ load[p] \in LoadOf /\ (load[p].alone => LoadedRules(load[p], rules))
      /\ load \in [Process -> LoadOf \cup {sensitive!NoLoad, sensitive!Down}]
  BY <1>2, LoadingKnown DEF RulesSafe, RulesTyped
<1>4. UpdatesKnown'
  BY <1>1 DEF RulesSafe, UpdatesKnown, UpdateKnown
<1>5. CASE sensitive!SaveSha1sum(p)
  <2>1. PICK l : l = [load[p] EXCEPT !.at = "rules"]
    OBVIOUS
  <2>2. load' = [load EXCEPT ![p] = l] /\ load[p].at = "hooks"
    BY <1>5, <2>1 DEF sensitive!SaveSha1sum
  <2>3. /\ l \in LoadOf /\ l.at = "rules" /\ l.todo = load[p].todo /\ l.ids = load[p].ids
        /\ l.alone = load[p].alone /\ l.patterns = load[p].patterns
    BY <1>3, <2>1 DEF LoadOf
  <2>4. RulesTyped'
    BY <1>1, <1>3, <2>2, <2>3 DEF RulesSafe, RulesTyped
  <2>5. l.alone => load[p].alone /\ LoadedRules(l, rules')
    <3>1. "rules" \notin Pattern
      BY ManagementAssumption
    <3>. QED BY <1>1, <1>3, <2>3, <3>1 DEF LoadedRules
  <2>6. RulesSafe'
    BY <1>2, <1>4, <2>2, <2>4, <2>5, LoadMoves
  <2>7. RuleLoadsEnd
    BY <2>2, OneRuleLoad DEF sensitive!Loaded
  <2>. QED BY <1>1, <2>6, <2>7
<1>6. CASE sensitive!Crash(p)
  <2>1. load' = [load EXCEPT ![p] = sensitive!Down] /\ ~IsLoading(sensitive!Down)
    BY <1>6 DEF sensitive!Crash, IsLoading
  <2>2. RulesTyped'
    BY <1>1, <1>3, <2>1 DEF RulesSafe, RulesTyped
  <2>3. RulesSafe'
    BY <1>2, <1>4, <2>1, <2>2, LoadMoves
  <2>4. sensitive!Down # sensitive!NoLoad
    BY DEF sensitive!Down, sensitive!NoLoad
  <2>5. RuleLoadsEnd
    BY <2>1, <2>4, OneRuleLoad
  <2>. QED BY <1>1, <2>3, <2>5
<1>. QED BY <1>5, <1>6

\* The first rule of the system that has a pattern.
LEMMA FirstExists ==
  ASSUME RulesTyped, NEW k, sensitive!Exists(k) # {}
  PROVE  /\ sensitive!Min(sensitive!Exists(k)) \in sensitive!Exists(k)
         /\ sensitive!Min(sensitive!Exists(k)) \in Nat
<1>1. PICK S : S = sensitive!Exists(k)
  OBVIOUS
<1>2. S \subseteq 1..Len(rules) /\ Len(rules) \in Nat
  <2>1. S \subseteq DOMAIN rules
    BY <1>1 DEF sensitive!Exists, sensitive!System, sensitive!Stored
  <2>. QED BY <2>1 DEF RulesTyped
<1>3. S \in SUBSET Nat
  BY <1>2, NumbersOf
<1>4. \E i \in S : \A j \in S : i <= j
  BY <1>1, <1>3, LeastOf
<1>5. sensitive!Min(S) \in S
  BY <1>4 DEF sensitive!Min
<1>. QED BY <1>1, <1>3, <1>5

\* A load looks for a rule of the release, and takes it or will create it.
LEMMA LoadFindSafe ==
  ASSUME RulesSafe, NEW p \in Process, sensitive!LoadFind(p)
  PROVE  RulesSafe' /\ UNCHANGED rules /\ RuleLoadsEnd
<1>1. PICK b : b = load[p]
  OBVIOUS
<1>2. b.at = "rules" /\ UNCHANGED <<deployed, rules, update>>
  BY <1>1 DEF sensitive!LoadFind
<1>3. PICK k \in b.todo : load' = [load EXCEPT ![p] =
         IF sensitive!Exists(k) = {} THEN [b EXCEPT !.at = k]
         ELSE [b EXCEPT !.todo = @ \ {k}, !.ids = @ \cup {sensitive!Min(sensitive!Exists(k))}]]
  <2>1. PICK k \in load[p].todo : load' = [load EXCEPT ![p] =
          IF sensitive!Exists(k) = {} THEN [load[p] EXCEPT !.at = k]
          ELSE [load[p] EXCEPT !.todo = @ \ {k}, !.ids = @ \cup {sensitive!Min(sensitive!Exists(k))}]]
    BY DEF sensitive!LoadFind
  <2>. QED BY <1>1, <2>1
<1>4. /\ IsLoading(b) /\ b \in LoadOf /\ b.patterns \subseteq Pattern
      /\ b.alone => LoadedRules(b, rules)
      /\ load \in [Process -> LoadOf \cup {sensitive!NoLoad, sensitive!Down}]
  BY <1>1, <1>2, LoadingKnown DEF RulesSafe, RulesTyped
<1>5. k \in Pattern /\ "rules" \notin Pattern /\ "idle" \notin Pattern
  BY <1>4, ManagementAssumption DEF LoadOf
<1>6. UpdatesKnown'
  BY <1>2 DEF RulesSafe, UpdatesKnown, UpdateKnown
<1>7. ~sensitive!Loaded(p)
  BY <1>1, <1>3 DEF sensitive!Loaded
<1>8. RuleLoadsEnd
  BY <1>3, <1>7, OneRuleLoad
<1>9. ASSUME NEW l \in LoadOf, load' = [load EXCEPT ![p] = l], l.alone => b.alone /\ LoadedRules(l, rules')
      PROVE  RulesSafe'
  <2>1. RulesTyped'
    BY <1>2, <1>4, <1>9 DEF RulesSafe, RulesTyped
  <2>. QED BY <1>1, <1>4, <1>6, <1>9, <2>1, LoadMoves
<1>10. CASE sensitive!Exists(k) = {}
  <2>1. PICK l : l = [b EXCEPT !.at = k]
    OBVIOUS
  <2>2. load' = [load EXCEPT ![p] = l]
    BY <1>3, <1>10, <2>1
  <2>3. /\ l \in LoadOf /\ l.at = k /\ l.todo = b.todo /\ l.ids = b.ids /\ l.alone = b.alone /\ l.patterns = b.patterns
    BY <1>4, <1>5, <2>1 DEF LoadOf
  <2>4. l.alone => b.alone /\ LoadedRules(l, rules')
    BY <1>2, <1>4, <2>3 DEF LoadedRules
  <2>. QED BY <1>2, <1>8, <1>9, <2>2, <2>3, <2>4
<1>11. CASE sensitive!Exists(k) # {}
  <2>1. PICK i : i = sensitive!Min(sensitive!Exists(k))
    OBVIOUS
  <2>2. i \in Nat /\ i \in DOMAIN rules /\ rules[i] # None /\ rules[i].system /\ rules[i].pattern = k
    <3>1. i \in sensitive!Exists(k) /\ i \in Nat
      BY <1>11, <2>1, FirstExists DEF RulesSafe
    <3>. QED BY <3>1 DEF sensitive!Exists, sensitive!System, sensitive!Stored
  <2>3. PICK l : l = [b EXCEPT !.todo = @ \ {k}, !.ids = @ \cup {i}]
    OBVIOUS
  <2>4. load' = [load EXCEPT ![p] = l]
    BY <1>3, <1>11, <2>1, <2>3
  <2>5. /\ l \in LoadOf /\ l.at = "rules" /\ l.todo = b.todo \ {k} /\ l.ids = b.ids \cup {i}
        /\ l.alone = b.alone /\ l.patterns = b.patterns
    BY <1>2, <1>4, <2>2, <2>3 DEF LoadOf
  <2>6. ASSUME b.alone PROVE LoadedRules(l, rules)
    <3>1. LoadedRules(b, rules) /\ k \in b.patterns
      BY <1>4, <2>6 DEF LoadedRules
    <3>2. \A j \in l.ids : /\ j \in DOMAIN rules /\ rules[j] # None /\ rules[j].system
                           /\ rules[j].pattern \in l.patterns /\ rules[j].pattern \notin l.todo
      BY <2>2, <2>5, <3>1 DEF LoadedRules
    <3>3. \A x \in l.patterns : x \notin l.todo => \E j \in l.ids : rules[j].pattern = x
      BY <2>2, <2>5, <3>1 DEF LoadedRules
    <3>4. \A j, m \in l.ids : rules[j].pattern = rules[m].pattern => j = m
      BY <2>2, <2>5, <3>1 DEF LoadedRules
    <3>5. l.at \notin Pattern /\ l.todo \subseteq l.patterns
      BY <1>5, <2>5, <3>1 DEF LoadedRules
    <3>. QED BY <3>2, <3>3, <3>4, <3>5 DEF LoadedRules
  <2>7. l.alone => b.alone /\ LoadedRules(l, rules')
    BY <1>2, <2>5, <2>6
  <2>. QED BY <1>2, <1>8, <1>9, <2>4, <2>5, <2>7
<1>. QED BY <1>10, <1>11

\* It creates the one it did not find.
LEMMA LoadCreateSafe ==
  ASSUME RulesSafe, NEW p \in Process, sensitive!LoadCreate(p)
  PROVE  RulesSafe' /\ RulesLeft /\ RuleLoadsEnd
<1>1. PICK b : b = load[p]
  OBVIOUS
<1>2. PICK row : row = [user |-> Admin, pattern |-> b.at, status |-> "on", system |-> TRUE]
  OBVIOUS
<1>3. /\ b.at \in Pattern /\ rules' = Append(rules, row) /\ UNCHANGED <<deployed, update>>
      /\ load' = [load EXCEPT ![p] = [b EXCEPT !.at = "rules", !.todo = @ \ {b.at}, !.ids = @ \cup {Len(rules')}]]
  <2>1. /\ load[p].at \in Pattern /\ UNCHANGED <<deployed, update>>
        /\ rules' = Append(rules, [user |-> Admin, pattern |-> load[p].at, status |-> "on", system |-> TRUE])
        /\ load' = [load EXCEPT ![p] = [load[p] EXCEPT !.at = "rules", !.todo = @ \ {load[p].at},
                                                       !.ids = @ \cup {Len(rules')}]]
    BY DEF sensitive!LoadCreate, sensitive!Insert
  <2>. QED BY <1>1, <1>2, <2>1
<1>4. /\ IsLoading(b) /\ b \in LoadOf /\ (b.alone => LoadedRules(b, rules))
      /\ load \in [Process -> LoadOf \cup {sensitive!NoLoad, sensitive!Down}]
  BY <1>1, <1>3, LoadingKnown DEF RulesSafe, RulesTyped
<1>5. row \in RuleRow /\ row.system = TRUE /\ row.pattern = b.at /\ row # None
  <2>1. row \in RuleRow /\ row.system = TRUE /\ row.pattern = b.at
    BY <1>2, <1>3, ManagementAssumption DEF RuleRow
  <2>. QED BY <2>1, ManagementAssumption
<1>6. PICK n : n = Len(rules) + 1
  OBVIOUS
<1>7. /\ rules' \in Seq(RuleRow \cup {None}) /\ SystemStays /\ UpdatesKnown'
      /\ DOMAIN rules' = DOMAIN rules \cup {n} /\ n \notin DOMAIN rules /\ n \in Nat /\ Len(rules') = n
      /\ rules'[n] = row /\ \A i \in DOMAIN rules : rules'[i] = rules[i]
  BY <1>3, <1>5, <1>6, RuleAdded
<1>8. PICK l : l = [b EXCEPT !.at = "rules", !.todo = @ \ {b.at}, !.ids = @ \cup {n}]
  OBVIOUS
<1>9. /\ l \in LoadOf /\ l.at = "rules" /\ l.todo = b.todo \ {b.at} /\ l.ids = b.ids \cup {n}
      /\ l.alone = b.alone /\ l.patterns = b.patterns /\ load' = [load EXCEPT ![p] = l]
  BY <1>3, <1>4, <1>7, <1>8 DEF LoadOf
<1>10. RulesTyped'
  BY <1>3, <1>4, <1>7, <1>9 DEF RulesSafe, RulesTyped
<1>11. ASSUME b.alone PROVE LoadedRules(l, rules')
  <2>1. LoadedRules(b, rules) /\ LoadedRules(b, rules')
    BY <1>4, <1>7, <1>11, LoadedStays
  <2>2. b.at \in b.todo /\ b.at \in b.patterns
    BY <1>3, <2>1 DEF LoadedRules
  <2>3. n \notin b.ids
    BY <1>7, <2>1 DEF LoadedRules
  <2>4. \A j \in l.ids : /\ j \in DOMAIN rules' /\ rules'[j] # None /\ rules'[j].system
                         /\ rules'[j].pattern \in l.patterns /\ rules'[j].pattern \notin l.todo
    BY <1>5, <1>7, <1>9, <2>1, <2>2 DEF LoadedRules
  <2>5. \A x \in l.patterns : x \notin l.todo => \E j \in l.ids : rules'[j].pattern = x
    BY <1>5, <1>7, <1>9, <2>1, <2>2 DEF LoadedRules
  <2>6. \A j, m \in l.ids : rules'[j].pattern = rules'[m].pattern => j = m
    BY <1>5, <1>7, <1>9, <2>1, <2>2 DEF LoadedRules
  <2>7. l.at \notin Pattern /\ l.todo \subseteq l.patterns
    BY <1>9, <2>1, ManagementAssumption DEF LoadedRules
  <2>. QED BY <2>4, <2>5, <2>6, <2>7 DEF LoadedRules
<1>12. RulesSafe'
  <2>1. IsLoading(load[p]) /\ (l.alone => load[p].alone /\ LoadedRules(l, rules'))
    BY <1>1, <1>4, <1>9, <1>11
  <2>. QED BY <1>7, <1>9, <1>10, <2>1, LoadMoves
<1>13. RulesLeft
  BY <1>7 DEF RulesLeft, sensitive!Stored
<1>14. RuleLoadsEnd
  <2>1. ~sensitive!Loaded(p)
    BY <1>1, <1>3, ManagementAssumption DEF sensitive!Loaded
  <2>. QED BY <1>9, <2>1, OneRuleLoad
<1>. QED BY <1>12, <1>13, <1>14

\* It ends: the other rules of the system are deleted.
LEMMA LoadEndSafe ==
  ASSUME RulesSafe, NEW p \in Process, sensitive!LoadEnd(p)
  PROVE  RulesSafe' /\ RulesLeft /\ RuleLoadsEnd
<1>1. PICK b : b = load[p]
  OBVIOUS
<1>2. PICK f : f = [i \in DOMAIN rules |-> IF i \in sensitive!System \ b.ids THEN None ELSE rules[i]]
  OBVIOUS
<1>3. /\ b.at = "rules" /\ b.todo = {} /\ UNCHANGED <<deployed, update>>
      /\ rules' = [i \in DOMAIN rules |-> f[i]] /\ load' = [load EXCEPT ![p] = sensitive!NoLoad]
  BY <1>1, <1>2 DEF sensitive!LoadEnd, sensitive!Loaded
<1>4. /\ IsLoading(b) /\ (b.alone => LoadedRules(b, rules)) /\ b.patterns \subseteq Pattern
      /\ load \in [Process -> LoadOf \cup {sensitive!NoLoad, sensitive!Down}]
  BY <1>1, <1>3, LoadingKnown DEF RulesSafe, RulesTyped
<1>5. \A i \in DOMAIN rules : \/ f[i] = rules[i] /\ (rules[i] # None /\ rules[i].system => i \in b.ids)
                              \/ f[i] = None /\ rules[i] # None /\ rules[i].system /\ i \notin b.ids
  BY <1>2 DEF sensitive!System, sensitive!Stored
<1>6. \A i \in DOMAIN rules : f[i] \in RuleRow \cup {None}
  BY <1>5, RuleThere DEF RulesSafe
<1>7. /\ rules' \in Seq(RuleRow \cup {None}) /\ DOMAIN rules' = DOMAIN rules
      /\ \A i \in DOMAIN rules : rules'[i] = f[i]
  BY <1>3, <1>6, RulesWritten DEF RulesSafe
<1>8. RulesTyped'
  BY <1>3, <1>4, <1>7 DEF RulesSafe, RulesTyped
<1>9. UpdatesKnown'
  BY <1>3, <1>5, <1>7, UpdatesStay DEF RulesSafe, Agree
<1>10. RulesSafe'
  <2>1. ~IsLoading(sensitive!NoLoad)
    BY DEF IsLoading
  <2>. QED BY <1>1, <1>3, <1>4, <1>8, <1>9, <2>1, LoadMoves
<1>11. RulesLeft
  BY <1>5, <1>7 DEF RulesLeft, sensitive!Stored
<1>12. ASSUME b.alone PROVE ReleaseLeft(p)
  <2>1. LoadedRules(b, rules)
    BY <1>4, <1>12
  <2>2. \A i : i \in sensitive!System' <=> i \in DOMAIN rules' /\ rules'[i] # None /\ rules'[i].system
    BY DEF sensitive!System, sensitive!Stored
  <2>3. \A i : i \in sensitive!System' <=> i \in b.ids
    BY <1>5, <1>7, <2>1, <2>2 DEF LoadedRules
  <2>4. \A i \in b.ids : rules'[i] = rules[i]
    BY <1>5, <1>7, <2>1 DEF LoadedRules
  <2>5. {rules'[i].pattern : i \in sensitive!System'} = b.patterns
    <3>1. \A i \in b.ids : rules'[i].pattern \in b.patterns
      BY <2>1, <2>4 DEF LoadedRules
    <3>2. \A k \in b.patterns : \E i \in b.ids : rules'[i].pattern = k
      <4>1. \A k \in b.patterns : k \notin b.todo => \E i \in b.ids : rules[i].pattern = k
        BY <2>1 DEF LoadedRules
      <4>2. \A k \in b.patterns : \E i \in b.ids : rules[i].pattern = k
        BY <1>3, <4>1
      <4>. QED BY <2>4, <4>2
    <3>. QED BY <2>3, <3>1, <3>2
  <2>6. \A i, j \in sensitive!System' : rules'[i].pattern = rules'[j].pattern => i = j
    BY <2>1, <2>3, <2>4 DEF LoadedRules
  <2>. QED BY <1>1, <2>5, <2>6 DEF ReleaseLeft
<1>13. RuleLoadsEnd
  BY <1>1, <1>3, <1>12, OneRuleLoad
<1>. QED BY <1>10, <1>11, <1>13

\* Payloads that are saved, deleted or switched.
LEMMA PayloadsKept ==
  ASSUME NEW U \in SUBSET Owner, NEW st,
         \/ sensitive!SetPayload(U, st) /\ \E u \in Owner : U = {u} /\ st \in {"on", "deleted"}
         \/ sensitive!SetPayload(sensitive!Payloads(U), st)
  PROVE  sensitive!PayloadRevived
<1>1. CASE sensitive!SetPayload(U, st) /\ \E u \in Owner : U = {u} /\ st \in {"on", "deleted"}
  BY <1>1 DEF sensitive!SetPayload, sensitive!PayloadRevived
<1>2. CASE sensitive!SetPayload(sensitive!Payloads(U), st)
  BY <1>2 DEF sensitive!SetPayload, sensitive!Payloads, sensitive!Status, sensitive!PayloadRevived
<1>. QED BY <1>1, <1>2

(* RulesKept: however loads meet or are stopped and whatever users write, a load changes
   no rule of a user, one that meets no other leaves each pattern of its release, but for
   strategies that only users had, in one rule of the system, and a deleted payload comes
   back by its owner's update only (load_hook_strategy.py, sensitive_info_rule.py,
   vul_recheck_payload.py).                                                            *)
THEOREM RulesAlwaysKept == Spec => RulesKept
<1>. DEFINE Safe == part = "rules" => RulesSafe
<1>1. Init => Safe
  <2>1. SUFFICES ASSUME sensitive!Init PROVE RulesSafe
    BY DEF Init
  <2>2. /\ deployed = 1 /\ rules = <<>> /\ update = [u \in Owner |-> None]
        /\ load = [p \in Process |-> sensitive!NoLoad]
    BY <2>1 DEF sensitive!Init
  <2>3. 1 \in DOMAIN RuleReleases
    <3>1. RuleReleases \in Seq(SUBSET Pattern) /\ RuleReleases # <<>>
      BY ManagementAssumption
    <3>. QED BY <3>1
  <2>4. RulesTyped
    BY <2>2, <2>3 DEF RulesTyped
  <2>5. UpdatesKnown /\ AloneLoads
    BY <2>2 DEF UpdatesKnown, UpdateKnown, AloneLoads, IsLoading
  <2>. QED BY <2>4, <2>5 DEF RulesSafe
<1>2. ASSUME RulesSafe, sensitive!Next \/ UNCHANGED ruleVars
      PROVE  RulesSafe' /\ (UNCHANGED load \/ (RuleLoadsEnd /\ (UNCHANGED rules \/ RulesLeft)))
  <2>1. CASE UNCHANGED ruleVars \/ sensitive!Deploy \/ \E t \in Type : sensitive!UserStrategy(t)
    <3>1. UNCHANGED <<rules, load, update>> /\ deployed' \in DOMAIN RuleReleases
      BY <1>2, <2>1 DEF ruleVars, sensitive!Deploy, sensitive!UserStrategy, RulesSafe, RulesTyped
    <3>2. RulesSafe'
      BY <1>2, <3>1 DEF RulesSafe, RulesTyped, UpdatesKnown, UpdateKnown, AloneLoads, IsLoading
    <3>. QED BY <3>1, <3>2
  <2>2. ASSUME NEW u \in Owner
        PROVE  /\ \A p \in Pattern, st \in sensitive!Status :
                    sensitive!Create(u, p, st) => RulesSafe' /\ UNCHANGED load
               /\ \A p \in Pattern, st \in sensitive!Status, i \in sensitive!Id :
                    sensitive!UpdateRead(u, i, p, st) => RulesSafe' /\ UNCHANGED load
               /\ sensitive!UpdateWrite(u) => RulesSafe' /\ UNCHANGED load
    BY <1>2, RuleCreateSafe, UpdateReadSafe, UpdateWriteSafe
  <2>3. ASSUME NEW u \in Owner, NEW i, sensitive!Destory(u, i)
        PROVE  RulesSafe' /\ UNCHANGED load
    <3>1. /\ UNCHANGED <<deployed, update, load>>
          /\ \E S : S \subseteq sensitive!Stored /\ sensitive!SetStatus(S, "deleted")
      BY <2>3 DEF sensitive!Destory
    <3>. QED BY <1>2, <3>1, SetStatusSafe
  <2>4. ASSUME NEW u \in Owner, NEW S, NEW st \in sensitive!Status \cup {"deleted"}, sensitive!BatchUpdate(u, S, st)
        PROVE  RulesSafe' /\ UNCHANGED load
    <3>1. /\ UNCHANGED <<deployed, update, load>> /\ st \in {"on", "off", "deleted"}
          /\ sensitive!SetStatus(S \cap sensitive!OwnRules(u), st)
          /\ S \cap sensitive!OwnRules(u) \subseteq sensitive!Stored
      BY <2>4 DEF sensitive!BatchUpdate, sensitive!OwnRules, sensitive!Status
    <3>. QED BY <1>2, <3>1, SetStatusSafe
  <2>5. ASSUME NEW u \in Owner, \/ sensitive!PayloadSave(u) \/ sensitive!PayloadDelete(u)
                                \/ \E U \in {{u}, Owner}, st \in sensitive!Status \cup {"deleted"} : sensitive!PayloadStatus(U, st)
        PROVE  RulesSafe' /\ UNCHANGED load
    <3>1. UNCHANGED <<deployed, rules, update, load>>
      BY <2>5 DEF sensitive!PayloadSave, sensitive!PayloadDelete, sensitive!PayloadStatus
    <3>2. RulesSafe'
      BY <1>2, <3>1 DEF RulesSafe, RulesTyped, UpdatesKnown, UpdateKnown, AloneLoads, IsLoading
    <3>. QED BY <3>1, <3>2
  <2>6. ASSUME NEW p \in Process,
               \/ sensitive!LoadStart(p) \/ sensitive!SaveSha1sum(p) \/ sensitive!LoadFind(p)
               \/ sensitive!LoadCreate(p) \/ sensitive!LoadEnd(p) \/ sensitive!Crash(p)
        PROVE  RulesSafe' /\ RuleLoadsEnd /\ (UNCHANGED rules \/ RulesLeft)
    BY <1>2, <2>6, LoadStartSafe, LoadOnSafe, LoadFindSafe, LoadCreateSafe, LoadEndSafe
  <2>7. CASE \E u \in Owner :
               \/ \E p \in Pattern, st \in sensitive!Status :
                    sensitive!Create(u, p, st) \/ \E i \in sensitive!Id : sensitive!UpdateRead(u, i, p, st)
               \/ sensitive!UpdateWrite(u)
               \/ \E i \in sensitive!Id : sensitive!Destory(u, i)
               \/ \E S \in SUBSET sensitive!Id, st \in sensitive!Status \cup {"deleted"} : sensitive!BatchUpdate(u, S, st)
               \/ sensitive!PayloadSave(u) \/ sensitive!PayloadDelete(u)
               \/ \E U \in {{u}, Owner}, st \in sensitive!Status \cup {"deleted"} : sensitive!PayloadStatus(U, st)
    BY <2>2, <2>3, <2>4, <2>5, <2>7
  <2>. QED BY <1>2, <2>1, <2>6, <2>7 DEF sensitive!Next
<1>3. ASSUME RulesSafe, UNCHANGED load \/ (RuleLoadsEnd /\ (UNCHANGED rules \/ RulesLeft))
      PROVE  sensitive!ReleaseLoaded
  <2>1. load' # load => RulesLeft
    BY <1>3 DEF RulesLeft
  <2>2. RuleLoadsEnd
    BY <1>3 DEF RuleLoadsEnd, sensitive!Loaded, sensitive!NoLoad
  <2>. QED BY <2>1, <2>2 DEF sensitive!ReleaseLoaded, RulesLeft, RuleLoadsEnd, ReleaseLeft
<1>4. sensitive!Next \/ UNCHANGED ruleVars => sensitive!PayloadRevived
  <2>1. ASSUME NEW u \in Owner, sensitive!PayloadSave(u) \/ sensitive!PayloadDelete(u)
        PROVE  sensitive!PayloadRevived
    BY <2>1, PayloadsKept DEF sensitive!PayloadSave, sensitive!PayloadDelete
  <2>2. ASSUME NEW u \in Owner, NEW U \in {{u}, Owner}, NEW st, sensitive!PayloadStatus(U, st)
        PROVE  sensitive!PayloadRevived
    BY <2>2, PayloadsKept DEF sensitive!PayloadStatus
  <2>3. ASSUME UNCHANGED payload PROVE sensitive!PayloadRevived
    BY <2>3 DEF sensitive!PayloadRevived
  <2>4. CASE UNCHANGED ruleVars
    BY <2>3, <2>4 DEF ruleVars
  <2>5. CASE \/ sensitive!Deploy \/ \E t \in Type : sensitive!UserStrategy(t)
             \/ \E p \in Process : \/ sensitive!LoadStart(p) \/ sensitive!SaveSha1sum(p) \/ sensitive!LoadFind(p)
                                   \/ sensitive!LoadCreate(p) \/ sensitive!LoadEnd(p) \/ sensitive!Crash(p)
    BY <2>3, <2>5 DEF sensitive!Deploy, sensitive!UserStrategy, sensitive!LoadStart, sensitive!SaveSha1sum, sensitive!LoadFind,
                      sensitive!LoadCreate, sensitive!LoadEnd, sensitive!Crash
  <2>6. CASE \E u \in Owner :
               \/ \E p \in Pattern, st \in sensitive!Status :
                    sensitive!Create(u, p, st) \/ \E i \in sensitive!Id : sensitive!UpdateRead(u, i, p, st)
               \/ sensitive!UpdateWrite(u)
               \/ \E i \in sensitive!Id : sensitive!Destory(u, i)
               \/ \E S \in SUBSET sensitive!Id, st \in sensitive!Status \cup {"deleted"} : sensitive!BatchUpdate(u, S, st)
    BY <2>3, <2>6 DEF sensitive!Create, sensitive!UpdateRead, sensitive!UpdateWrite, sensitive!Destory, sensitive!BatchUpdate
  <2>. QED BY <2>1, <2>2, <2>4, <2>5, <2>6 DEF sensitive!Next
<1>5. Safe /\ [Next]_vars => Safe' /\ (part = "rules" => sensitive!RulesStep)
  BY <1>2, <1>3, <1>4 DEF Next, vars, sensitive!RulesStep
<1>. QED BY <1>1, <1>5, PTL DEF Spec, RulesKept

--------------------------------------------------------------------------------
(* AgentConfig: what a request read agrees with the tables before the edit it met, or
   after it.                                                                      *)

RequestOf == [step: {"idle", "list", "match", "config", "metrics", "done", "failed"}, group: Nat,
              queue: SUBSET [id: Config, priority: Nat], config: Config \cup {None}, interval: Nat]

ConfigsTyped ==
  /\ configs \in [Config -> Configs \cup {None}] /\ before \in [Config -> Configs \cup {None}]
  /\ request \in RequestOf
  /\ data = [g \in Group |-> data[g]]
  /\ configEdits \in Nat
  /\ request.step \in {"list", "match", "config", "metrics"} => request.group \in Group
  /\ request.step \in {"config", "metrics"} => request.config \in Config
  /\ request.step = "done" /\ enabled => \A g \in Group : g < request.group
  /\ request.step = "idle" => \A g \in Group : data[g] = None

\* What the request r read, in the tables db.
Reads(r, db) ==
  /\ r.step = "match" =>
       /\ \A q \in r.queue : /\ db[q.id] # None /\ db[q.id].group = r.group /\ db[q.id].on
                             /\ q.priority = db[q.id].priority
       /\ \A c \in breaking!Fits(db, r.group) : \E q \in r.queue : q.id = c /\ q.priority = db[c].priority
  /\ r.step \in {"config", "metrics"} =>
       /\ r.config \in breaking!Fits(db, r.group)
       /\ \A c \in breaking!Fits(db, r.group) : db[r.config].priority <= db[c].priority
  /\ r.step = "metrics" => r.interval = db[r.config].interval

\* What it still has to read is the same in the tables db and new.
Later(r, db, new) ==
  /\ r.step = "match" => \A q \in r.queue :
       /\ new[q.id].targets = db[q.id].targets
       /\ new[q.id].interval = db[q.id].interval /\ new[q.id].metrics = db[q.id].metrics
  /\ r.step = "config" =>
       new[r.config].interval = db[r.config].interval /\ new[r.config].metrics = db[r.config].metrics
  /\ r.step = "metrics" => new[r.config].metrics = db[r.config].metrics

\* The request met one edit at most, and none that removed a configuration.
OneEdit == enabled /\ configEdits <= 1 /\ \A c \in Config : configs[c] = None => before[c] = None

Answered == \A g \in Group :
  /\ g < request.group => data[g] \in breaking!Best(before, g) \cup breaking!Best(configs, g)
  /\ request.step \in {"list", "match", "config", "metrics"} /\ request.group <= g => data[g] = None

ConfigsSafe ==
  /\ ConfigsTyped
  /\ configEdits = 0 => configs = before
  /\ OneEdit => Answered /\ \E db \in {before, configs} : Reads(request, db) /\ Later(request, db, configs)

\* A configuration has its fields.
LEMMA ConfigFields ==
  ASSUME NEW r \in Configs
  PROVE  /\ r \in [group: Nat, on: BOOLEAN, priority: Nat, interval: Nat, metrics: {r.metrics}, targets: {r.targets}]
         /\ r # None
  BY ManagementAssumption

\* The configurations that fit, and the answers they allow.
LEMMA FitsAre ==
  ASSUME NEW db, NEW g
  PROVE  \A c : c \in breaking!Fits(db, g) <=>
           c \in Config /\ db[c] # None /\ db[c].group = g /\ db[c].on /\ \A t \in db[c].targets : breaking!Matches(t)
  BY DEF breaking!Fits

LEMMA BestAre ==
  ASSUME NEW db, NEW g
  PROVE  /\ breaking!Fits(db, g) = {} => None \in breaking!Best(db, g)
         /\ \A c \in breaking!Fits(db, g) : (\A y \in breaking!Fits(db, g) : db[c].priority <= db[y].priority)
              => [config |-> c, interval |-> db[c].interval, metrics |-> db[c].metrics] \in breaking!Best(db, g)
  BY DEF breaking!Best

\* The next group, when the answer for this one is one that the tables allow.
LEMMA NextGroupSafe ==
  ASSUME ConfigsSafe, UNCHANGED <<configs, enabled, before, configEdits>>, request' = breaking!NextGroup,
         request.step \in {"match", "config", "metrics"},
         data' = [g \in Group |-> data'[g]], \A g \in Group : g # request.group => data'[g] = data[g],
         OneEdit => data'[request.group] \in breaking!Best(before, request.group) \cup breaking!Best(configs, request.group)
  PROVE  ConfigsSafe'
<1>1. PICK n \in Group : Group = 1..n
  BY ManagementAssumption
<1>2. request \in RequestOf /\ request.group \in Group /\ request.group \in Nat /\ n \in Nat
  BY <1>1 DEF ConfigsSafe, ConfigsTyped, RequestOf
<1>3. PICK k : k = request.group + 1
  OBVIOUS
<1>4. PICK s : s = IF k \in Group THEN "list" ELSE "done"
  OBVIOUS
<1>5. /\ request' \in RequestOf /\ request'.step \in {"list", "done"} /\ request'.group = k
      /\ request'.step = "list" => k \in Group
      /\ request'.step = "done" => k \notin Group
  <2>1. PICK d : d = [step |-> "idle", group |-> 0, queue |-> {}, config |-> None, interval |-> 0]
    OBVIOUS
  <2>2. request' = [d EXCEPT !.step = s, !.group = k]
    BY <1>3, <1>4, <2>1 DEF breaking!NextGroup, breaking!NoRequest
  <2>3. k \in Nat /\ s \in {"list", "done"}
    BY <1>2, <1>3, <1>4
  <2>4. d \in RequestOf
    BY <2>1 DEF RequestOf
  <2>5. request' \in RequestOf
    BY <2>2, <2>3, <2>4 DEF RequestOf
  <2>6. request'.step = s /\ request'.group = k
    BY <2>2, <2>4 DEF RequestOf
  <2>. QED BY <1>4, <2>3, <2>5, <2>6
<1>6. k \notin Group => \A g \in Group : g < k
  BY <1>1, <1>2, <1>3
<1>7. ConfigsTyped'
  BY <1>5, <1>6 DEF ConfigsSafe, ConfigsTyped
<1>8. Reads(request', configs') /\ Later(request', configs', configs')
  BY <1>5 DEF Reads, Later
<1>9. ASSUME OneEdit PROVE Answered'
  <2>1. ASSUME NEW g \in Group
        PROVE  /\ g < k => data'[g] \in breaking!Best(before, g) \cup breaking!Best(configs, g)
               /\ k <= g => data'[g] = None
    <3>1. g \in Nat
      BY <1>1, <2>1
    <3>2. /\ g < request.group => data[g] \in breaking!Best(before, g) \cup breaking!Best(configs, g)
          /\ request.group <= g => data[g] = None
      BY <1>9, <2>1 DEF ConfigsSafe, Answered
    <3>3. CASE g = request.group
      <4>1. ~(k <= g)
        BY <1>2, <1>3, <3>3
      <4>. QED BY <1>9, <3>3, <4>1
    <3>4. CASE g # request.group
      <4>1. (g < k => g < request.group) /\ (k <= g => request.group <= g)
        BY <1>2, <1>3, <3>1, <3>4
      <4>. QED BY <3>2, <3>4, <4>1
    <3>. QED BY <3>3, <3>4
  <2>2. \A g : breaking!Best(before, g)' = breaking!Best(before, g) /\ breaking!Best(configs, g)' = breaking!Best(configs, g)
    BY DEF breaking!Best, breaking!Fits
  <2>. QED BY <1>5, <2>1, <2>2 DEF Answered
<1>. QED BY <1>7, <1>8, <1>9 DEF ConfigsSafe, OneEdit

\* A request that begins.
LEMMA PostSafe ==
  ASSUME ConfigsSafe, breaking!Post
  PROVE  ConfigsSafe'
<1>1. PICK n \in Group : Group = 1..n
  BY ManagementAssumption
<1>2. 1 \in Group /\ \A g \in Group : g \in Nat /\ 1 <= g
  <2>1. n \in 1..n
    BY <1>1
  <2>. QED BY <1>1, <2>1
<1>3. /\ UNCHANGED <<configs, enabled, data>> /\ before' = configs /\ configEdits' = 0
      /\ request.step = "idle"
  BY DEF breaking!Post, breaking!NoRequest
<1>4. PICK d : d = [step |-> "idle", group |-> 0, queue |-> {}, config |-> None, interval |-> 0]
  OBVIOUS
<1>5. d \in RequestOf /\ d.group = 0
  BY <1>4 DEF RequestOf
<1>6. request' = IF enabled THEN [d EXCEPT !.step = "list", !.group = 1] ELSE [d EXCEPT !.step = "done"]
  BY <1>4 DEF breaking!Post, breaking!NoRequest
<1>7. /\ request' \in RequestOf /\ request'.step \in {"list", "done"}
      /\ request'.step = "list" => request'.group = 1
      /\ request'.step = "done" => ~enabled
  <2>1. CASE enabled
    BY <1>5, <1>6, <2>1 DEF RequestOf
  <2>2. CASE ~enabled
    BY <1>5, <1>6, <2>2 DEF RequestOf
  <2>. QED BY <2>1, <2>2
<1>8. ConfigsTyped'
  BY <1>2, <1>3, <1>7 DEF ConfigsSafe, ConfigsTyped
<1>9. Reads(request', configs') /\ Later(request', configs', configs')
  BY <1>7 DEF Reads, Later
<1>10. OneEdit' => Answered'
  <2>1. \A g \in Group : data[g] = None /\ ~(g < 1)
    BY <1>2, <1>3 DEF ConfigsSafe, ConfigsTyped
  <2>. QED BY <1>3, <1>7, <2>1 DEF OneEdit, Answered
<1>. QED BY <1>3, <1>8, <1>9, <1>10 DEF ConfigsSafe

\* The configurations of a group are listed: that is what the tables hold now.
LEMMA ListConfigsSafe ==
  ASSUME ConfigsSafe, breaking!ListConfigs
  PROVE  ConfigsSafe'
<1>1. PICK Q : Q = {[id |-> c, priority |-> configs[c].priority] :
                      c \in {x \in Config : configs[x] # None /\ configs[x].group = request.group /\ configs[x].on}}
  OBVIOUS
<1>2. /\ UNCHANGED <<configs, enabled, data, before, configEdits>> /\ request.step = "list"
      /\ request' = [request EXCEPT !.step = "match", !.queue = Q]
  BY <1>1 DEF breaking!ListConfigs
<1>3. /\ \A q \in Q : /\ q \in [id: Config, priority: Nat]
                      /\ configs[q.id] # None /\ configs[q.id].group = request.group /\ configs[q.id].on
                      /\ q.priority = configs[q.id].priority
      /\ \A c \in breaking!Fits(configs, request.group) : \E q \in Q : q.id = c /\ q.priority = configs[c].priority
  <2>1. \A c \in Config : configs[c] # None => configs[c].priority \in Nat
    BY ConfigFields DEF ConfigsSafe, ConfigsTyped
  <2>2. ASSUME NEW q \in Q
        PROVE  /\ q \in [id: Config, priority: Nat]
               /\ configs[q.id] # None /\ configs[q.id].group = request.group /\ configs[q.id].on
               /\ q.priority = configs[q.id].priority
    BY <1>1, <2>1, <2>2
  <2>3. ASSUME NEW c \in breaking!Fits(configs, request.group)
        PROVE  \E q \in Q : q.id = c /\ q.priority = configs[c].priority
    <3>1. [id |-> c, priority |-> configs[c].priority] \in Q
      BY <1>1, <2>3, FitsAre
    <3>. QED BY <3>1
  <2>. QED BY <2>2, <2>3
<1>4. /\ request' \in RequestOf /\ request'.step = "match"
      /\ request'.group = request.group /\ request'.queue = Q
  BY <1>2, <1>3 DEF ConfigsSafe, ConfigsTyped, RequestOf
<1>5. Reads(request', configs) /\ Later(request', configs, configs)
  BY <1>3, <1>4 DEF Reads, Later
<1>6. OneEdit' => Answered'
  BY <1>2, <1>4 DEF ConfigsSafe, OneEdit, Answered, breaking!Best, breaking!Fits
<1>. QED BY <1>2, <1>4, <1>5, <1>6 DEF ConfigsSafe, ConfigsTyped, OneEdit

\* A request that goes on with a group: the answers stay, and no table changes.
LEMMA RequestMoves ==
  ASSUME ConfigsSafe, UNCHANGED <<configs, enabled, data, before, configEdits>>,
         request' \in RequestOf, request'.step \in {"match", "config", "metrics", "failed"},
         request'.step = "failed" => request'.group = 0,
         request'.step # "failed" => /\ request'.group = request.group
                                     /\ request.step \in {"match", "config", "metrics"},
         request'.step \in {"config", "metrics"} => request'.config \in Config,
         OneEdit => \E db \in {before, configs} : Reads(request', db) /\ Later(request', db, configs)
  PROVE  ConfigsSafe'
<1>1. ConfigsTyped'
  BY DEF ConfigsSafe, ConfigsTyped
<1>2. OneEdit => Answered'
  <2>1. ASSUME OneEdit, NEW g \in Group
        PROVE  /\ g < request'.group => data[g] \in breaking!Best(before, g) \cup breaking!Best(configs, g)
               /\ request'.step # "failed" /\ request'.group <= g => data[g] = None
    <3>1. CASE request'.step = "failed"
      <4>1. PICK n \in Group : Group = 1..n
        BY ManagementAssumption
      <4>2. ~(g < 0)
        BY <2>1, <4>1
      <4>. QED BY <3>1, <4>2
    <3>2. CASE request'.step # "failed"
      BY <2>1, <3>2 DEF ConfigsSafe, Answered
    <3>. QED BY <3>1, <3>2
  <2>2. \A g : breaking!Best(before, g)' = breaking!Best(before, g) /\ breaking!Best(configs, g)' = breaking!Best(configs, g)
    BY DEF breaking!Best, breaking!Fits
  <2>. QED BY <2>1, <2>2 DEF Answered
<1>. QED BY <1>1, <1>2 DEF ConfigsSafe, OneEdit

\* The tables that a request reads: the configuration it looks at is still there.
LEMMA TablesRead ==
  ASSUME ConfigsSafe, OneEdit
  PROVE  \E db \in {before, configs} :
           /\ Reads(request, db) /\ Later(request, db, configs)
           /\ db \in [Config -> Configs \cup {None}]
           /\ \A c \in Config : db[c] # None => configs[c] # None
  BY DEF ConfigsSafe, ConfigsTyped, OneEdit

\* The first configuration is looked at: it is taken, passed over, or stops the request.
LEMMA MatchTargetsSafe ==
  ASSUME ConfigsSafe, breaking!MatchTargets
  PROVE  ConfigsSafe'
<1>1. request.step = "match" /\ UNCHANGED <<configs, enabled, data, before, configEdits>>
  BY DEF breaking!MatchTargets
<1>2. request \in RequestOf /\ request.group \in Group /\ data = [g \in Group |-> data[g]]
  BY <1>1 DEF ConfigsSafe, ConfigsTyped
<1>3. CASE request.queue = {}
  <2>1. request' = breaking!NextGroup
    BY <1>3 DEF breaking!MatchTargets
  <2>2. ASSUME OneEdit
        PROVE  data[request.group] \in breaking!Best(before, request.group) \cup breaking!Best(configs, request.group)
    <3>1. PICK db \in {before, configs} : Reads(request, db)
      BY <2>2, TablesRead
    <3>2. breaking!Fits(db, request.group) = {}
      BY <1>1, <1>3, <3>1 DEF Reads
    <3>3. data[request.group] = None
      <4>1. request.group <= request.group
        BY <1>2 DEF RequestOf
      <4>. QED BY <1>1, <1>2, <2>2, <4>1 DEF ConfigsSafe, Answered
    <3>. QED BY <3>1, <3>2, <3>3, BestAre
  <2>. QED BY <1>1, <1>2, <2>1, <2>2, NextGroupSafe
<1>4. CASE request.queue # {}
  <2>1. PICK q \in breaking!First(request.queue) : request' =
          LET targets == IF configs[q.id] = None THEN {} ELSE configs[q.id].targets
          IN CASE \E t \in targets : breaking!Raises(t)  -> [breaking!NoRequest EXCEPT !.step = "failed"]
               [] \A t \in targets : breaking!Matches(t) -> [request EXCEPT !.step = "config", !.config = q.id]
               [] OTHER                                  -> [request EXCEPT !.queue = @ \ {q}]
    BY <1>4 DEF breaking!MatchTargets
  <2>2. PICK T : T = IF configs[q.id] = None THEN {} ELSE configs[q.id].targets
    OBVIOUS
  <2>3. \/ request' = [breaking!NoRequest EXCEPT !.step = "failed"]
        \/ (\A t \in T : breaking!Matches(t)) /\ request' = [request EXCEPT !.step = "config", !.config = q.id]
        \/ (\E t \in T : ~breaking!Matches(t)) /\ request' = [request EXCEPT !.queue = request.queue \ {q}]
    BY <2>1, <2>2
  <2>4. q \in request.queue /\ q \in [id: Config, priority: Nat]
        /\ \A other \in request.queue : q.priority <= other.priority
    BY <1>2, <2>1 DEF breaking!First, RequestOf
  <2>5. CASE request' = [breaking!NoRequest EXCEPT !.step = "failed"]
    <3>1. PICK d : d = [step |-> "idle", group |-> 0, queue |-> {}, config |-> None, interval |-> 0]
      OBVIOUS
    <3>2. request' = [d EXCEPT !.step = "failed"]
      BY <2>5, <3>1 DEF breaking!NoRequest
    <3>3. d \in RequestOf /\ d.group = 0
      BY <3>1 DEF RequestOf
    <3>4. request' \in RequestOf /\ request'.step = "failed" /\ request'.group = 0
      BY <3>2, <3>3 DEF RequestOf
    <3>5. Reads(request', configs) /\ Later(request', configs, configs)
      BY <3>4 DEF Reads, Later
    <3>. QED BY <1>1, <3>4, <3>5, RequestMoves
  <2>6. ASSUME OneEdit
        PROVE  \E db \in {before, configs} :
                 /\ Reads(request, db) /\ Later(request, db, configs)
                 /\ db[q.id] # None /\ db[q.id].targets = T
    <3>1. PICK db \in {before, configs} : /\ Reads(request, db) /\ Later(request, db, configs)
                                          /\ \A c \in Config : db[c] # None => configs[c] # None
      BY <2>6, TablesRead
    <3>2. db[q.id] # None /\ configs[q.id] # None
      BY <1>1, <2>4, <3>1 DEF Reads
    <3>3. configs[q.id].targets = db[q.id].targets
      BY <1>1, <2>4, <3>1 DEF Later
    <3>. QED BY <2>2, <3>1, <3>2, <3>3
  <2>7. CASE (\A t \in T : breaking!Matches(t)) /\ request' = [request EXCEPT !.step = "config", !.config = q.id]
    <3>1. /\ request' \in RequestOf /\ request'.step = "config"
          /\ request'.group = request.group /\ request'.config = q.id
      BY <1>2, <2>4, <2>7 DEF RequestOf
    <3>2. ASSUME OneEdit
          PROVE  \E db \in {before, configs} : Reads(request', db) /\ Later(request', db, configs)
      <4>1. PICK db \in {before, configs} : /\ Reads(request, db) /\ Later(request, db, configs)
                                            /\ db[q.id] # None /\ db[q.id].targets = T
        BY <2>6, <3>2
      <4>2. db[q.id].group = request.group /\ db[q.id].on /\ q.priority = db[q.id].priority
        BY <1>1, <2>4, <4>1 DEF Reads
      <4>3. q.id \in breaking!Fits(db, request.group)
        BY <2>4, <2>7, <4>1, <4>2, FitsAre
      <4>4. \A c \in breaking!Fits(db, request.group) : db[q.id].priority <= db[c].priority
        BY <1>1, <2>4, <4>1, <4>2 DEF Reads
      <4>5. Reads(request', db)
        BY <3>1, <4>3, <4>4 DEF Reads
      <4>6. Later(request', db, configs)
        BY <1>1, <2>4, <3>1, <4>1 DEF Later
      <4>. QED BY <4>5, <4>6
    <3>3. q.id \in Config
      BY <2>4
    <3>. QED BY <1>1, <3>1, <3>2, <3>3, RequestMoves
  <2>8. CASE (\E t \in T : ~breaking!Matches(t)) /\ request' = [request EXCEPT !.queue = request.queue \ {q}]
    <3>1. /\ request' \in RequestOf /\ request'.step = "match"
          /\ request'.group = request.group /\ request'.queue = request.queue \ {q}
      BY <1>1, <1>2, <2>8 DEF RequestOf
    <3>2. ASSUME OneEdit
          PROVE  \E db \in {before, configs} : Reads(request', db) /\ Later(request', db, configs)
      <4>1. PICK db \in {before, configs} : /\ Reads(request, db) /\ Later(request, db, configs)
                                            /\ db[q.id] # None /\ db[q.id].targets = T
        BY <2>6, <3>2
      <4>2. q.id \notin breaking!Fits(db, request.group)
        BY <2>8, <4>1, FitsAre
      <4>3. Reads(request', db)
        BY <1>1, <3>1, <4>1, <4>2 DEF Reads
      <4>4. Later(request', db, configs)
        BY <1>1, <3>1, <4>1 DEF Later
      <4>. QED BY <4>3, <4>4
    <3>. QED BY <1>1, <3>1, <3>2, RequestMoves
  <2>. QED BY <2>3, <2>5, <2>7, <2>8
<1>. QED BY <1>3, <1>4

\* The configuration is read.
LEMMA ReadConfigSafe ==
  ASSUME ConfigsSafe, breaking!ReadConfig
  PROVE  ConfigsSafe'
<1>1. request.step = "config" /\ UNCHANGED <<configs, enabled, data, before, configEdits>>
  BY DEF breaking!ReadConfig
<1>2. /\ request \in RequestOf /\ request.group \in Group /\ data = [g \in Group |-> data[g]]
      /\ configs \in [Config -> Configs \cup {None}]
  BY <1>1 DEF ConfigsSafe, ConfigsTyped
<1>3. ASSUME OneEdit
      PROVE  \E db \in {before, configs} :
               /\ Reads(request, db) /\ Later(request, db, configs)
               /\ request.config \in Config /\ configs[request.config] # None
  <2>1. PICK db \in {before, configs} : /\ Reads(request, db) /\ Later(request, db, configs)
                                        /\ \A c \in Config : db[c] # None => configs[c] # None
    BY <1>3, TablesRead
  <2>2. request.config \in Config /\ db[request.config] # None
    BY <1>1, <2>1, FitsAre DEF Reads
  <2>. QED BY <2>1, <2>2
<1>4. CASE configs[request.config] = None
  <2>1. request' = breaking!NextGroup
    BY <1>4 DEF breaking!ReadConfig
  <2>2. ~OneEdit
    BY <1>3, <1>4
  <2>. QED BY <1>1, <1>2, <2>1, <2>2, NextGroupSafe
<1>5. CASE configs[request.config] # None
  <2>1. PICK i : i = configs[request.config].interval
    OBVIOUS
  <2>2. i \in Nat /\ request.config \in Config
    BY <1>1, <1>2, <1>5, <2>1, ConfigFields DEF ConfigsSafe, ConfigsTyped
  <2>3. request' = [request EXCEPT !.step = "metrics", !.interval = i]
    BY <1>5, <2>1 DEF breaking!ReadConfig
  <2>4. /\ request' \in RequestOf /\ request'.step = "metrics" /\ request'.group = request.group
        /\ request'.config = request.config /\ request'.interval = i
    BY <1>2, <2>2, <2>3 DEF RequestOf
  <2>5. ASSUME OneEdit
        PROVE  \E db \in {before, configs} : Reads(request', db) /\ Later(request', db, configs)
    <3>1. PICK db \in {before, configs} : Reads(request, db) /\ Later(request, db, configs)
      BY <1>3, <2>5
    <3>2. Reads(request', db)
      BY <1>1, <2>1, <2>4, <3>1 DEF Reads, Later
    <3>3. Later(request', db, configs)
      BY <1>1, <2>4, <3>1 DEF Later
    <3>. QED BY <3>2, <3>3
  <2>. QED BY <1>1, <2>2, <2>4, <2>5, RequestMoves
<1>. QED BY <1>4, <1>5

\* Its metrics are read: that is the answer for the group.
LEMMA ReadMetricsSafe ==
  ASSUME ConfigsSafe, breaking!ReadMetrics
  PROVE  ConfigsSafe'
<1>1. request.step = "metrics" /\ UNCHANGED <<configs, enabled, before, configEdits>> /\ request' = breaking!NextGroup
  BY DEF breaking!ReadMetrics
<1>2. /\ request \in RequestOf /\ request.group \in Group /\ request.config \in Config
      /\ data = [g \in Group |-> data[g]]
  BY <1>1 DEF ConfigsSafe, ConfigsTyped
<1>3. PICK m : m = IF configs[request.config] = None THEN {} ELSE configs[request.config].metrics
  OBVIOUS
<1>4. PICK a : a = [config |-> request.config, interval |-> request.interval, metrics |-> m]
  OBVIOUS
<1>5. data' = [data EXCEPT ![request.group] = a]
  BY <1>3, <1>4 DEF breaking!ReadMetrics
<1>6. /\ data' = [g \in Group |-> data'[g]] /\ data'[request.group] = a
      /\ \A g \in Group : g # request.group => data'[g] = data[g]
  BY <1>2, <1>5
<1>7. ASSUME OneEdit
      PROVE  a \in breaking!Best(before, request.group) \cup breaking!Best(configs, request.group)
  <2>1. PICK db \in {before, configs} : /\ Reads(request, db) /\ Later(request, db, configs)
                                        /\ \A c \in Config : db[c] # None => configs[c] # None
    BY <1>7, TablesRead
  <2>2. PICK c : c = request.config
    OBVIOUS
  <2>3. /\ c \in breaking!Fits(db, request.group) /\ request.interval = db[c].interval
        /\ \A y \in breaking!Fits(db, request.group) : db[c].priority <= db[y].priority
    BY <1>1, <2>1, <2>2 DEF Reads
  <2>4. m = db[c].metrics
    <3>1. configs[c] # None
      BY <2>1, <2>3, FitsAre
    <3>. QED BY <1>1, <1>3, <2>1, <2>2, <3>1 DEF Later
  <2>5. [config |-> c, interval |-> db[c].interval, metrics |-> db[c].metrics] \in breaking!Best(db, request.group)
    BY <2>3, BestAre
  <2>. QED BY <1>4, <2>1, <2>2, <2>3, <2>4, <2>5
<1>. QED BY <1>1, <1>2, <1>6, <1>7, NextGroupSafe

\* The answer is sent.
LEMMA AnswerSafe ==
  ASSUME ConfigsSafe, breaking!Answer
  PROVE  ConfigsSafe'
<1>1. PICK n \in Group : Group = 1..n
  BY ManagementAssumption
<1>2. UNCHANGED <<configs, enabled, before, configEdits>> /\ data' = [g \in Group |-> None]
      /\ request' = breaking!NoRequest
  BY DEF breaking!Answer
<1>3. request' \in RequestOf /\ request'.step = "idle" /\ request'.group = 0
  BY <1>2 DEF breaking!NoRequest, RequestOf
<1>4. ConfigsTyped'
  BY <1>2, <1>3 DEF ConfigsSafe, ConfigsTyped
<1>5. Reads(request', configs') /\ Later(request', configs', configs')
  BY <1>3 DEF Reads, Later
<1>6. Answered'
  <2>1. \A g \in Group : ~(g < 0)
    BY <1>1
  <2>. QED BY <1>3, <2>1 DEF Answered
<1>. QED BY <1>2, <1>4, <1>5, <1>6 DEF ConfigsSafe

\* A statement that changes one column or set of rows of a configuration.
LEMMA ChangedConfig ==
  ASSUME NEW old \in Configs, NEW r \in Configs, NEW f \in {"on", "priority", "targets", "metrics", "interval"},
         r = [old EXCEPT ![f] = r[f]]
  PROVE  /\ r.group = old.group
         /\ f # "on" => r.on = old.on
         /\ f # "priority" => r.priority = old.priority
         /\ f # "targets" => r.targets = old.targets
         /\ f # "metrics" => r.metrics = old.metrics
         /\ f # "interval" => r.interval = old.interval
<1>1. old \in [group: Nat, on: BOOLEAN, priority: Nat, interval: Nat, metrics: {old.metrics}, targets: {old.targets}]
  BY ConfigFields
<1>2. \A h \in {"group", "on", "priority", "targets", "metrics", "interval"} : h # f => r[h] = old[h]
  BY <1>1
<1>. QED BY <1>2

\* It meets a request: what the request read and will read agrees with the tables before
\* the edit, or after it.
LEMMA EditMeets ==
  ASSUME NEW db \in [Config -> Configs \cup {None}], NEW new, NEW c \in Config, NEW r \in Configs, db[c] # None,
         new = [db EXCEPT ![c] = r], request \in RequestOf, Reads(request, db),
         request.step \in {"config", "metrics"} => request.config \in Config,
         NEW f \in {"on", "priority", "targets", "metrics", "interval"}, r = [db[c] EXCEPT ![f] = r[f]]
  PROVE  Reads(request, new) \/ Later(request, db, new)
<1>1. /\ r.group = db[c].group
      /\ f # "on" => r.on = db[c].on
      /\ f # "priority" => r.priority = db[c].priority
      /\ f # "targets" => r.targets = db[c].targets
      /\ f # "metrics" => r.metrics = db[c].metrics
      /\ f # "interval" => r.interval = db[c].interval
  BY ChangedConfig
<1>2. r # None /\ new[c] = r /\ \A x \in Config : x # c => new[x] = db[x]
  BY ConfigFields
<1>3. /\ \A x \in Config : db[x] # None <=> new[x] # None
      /\ \A x \in Config : new[x].group = db[x].group
      /\ f # "on" => \A x \in Config : new[x].on = db[x].on
      /\ f # "priority" => \A x \in Config : new[x].priority = db[x].priority
      /\ f # "targets" => \A x \in Config : new[x].targets = db[x].targets
      /\ f # "metrics" => \A x \in Config : new[x].metrics = db[x].metrics
      /\ f # "interval" => \A x \in Config : new[x].interval = db[x].interval
  BY <1>1, <1>2
<1>4. \A q \in request.queue : q.id \in Config
  BY DEF RequestOf
<1>5. CASE f \in {"on", "priority"}
  BY <1>3, <1>4, <1>5 DEF Later
<1>6. CASE f \in {"metrics", "interval"}
  <2>1. \A g : breaking!Fits(new, g) = breaking!Fits(db, g)
    BY <1>3, <1>6 DEF breaking!Fits
  <2>2. CASE request.step # "metrics" \/ f = "metrics"
    <3>1. request.step = "metrics" => new[request.config].interval = db[request.config].interval
      BY <1>3, <2>2
    <3>2. \A x \in breaking!Fits(db, request.group) : x \in Config /\ new[x].priority = db[x].priority
      BY <1>3, <1>6, FitsAre
    <3>3. \A q \in request.queue : /\ new[q.id].priority = db[q.id].priority
                                   /\ new[q.id].group = db[q.id].group /\ new[q.id].on = db[q.id].on
                                   /\ db[q.id] # None => new[q.id] # None
      BY <1>3, <1>4, <1>6
    <3>4. CASE request.step = "match"
      <4>1. \A q \in request.queue : /\ new[q.id] # None /\ new[q.id].group = request.group /\ new[q.id].on
                                      /\ q.priority = new[q.id].priority
        BY <3>3, <3>4 DEF Reads
      <4>2. ASSUME NEW x \in breaking!Fits(db, request.group)
            PROVE  \E q \in request.queue : q.id = x /\ q.priority = new[x].priority
        <5>1. \E q \in request.queue : q.id = x
          BY <3>4, <4>2 DEF Reads
        <5>. QED BY <4>1, <5>1
      <4>3. \A x \in breaking!Fits(new, request.group) : \E q \in request.queue : q.id = x /\ q.priority = new[x].priority
        BY <2>1, <4>2
      <4>4. Reads(request, new)
        BY <3>4, <4>1, <4>3 DEF Reads
      <4>. QED BY <4>4
    <3>5. CASE request.step \in {"config", "metrics"}
      <4>1. new[request.config].priority = db[request.config].priority
        BY <1>3, <1>6, <3>5
      <4>. QED BY <2>1, <3>1, <3>2, <3>5, <4>1 DEF Reads
    <3>6. CASE request.step \notin {"match", "config", "metrics"}
      BY <3>6 DEF Reads
    <3>. QED BY <3>4, <3>5, <3>6
  <2>3. CASE request.step = "metrics" /\ f = "interval"
    BY <1>3, <2>3 DEF Later
  <2>. QED BY <1>6, <2>2, <2>3
<1>7. CASE f = "targets"
  <2>1. CASE request.step = "match" /\ \E q \in request.queue : q.id = c
    <3>1. /\ \A q \in request.queue : /\ new[q.id] # None /\ new[q.id].group = request.group /\ new[q.id].on
                                      /\ q.priority = new[q.id].priority
          /\ \A x \in breaking!Fits(db, request.group) : \E q \in request.queue : q.id = x /\ q.priority = db[x].priority
      BY <1>3, <1>4, <1>7, <2>1 DEF Reads
    <3>2. ASSUME NEW x \in breaking!Fits(new, request.group)
          PROVE  \E q \in request.queue : q.id = x /\ q.priority = new[x].priority
      <4>1. CASE x = c
        BY <2>1, <3>1, <4>1
      <4>2. CASE x # c
        <5>1. x \in Config /\ new[x] = db[x]
          BY <1>2, <3>2, <4>2, FitsAre
        <5>2. x \in breaking!Fits(db, request.group)
          <6>1. new[x] # None /\ new[x].group = request.group /\ new[x].on /\ \A t \in new[x].targets : breaking!Matches(t)
            BY <3>2 DEF breaking!Fits
          <6>2. db[x] # None /\ db[x].group = request.group /\ db[x].on /\ \A t \in db[x].targets : breaking!Matches(t)
            BY <5>1, <6>1
          <6>. QED BY <5>1, <6>2 DEF breaking!Fits
        <5>. QED BY <3>1, <5>1, <5>2
      <4>. QED BY <4>1, <4>2
    <3>. QED BY <2>1, <3>1, <3>2 DEF Reads
  <2>2. CASE ~(request.step = "match" /\ \E q \in request.queue : q.id = c)
    BY <1>2, <1>3, <1>4, <1>7, <2>2 DEF Later
  <2>. QED BY <2>1, <2>2
<1>. QED BY <1>5, <1>6, <1>7

\* A user edits a configuration while a request is answered.
LEMMA ConfigEditSafe ==
  ASSUME ConfigsSafe, NEW c \in Config, NEW r \in Configs \cup {None}, breaking!Edit(c, r)
  PROVE  ConfigsSafe'
<1>1. /\ UNCHANGED <<enabled, request, data, before>> /\ configEdits' = configEdits + 1
      /\ configs[c] # None /\ configs' = [configs EXCEPT ![c] = r]
      /\ r # None => \E f \in {"on", "priority", "targets", "metrics", "interval"} : r = [configs[c] EXCEPT ![f] = r[f]]
  <2>1. /\ enabled' = enabled /\ request' = request /\ data' = data /\ before' = before /\ configEdits' = configEdits + 1
        /\ configs[c] # None /\ configs' = [configs EXCEPT ![c] = r]
    BY DEF breaking!Edit
  <2>2. \/ r = None
        \/ r # None /\ \E f \in {"on", "priority", "targets", "metrics", "interval"} : r = [configs[c] EXCEPT ![f] = r[f]]
    BY Zenon DEF breaking!Edit
  <2>. QED BY Zenon, <2>1, <2>2
<1>2. configEdits \in Nat
  BY DEF ConfigsSafe, ConfigsTyped
<1>3. configEdits' \in Nat /\ configEdits' # 0 /\ (configEdits' <= 1 => configEdits = 0)
  BY <1>1, <1>2
<1>4. configs' \in [Config -> Configs \cup {None}]
  BY <1>1 DEF ConfigsSafe, ConfigsTyped
<1>5. ConfigsTyped'
  BY <1>1, <1>3, <1>4 DEF ConfigsSafe, ConfigsTyped
<1>6. ASSUME OneEdit'
      PROVE  Answered' /\ \E db \in {before', configs'} : Reads(request', db) /\ Later(request', db, configs')
  <2>1. configEdits = 0 /\ configs = before /\ enabled
    BY <1>1, <1>3, <1>6 DEF ConfigsSafe, OneEdit
  <2>2. OneEdit
    BY <2>1 DEF OneEdit
  <2>3. Reads(request, before) /\ Answered
    BY <2>1, <2>2 DEF ConfigsSafe
  <2>4. r \in Configs
    BY <1>1, <1>6, <2>1 DEF OneEdit, ConfigsSafe, ConfigsTyped
  <2>5. Answered'
    <3>1. \A g \in Group : g < request.group => data[g] \in breaking!Best(before, g)
      BY <2>1, <2>3 DEF Answered
    <3>2. \A g : breaking!Best(before, g)' = breaking!Best(before, g)
      BY <1>1 DEF breaking!Best, breaking!Fits
    <3>. QED BY <1>1, <2>3, <3>1, <3>2 DEF Answered
  <2>6. PICK new : new = configs'
    OBVIOUS
  <2>7. PICK f \in {"on", "priority", "targets", "metrics", "interval"} : r = [before[c] EXCEPT ![f] = r[f]]
    BY <1>1, <2>1, <2>4, ConfigFields
  <2>8. Reads(request, new) \/ Later(request, before, new)
    <3>1. /\ before \in [Config -> Configs \cup {None}] /\ before[c] # None /\ new = [before EXCEPT ![c] = r]
          /\ request \in RequestOf
          /\ request.step \in {"config", "metrics"} => request.config \in Config
      BY <1>1, <2>1, <2>6 DEF ConfigsSafe, ConfigsTyped
    <3>. QED BY <2>3, <2>4, <2>7, <3>1, EditMeets
  <2>9. Later(request, new, new)
    BY DEF Later
  <2>. QED BY <1>1, <2>3, <2>5, <2>6, <2>8, <2>9
<1>. QED BY <1>3, <1>5, <1>6 DEF ConfigsSafe

(* OneEditAtomic: whatever the configurations are and wherever one edit meets the
   statements of a request, the answer holds for each metric group what the tables
   allowed before the edit or allow after it (AgentConfigv2View.post in agent_config.py). *)
THEOREM OneEditAlwaysAtomic == Spec => []OneEditAtomic
<1>. DEFINE Safe == part = "configs" => ConfigsSafe
<1>1. Init => Safe
  <2>1. SUFFICES ASSUME breaking!Init PROVE ConfigsSafe
    BY DEF Init
  <2>2. /\ configs \in [Config -> Configs \cup {None}] /\ before = configs /\ configEdits = 0
        /\ request = breaking!NoRequest /\ data = [g \in Group |-> None]
    BY <2>1 DEF breaking!Init
  <2>3. request \in RequestOf /\ request.step = "idle" /\ request.group = 0
    BY <2>2 DEF breaking!NoRequest, RequestOf
  <2>4. ConfigsTyped
    BY <2>2, <2>3 DEF ConfigsTyped
  <2>5. Reads(request, configs) /\ Later(request, configs, configs)
    BY <2>3 DEF Reads, Later
  <2>6. Answered
    <3>1. \A g \in Group : ~(g < 0)
      BY ManagementAssumption
    <3>. QED BY <2>3, <3>1 DEF Answered
  <2>. QED BY <2>2, <2>4, <2>5, <2>6 DEF ConfigsSafe
<1>2. ASSUME ConfigsSafe, breaking!Next PROVE ConfigsSafe'
  <2>1. \A c \in Config, r \in Configs \cup {None} : breaking!Edit(c, r) => ConfigsSafe'
    BY <1>2, ConfigEditSafe
  <2>. QED BY <1>2, <2>1, PostSafe, ListConfigsSafe, MatchTargetsSafe, ReadConfigSafe, ReadMetricsSafe, AnswerSafe
           DEF breaking!Next
<1>3. ASSUME ConfigsSafe, UNCHANGED configVars PROVE ConfigsSafe'
  BY <1>3 DEF ConfigsSafe, ConfigsTyped, OneEdit, Answered, Reads, Later, configVars,
              breaking!Best, breaking!Fits
<1>4. Safe /\ [Next]_vars => Safe'
  BY <1>2, <1>3 DEF Next, vars
<1>5. Safe => OneEditAtomic
  <2>1. SUFFICES ASSUME ConfigsSafe, request.step = "done", OneEdit, NEW g \in Group
        PROVE  data[g] \in breaking!Best(before, g) \cup breaking!Best(configs, g)
    BY DEF OneEditAtomic, breaking!OneEditAtomic, OneEdit
  <2>. QED BY <2>1 DEF ConfigsSafe, ConfigsTyped, OneEdit, Answered
<1>. QED BY <1>1, <1>4, <1>5, PTL DEF Spec

--------------------------------------------------------------------------------
(* Retention: a clean-up keeps within reach the pools that were expired when it *)
(* began, until they are gone.                                                  *)

JobOf == [at: {"chunk"}, days: Int, due: SUBSET retention!Id, start: Nat]
         \cup [at: {"first"}, days: Int, due: SUBSET retention!Id, latest: Nat]
         \cup [at: {"ranges"}, days: Int, due: SUBSET retention!Id, latest: Nat, lows: SUBSET retention!Id]

PoolsTyped ==
  /\ elastic \in BOOLEAN
  /\ age \in [retention!Id -> Nat \cup {None}]
  /\ uploaded \in 0..MaxPools
  /\ schedule \in Days \cup {None}
  /\ cleaner \in [Cleaner -> JobOf \cup {retention!Idle}]

\* Ids are not given twice.
PoolsUploaded == \A i \in retention!Rows : i <= uploaded

\* What a clean-up has to delete still: pools of due that are stored.
Left(k, h) == {i \in k.due : h[i] # None}

\* They are expired and older than any upload; those behind the start of the next
\* chunk are gone, and a range of ids that will be deleted holds each, but for the newest.
JobKnown(k, h, last) ==
  /\ \A i \in Left(k, h) : h[i] >= k.days
  /\ \A i \in k.due : i <= last
  /\ k.at = "chunk" => \A i \in Left(k, h) : k.start < i
  /\ k.at = "first" => \A i \in k.due : i <= k.latest
  /\ k.at = "ranges" =>
       /\ \A low \in k.lows : low < k.latest
       /\ \A i \in Left(k, h) : i # k.latest => \E low \in k.lows : i \in low..(low + Batch - 1)

JobsKnown == \A c \in Cleaner : cleaner[c] # retention!Idle =>
  JobKnown(cleaner[c], age, uploaded) /\ (elastic <=> cleaner[c].at = "chunk")

PoolsSafe == PoolsTyped /\ PoolsUploaded /\ JobsKnown

\* A set of ids has a least one.
LEMMA MinOf ==
  ASSUME NEW S \in SUBSET Nat, S # {}
  PROVE  retention!Min(S) \in S /\ \A i \in S : retention!Min(S) <= i
  BY LeastOf DEF retention!Min

\* A set of pools has a newest one.
LEMMA MaxOf ==
  ASSUME NEW S \in SUBSET retention!Id, S # {}
  PROVE  retention!Max(S) \in S /\ \A i \in S : i <= retention!Max(S)
<1>1. PICK n \in Nat : n = MaxPools
  BY ManagementAssumption
<1>2. \A i \in S : i \in 1..n
  BY <1>1 DEF retention!Id
<1>3. PICK U : U = {u \in 0..n : \A i \in S : i <= u}
  OBVIOUS
<1>4. n \in U /\ U \in SUBSET Nat
  BY <1>2, <1>3
<1>5. PICK m \in U : \A u \in U : m <= u
  BY <1>4, LeastOf
<1>6. m \in S
  <2>1. SUFFICES ASSUME m \notin S PROVE FALSE
    OBVIOUS
  <2>2. \A i \in S : i <= m /\ i # m /\ i \in 1..n
    BY <1>2, <1>3, <1>5, <2>1
  <2>3. m \in 0..n /\ m # 0
    BY <1>2, <1>3, <1>5, <2>2
  <2>4. m - 1 \in 0..n /\ \A i \in S : i <= m - 1
    BY <2>2, <2>3
  <2>5. m - 1 \in U
    BY <1>3, <2>4
  <2>. QED BY <1>5, <2>3, <2>5
<1>7. \E x \in S : \A y \in S : x >= y
  <2>1. \A i \in S : m >= i
    BY <1>2, <1>3, <1>5
  <2>. QED BY <1>6, <2>1
<1>8. /\ retention!Max(S) \in S
      /\ \A y \in S : retention!Max(S) >= y
  BY <1>7 DEF retention!Max
<1>. QED BY <1>2, <1>8

\* FiniteSets as Retention extends it.
LEMMA SameCardinality ==
  ASSUME NEW S
  PROVE  retention!Cardinality(S) = Cardinality(S)
  BY DEF Cardinality, retention!Cardinality

\* The k-th pool of a set of at least k pools.
LEMMA NthOf ==
  ASSUME NEW S \in SUBSET retention!Id, NEW k \in Nat \ {0}, k <= Cardinality(S)
  PROVE  \E i \in S : Cardinality({j \in S : j <= i}) = k
<1>1. PICK n \in Nat : n = MaxPools
  BY ManagementAssumption
<1>2. S \in SUBSET (1..n)
  BY <1>1 DEF retention!Id
<1>3. IsFiniteSet(S) /\ Cardinality(S) \in Nat
  <2>1. IsFiniteSet(1..n)
    BY <1>1, FS_Interval
  <2>. QED BY <1>2, <2>1, FS_Subset, FS_CardinalityType
<1> DEFINE UpTo(i) == {j \in S : j <= i}
<1>4. \A i : IsFiniteSet(UpTo(i)) /\ Cardinality(UpTo(i)) \in Nat
  BY <1>3, FS_Subset, FS_CardinalityType
<1>5. PICK U : U = {i \in 0..n : Cardinality(UpTo(i)) >= k}
  OBVIOUS
<1>6. n \in U /\ U \in SUBSET Nat
  <2>1. \A j \in S : j <= n
    BY <1>1, <1>2
  <2>2. UpTo(n) = S
    BY <2>1
  <2>. QED BY <1>1, <1>3, <1>5, <2>2
<1>7. PICK m \in U : \A i \in U : m <= i
  BY <1>6, LeastOf
<1>8. m \in 0..n /\ Cardinality(UpTo(m)) >= k
  BY <1>5, <1>7
<1>9. m # 0
  <2>1. \A j \in S : ~(j <= 0)
    BY <1>1, <1>2
  <2>2. UpTo(0) = {}
    BY <2>1
  <2>. QED BY <1>8, <2>2, FS_EmptySet
<1>10. m - 1 \in 0..n /\ m - 1 \notin U
  BY <1>6, <1>7, <1>8, <1>9
<1>11. ~(Cardinality(UpTo(m - 1)) >= k)
  BY <1>5, <1>10
<1>12. m \in S
  <2>1. SUFFICES ASSUME m \notin S PROVE FALSE
    OBVIOUS
  <2>2. \A j \in S : j <= m <=> j <= m - 1
    BY <1>2, <1>8, <2>1
  <2>3. UpTo(m) = UpTo(m - 1)
    BY <2>2
  <2>. QED BY <1>8, <1>11, <2>3
<1>13. UpTo(m) = UpTo(m - 1) \cup {m} /\ m \notin UpTo(m - 1)
  <2>1. \A j \in S : j <= m <=> (j <= m - 1 \/ j = m)
    BY <1>2, <1>8
  <2>2. ~(m <= m - 1)
    BY <1>8
  <2>. QED BY <1>12, <2>1, <2>2
<1>14. Cardinality(UpTo(m)) = Cardinality(UpTo(m - 1)) + 1
  <2>1. PICK T : T = UpTo(m - 1)
    OBVIOUS
  <2>2. IsFiniteSet(T)
    BY <1>4, <2>1
  <2>3. Cardinality(T \cup {m}) = Cardinality(T) + 1
    BY <1>13, <2>1, <2>2, FS_AddElement
  <2>. QED BY <1>13, <2>1, <2>3
<1>15. PICK a, b : a = Cardinality(UpTo(m - 1)) /\ b = Cardinality(UpTo(m))
  OBVIOUS
<1>16. a \in Nat /\ b \in Nat /\ b = a + 1 /\ b >= k /\ ~(a >= k)
  BY <1>4, <1>8, <1>11, <1>14, <1>15
<1>17. b = k
  BY <1>16
<1>. QED BY <1>12, <1>15, <1>17

\* A clean-up keeps its promise when pools only go, grow older or are uploaded.
LEMMA JobStays ==
  ASSUME NEW k \in JobOf, NEW h \in [retention!Id -> Nat \cup {None}], NEW g \in [retention!Id -> Nat \cup {None}],
         NEW n \in Nat, NEW m \in Nat, n <= m, JobKnown(k, h, n),
         \A i \in k.due : g[i] # None => h[i] # None /\ g[i] >= h[i]
  PROVE  JobKnown(k, g, m)
<1>1. k.due \in SUBSET retention!Id /\ k.days \in Int
  BY ManagementAssumption DEF JobOf
<1>2. \A i \in k.due : i \in Nat
  BY <1>1 DEF retention!Id
<1>3. Left(k, g) \subseteq Left(k, h)
  BY DEF Left
<1>4. \A i \in Left(k, g) : g[i] >= k.days
  <2>1. SUFFICES ASSUME NEW i \in Left(k, g) PROVE g[i] >= k.days
    OBVIOUS
  <2>2. i \in k.due /\ i \in retention!Id /\ g[i] # None /\ h[i] # None /\ g[i] >= h[i]
    BY <1>1, <2>1 DEF Left
  <2>3. g[i] \in Nat /\ h[i] \in Nat
    BY <2>2
  <2>4. h[i] >= k.days
    BY <1>3, <2>1 DEF JobKnown
  <2>. QED BY <1>1, <2>2, <2>3, <2>4
<1>5. \A i \in k.due : i <= m
  <2>1. \A i \in k.due : i <= n
    BY DEF JobKnown
  <2>. QED BY <1>2, <2>1
<1>. QED BY <1>3, <1>4, <1>5 DEF JobKnown

\* What every step leaves: the tables are typed, pools are not uploaded twice, and
\* clean-ups go on, end, or know what they have to do next.
LEMMA PoolsStay ==
  ASSUME PoolsSafe, UNCHANGED elastic, age' \in [retention!Id -> Nat \cup {None}],
         uploaded' \in 0..MaxPools, uploaded <= uploaded', schedule' \in Days \cup {None},
         \A i \in retention!Id : age'[i] # None =>
           i <= uploaded' /\ (i <= uploaded => age[i] # None /\ age'[i] >= age[i]),
         cleaner' \in [Cleaner -> JobOf \cup {retention!Idle}],
         \A c \in Cleaner : \/ cleaner'[c] \in {cleaner[c], retention!Idle}
                            \/ JobKnown(cleaner'[c], age', uploaded') /\ (elastic <=> cleaner'[c].at = "chunk")
  PROVE  PoolsSafe'
<1>1. PoolsTyped'
  BY DEF PoolsSafe, PoolsTyped
<1>2. PoolsUploaded'
  BY DEF PoolsUploaded, retention!Rows
<1>3. ASSUME NEW c \in Cleaner, cleaner'[c] # retention!Idle, cleaner'[c] = cleaner[c]
      PROVE  JobKnown(cleaner'[c], age', uploaded') /\ (elastic <=> cleaner'[c].at = "chunk")
  <2>1. PICK k \in JobOf : k = cleaner[c]
    BY <1>3 DEF PoolsSafe, PoolsTyped
  <2>2. JobKnown(k, age, uploaded) /\ (elastic <=> k.at = "chunk")
    BY <1>3, <2>1 DEF PoolsSafe, JobsKnown
  <2>3. uploaded \in Nat /\ uploaded' \in Nat /\ age \in [retention!Id -> Nat \cup {None}]
    BY DEF PoolsSafe, PoolsTyped
  <2>4. \A i \in k.due : i \in retention!Id /\ i <= uploaded
    BY <2>2 DEF JobKnown, JobOf
  <2>5. \A i \in k.due : age'[i] # None => age[i] # None /\ age'[i] >= age[i]
    BY <2>4
  <2>6. JobKnown(k, age', uploaded')
    BY <2>2, <2>3, <2>5, JobStays
  <2>. QED BY <1>3, <2>1, <2>2, <2>6
<1>4. JobsKnown'
  BY <1>3 DEF JobsKnown
<1>. QED BY <1>1, <1>2, <1>4 DEF PoolsSafe

\* The same where no pool is uploaded or deleted.
LEMMA SamePoolsStay ==
  ASSUME PoolsSafe, UNCHANGED <<elastic, age, uploaded>>, schedule' \in Days \cup {None},
         cleaner' \in [Cleaner -> JobOf \cup {retention!Idle}],
         \A c \in Cleaner : \/ cleaner'[c] \in {cleaner[c], retention!Idle}
                            \/ JobKnown(cleaner'[c], age', uploaded') /\ (elastic <=> cleaner'[c].at = "chunk")
  PROVE  PoolsSafe'
<1>1. /\ age' \in [retention!Id -> Nat \cup {None}]
      /\ uploaded' \in 0..MaxPools /\ uploaded <= uploaded'
  BY ManagementAssumption DEF PoolsSafe, PoolsTyped
<1>2. ASSUME NEW i \in retention!Id, age'[i] # None
      PROVE  i <= uploaded' /\ (i <= uploaded => age[i] # None /\ age'[i] >= age[i])
  <2>1. i \in retention!Rows /\ age[i] \in Nat
    BY <1>2 DEF PoolsSafe, PoolsTyped, retention!Rows
  <2>. QED BY <1>2, <2>1 DEF PoolsSafe, PoolsUploaded
<1>. QED BY <1>1, <1>2, PoolsStay

\* An upload takes the next id.
LEMMA PoolUploadSafe ==
  ASSUME PoolsSafe, NEW delay \in {0, 1}, retention!Upload(delay)
  PROVE  PoolsSafe'
<1>1. /\ uploaded \in Nat /\ uploaded < MaxPools /\ uploaded' = uploaded + 1
      /\ age \in [retention!Id -> Nat \cup {None}] /\ age' = [age EXCEPT ![uploaded + 1] = delay]
      /\ UNCHANGED <<elastic, schedule, cleaner>>
  BY DEF PoolsSafe, PoolsTyped, retention!Upload
<1>2. MaxPools \in Nat /\ None \notin Nat
  BY ManagementAssumption
<1>3. age' \in [retention!Id -> Nat \cup {None}] /\ uploaded' \in 0..MaxPools
  <2>1. delay \in Nat \cup {None}
    OBVIOUS
  <2>2. age' \in [retention!Id -> Nat \cup {None}]
    BY <1>1, <2>1
  <2>3. uploaded' \in 0..MaxPools
    BY <1>1, <1>2
  <2>. QED BY <2>2, <2>3
<1>4. \A i \in retention!Id : i \in Nat
  BY DEF retention!Id
<1>5. ASSUME NEW i \in retention!Id, age'[i] # None
      PROVE  i <= uploaded' /\ (i <= uploaded => age[i] # None /\ age'[i] >= age[i])
  <2>1. CASE i = uploaded + 1
    BY <1>1, <2>1
  <2>2. CASE i # uploaded + 1
    <3>1. age'[i] = age[i]
      BY <1>1, <2>2
    <3>2. i <= uploaded
      BY <1>5, <3>1 DEF PoolsSafe, PoolsUploaded, retention!Rows
    <3>3. age[i] \in Nat
      BY <1>1, <1>5, <3>1
    <3>. QED BY <1>1, <1>4, <3>1, <3>2, <3>3, <1>5
  <2>. QED BY <2>1, <2>2
<1>6. UNCHANGED elastic /\ schedule' \in Days \cup {None} /\ cleaner' \in [Cleaner -> JobOf \cup {retention!Idle}]
  BY <1>1 DEF PoolsSafe, PoolsTyped
<1>7. \A c \in Cleaner : cleaner'[c] = cleaner[c]
  BY <1>1
<1>8. uploaded <= uploaded'
  BY <1>1
<1>. QED BY <1>3, <1>5, <1>6, <1>7, <1>8, PoolsStay

\* A day makes pools older.
LEMMA PoolDaySafe ==
  ASSUME PoolsSafe, retention!Day
  PROVE  PoolsSafe'
<1>1. /\ age \in [retention!Id -> Nat \cup {None}] /\ uploaded \in Nat
      /\ age' = [i \in retention!Id |-> IF i \in retention!Rows /\ age[i] < MaxAge THEN age[i] + 1 ELSE age[i]]
      /\ UNCHANGED <<elastic, uploaded, schedule>>
  BY DEF PoolsSafe, PoolsTyped, retention!Day
<1>2. None \notin Nat
  BY ManagementAssumption
<1>3. \A i \in retention!Rows : i \in retention!Id /\ age[i] \in Nat
  BY <1>1 DEF retention!Rows
<1>4. age' \in [retention!Id -> Nat \cup {None}]
  BY <1>1, <1>3
<1>5. ASSUME NEW i \in retention!Id, age'[i] # None
      PROVE  i <= uploaded' /\ (i <= uploaded => age[i] # None /\ age'[i] >= age[i])
  <2>1. i \in retention!Rows
    BY <1>1, <1>5 DEF retention!Rows
  <2>2. i <= uploaded
    BY <2>1 DEF PoolsSafe, PoolsUploaded
  <2>. QED BY <1>1, <1>3, <2>1, <2>2 DEF retention!Rows
<1>6. UNCHANGED elastic /\ schedule' \in Days \cup {None}
      /\ uploaded' \in 0..MaxPools /\ uploaded <= uploaded'
  BY <1>1 DEF PoolsSafe, PoolsTyped
<1>7. /\ cleaner \in [Cleaner -> JobOf \cup {retention!Idle}]
      /\ cleaner' = [c \in Cleaner |-> IF cleaner[c] = retention!Idle THEN retention!Idle
                                     ELSE [cleaner[c] EXCEPT !.days = @ + 1]]
      /\ \A c \in Cleaner : cleaner[c] # retention!Idle => cleaner[c].days < MaxAge
  BY DEF PoolsSafe, PoolsTyped, retention!Day
<1>8. ASSUME NEW c \in Cleaner, cleaner[c] # retention!Idle
      PROVE  /\ cleaner'[c] \in JobOf
             /\ JobKnown(cleaner'[c], age', uploaded') /\ (elastic <=> cleaner'[c].at = "chunk")
  <2>1. PICK k \in JobOf : k = cleaner[c]
    BY <1>7, <1>8
  <2>2. PICK j : j = [k EXCEPT !.days = @ + 1]
    OBVIOUS
  <2>3. cleaner'[c] = j
    BY <1>7, <1>8, <2>1, <2>2
  <2>4. /\ j \in JobOf /\ j.days = k.days + 1 /\ k.days \in Int
        /\ j.at = k.at /\ j.due = k.due
        /\ k.at = "chunk" => j.start = k.start
        /\ k.at \in {"first", "ranges"} => j.latest = k.latest
        /\ k.at = "ranges" => j.lows = k.lows
    BY <2>2 DEF JobOf
  <2>5. k.days < MaxAge /\ MaxAge \in Nat
    BY <1>7, <1>8, <2>1, ManagementAssumption
  <2>6. JobKnown(k, age, uploaded) /\ (elastic <=> k.at = "chunk")
    BY <1>8, <2>1 DEF PoolsSafe, JobsKnown
  <2>7. Left(j, age') = Left(k, age)
    <3>1. \A i \in k.due : i \in retention!Id /\ (age'[i] # None <=> age[i] # None)
      BY <1>1, <1>2, <1>3 DEF JobOf, retention!Rows
    <3>. QED BY <2>4, <3>1 DEF Left
  <2>8. ASSUME NEW i \in Left(k, age) PROVE age'[i] >= j.days
    <3>1. i \in retention!Rows /\ i \in retention!Id
      BY DEF Left, JobOf, retention!Rows
    <3>2. age[i] \in Nat /\ age[i] >= k.days
      BY <1>3, <2>6, <3>1 DEF JobKnown
    <3>3. age'[i] = IF age[i] < MaxAge THEN age[i] + 1 ELSE age[i]
      BY <1>1, <3>1
    <3>. QED BY <2>4, <2>5, <3>2, <3>3
  <2>9. JobKnown(j, age', uploaded')
    BY <1>1, <2>4, <2>6, <2>7, <2>8 DEF JobKnown
  <2>. QED BY <2>3, <2>4, <2>6, <2>9
<1>11. \A c \in Cleaner : cleaner'[c] \in JobOf \cup {retention!Idle}
  BY <1>7, <1>8
<1>9. cleaner' \in [Cleaner -> JobOf \cup {retention!Idle}]
  <2>1. PICK T : T = JobOf \cup {retention!Idle}
    OBVIOUS
  <2>2. cleaner' \in [Cleaner -> T]
    BY <1>7, <1>11, <2>1
  <2>. QED BY <2>1, <2>2
<1>10. \A c \in Cleaner : \/ cleaner'[c] \in {cleaner[c], retention!Idle}
                          \/ JobKnown(cleaner'[c], age', uploaded') /\ (elastic <=> cleaner'[c].at = "chunk")
  BY <1>7, <1>8
<1>. QED BY <1>4, <1>5, <1>6, <1>9, <1>10, PoolsStay

\* A clean-up begins: the pools that are expired are due.
LEMMA CleanUpBegins ==
  ASSUME PoolsSafe, NEW c \in Cleaner, NEW days \in Days, retention!Begin(c, days)
  PROVE  PoolsSafe'
<1>1. PICK due : due = retention!Expired(days)
  OBVIOUS
<1>2. due \in SUBSET retention!Id /\ \A i \in due : age[i] # None /\ age[i] \in Nat /\ age[i] >= days
  BY <1>1 DEF retention!Expired, retention!Rows, PoolsSafe, PoolsTyped
<1>3. \A i \in due : i <= uploaded
  BY <1>1 DEF retention!Expired, PoolsSafe, PoolsUploaded
<1>4. \A i \in retention!Id : i \in Nat /\ 0 < i
  BY DEF retention!Id
<1>5. PICK latest : latest = IF due = {} THEN 0 ELSE retention!Max(due)
  OBVIOUS
<1>6. latest \in Nat /\ \A i \in due : i <= latest
  BY <1>2, <1>4, <1>5, MaxOf
<1>7. PICK k : k = IF elastic THEN [at |-> "chunk", days |-> days, due |-> due, start |-> 0]
                   ELSE [at |-> "first", days |-> days, due |-> due, latest |-> latest]
  OBVIOUS
<1>8. cleaner' = [cleaner EXCEPT ![c] = k] /\ UNCHANGED <<elastic, age, uploaded, schedule>>
  BY <1>1, <1>5, <1>7 DEF retention!Begin
<1>9. k \in JobOf
  BY <1>2, <1>6, <1>7, ManagementAssumption DEF JobOf
<1>10. k.days = days /\ k.due = due
  BY <1>7
<1>11. JobKnown(k, age, uploaded)
  <2>1. CASE elastic
    BY <1>2, <1>3, <1>4, <1>7, <1>10, <2>1 DEF JobKnown, Left
  <2>2. CASE ~elastic
    BY <1>2, <1>3, <1>6, <1>7, <1>10, <2>2 DEF JobKnown, Left
  <2>. QED BY <2>1, <2>2
<1>12. elastic <=> k.at = "chunk"
  BY <1>7
<1>13. cleaner' \in [Cleaner -> JobOf \cup {retention!Idle}]
  BY <1>8, <1>9 DEF PoolsSafe, PoolsTyped
<1>14. \A d \in Cleaner : cleaner'[d] = IF d = c THEN k ELSE cleaner[d]
  BY <1>8 DEF PoolsSafe, PoolsTyped
<1>15. \A d \in Cleaner : \/ cleaner'[d] \in {cleaner[d], retention!Idle}
                          \/ JobKnown(cleaner'[d], age', uploaded') /\ (elastic <=> cleaner'[d].at = "chunk")
  BY <1>8, <1>11, <1>12, <1>14
<1>16. schedule' \in Days \cup {None}
  BY <1>8 DEF PoolsSafe, PoolsTyped
<1>. QED BY <1>8, <1>13, <1>15, <1>16, SamePoolsStay

\* The lower ends of the ranges reach each pool between the first and the newest.
LEMMA LowsReach ==
  ASSUME NEW first \in retention!Id, NEW latest \in Nat,
         NEW i \in retention!Id, first <= i, i < latest
  PROVE  \E low \in retention!Lows(first, latest) : i \in low..(low + Batch - 1)
<1>1. PICK B \in Nat \ {0} : B = Batch
  BY ManagementAssumption
<1>2. PICK n \in Nat : n = MaxPools
  BY ManagementAssumption
<1>3. first \in 1..n /\ i \in 1..n
  BY <1>2 DEF retention!Id
<1>4. PICK a \in Nat : a = i - first
  BY <1>3
<1>5. PICK r : r = a % B
  OBVIOUS
<1>6. PICK q : q = a \div B
  OBVIOUS
<1>7. r \in 0..(B - 1) /\ q \in Int
  BY <1>1, <1>4, <1>5, <1>6
<1>8. a = B * q + r
  BY <1>1, <1>4, <1>5, <1>6
<1>9. PICK low : low = i - r
  OBVIOUS
<1>10. PICK p : p = B * q
  OBVIOUS
<1>11. p \in Int /\ p = a - r
  BY <1>1, <1>4, <1>7, <1>8, <1>10
<1>12. a - r >= 0
  <2>1. CASE q >= 0
    <3>1. p >= 0
      BY <1>1, <1>7, <1>10, <2>1
    <3>. QED BY <1>11, <3>1
  <2>2. CASE q <= -1
    <3>1. p <= -B
      BY <1>1, <1>7, <1>10, <2>2
    <3>. QED BY <1>1, <1>4, <1>7, <1>11, <3>1
  <2>. QED BY <1>7, <2>1, <2>2
<1>13. p % B = 0
  BY <1>1, <1>7, <1>10
<1>14. low - first = p
  BY <1>3, <1>4, <1>7, <1>9, <1>11
<1>15. low \in 1..n /\ low >= first /\ low < latest /\ i \in low..(low + B - 1)
  BY <1>1, <1>3, <1>4, <1>7, <1>9, <1>12
<1>16. low \in retention!Lows(first, latest)
  BY <1>1, <1>2, <1>13, <1>14, <1>15 DEF retention!Lows, retention!Id
<1>. QED BY <1>1, <1>15, <1>16

\* The second query of a clean-up: ranges from the oldest pool that is expired by
\* then to the newest that was expired before.
LEMMA ReadFirstSafe ==
  ASSUME PoolsSafe, NEW c \in Cleaner, retention!ReadFirst(c)
  PROVE  PoolsSafe'
<1>1. PICK k \in JobOf : k = cleaner[c] /\ k.at = "first"
  BY DEF PoolsSafe, PoolsTyped, retention!ReadFirst, retention!Idle
<1>2. /\ k.days \in Int /\ k.due \in SUBSET retention!Id /\ k.latest \in Nat
      /\ JobKnown(k, age, uploaded) /\ ~elastic
  BY <1>1 DEF JobOf, PoolsSafe, JobsKnown, retention!Idle
<1>3. PICK due : due = retention!Expired(k.days)
  OBVIOUS
<1>4. PICK lows : lows = IF due = {} THEN {} ELSE retention!Lows(retention!Min(due), k.latest)
  OBVIOUS
<1>5. PICK j : j = [at |-> "ranges", days |-> k.days, due |-> k.due, latest |-> k.latest, lows |-> lows]
  OBVIOUS
<1>6. cleaner' = [cleaner EXCEPT ![c] = j] /\ UNCHANGED <<elastic, age, uploaded, schedule>>
  BY <1>1, <1>3, <1>4, <1>5 DEF retention!ReadFirst
<1>7. lows \in SUBSET retention!Id /\ \A low \in lows : low < k.latest
  BY <1>4 DEF retention!Lows
<1>8. j \in JobOf
  BY <1>2, <1>5, <1>7 DEF JobOf
<1>9. /\ j.at = "ranges" /\ j.days = k.days /\ j.due = k.due /\ j.latest = k.latest /\ j.lows = lows
  BY <1>5
<1>10. ASSUME NEW i \in Left(j, age), i # j.latest
       PROVE  \E low \in lows : i \in low..(low + Batch - 1)
  <2>1. i \in Left(k, age) /\ i \in retention!Id /\ i # k.latest /\ i <= k.latest
    BY <1>1, <1>2, <1>9, <1>10 DEF Left, JobKnown
  <2>2. age[i] >= k.days /\ age[i] # None
    BY <1>2, <2>1 DEF JobKnown, Left
  <2>3. i \in due
    BY <1>3, <2>1, <2>2 DEF retention!Expired, retention!Rows
  <2>4. due \in SUBSET retention!Id /\ due \in SUBSET Nat
    BY <1>3 DEF retention!Expired, retention!Rows, retention!Id
  <2>5. retention!Min(due) \in retention!Id /\ retention!Min(due) <= i
    BY <2>3, <2>4, MinOf
  <2>6. i < k.latest
    BY <1>2, <2>1, <2>3, <2>4
  <2>7. lows = retention!Lows(retention!Min(due), k.latest)
    BY <1>4, <2>3
  <2>. QED BY <1>2, <2>1, <2>5, <2>6, <2>7, LowsReach
<1>11. JobKnown(j, age, uploaded)
  BY <1>2, <1>7, <1>9, <1>10 DEF JobKnown, Left
<1>12. cleaner' \in [Cleaner -> JobOf \cup {retention!Idle}] /\ schedule' \in Days \cup {None}
  BY <1>6, <1>8 DEF PoolsSafe, PoolsTyped
<1>13. \A d \in Cleaner : cleaner'[d] = IF d = c THEN j ELSE cleaner[d]
  BY <1>6 DEF PoolsSafe, PoolsTyped
<1>14. \A d \in Cleaner : \/ cleaner'[d] \in {cleaner[d], retention!Idle}
                          \/ JobKnown(cleaner'[d], age', uploaded') /\ (elastic <=> cleaner'[d].at = "chunk")
  BY <1>2, <1>6, <1>9, <1>11, <1>13
<1>. QED BY <1>6, <1>12, <1>14, SamePoolsStay

\* Pools go: what the other clean-ups have left to do is less.
LEMMA DeleteSafe ==
  ASSUME PoolsSafe, NEW c \in Cleaner, NEW S, retention!Delete(S), UNCHANGED <<elastic, uploaded, schedule>>,
         NEW k \in JobOf, cleaner' = [cleaner EXCEPT ![c] = k],
         JobKnown(k, age', uploaded), elastic <=> k.at = "chunk"
  PROVE  PoolsSafe'
<1>1. /\ age \in [retention!Id -> Nat \cup {None}] /\ uploaded \in 0..MaxPools
      /\ age' = [i \in retention!Id |-> IF i \in S THEN None ELSE age[i]]
  BY DEF PoolsSafe, PoolsTyped, retention!Delete
<1>2. age' \in [retention!Id -> Nat \cup {None}] /\ uploaded' \in 0..MaxPools /\ uploaded <= uploaded'
  BY <1>1, ManagementAssumption
<1>3. ASSUME NEW i \in retention!Id, age'[i] # None
      PROVE  i <= uploaded' /\ (i <= uploaded => age[i] # None /\ age'[i] >= age[i])
  <2>1. age'[i] = age[i] /\ age[i] \in Nat /\ i \in retention!Rows
    BY <1>1, <1>3 DEF retention!Rows
  <2>. QED BY <1>3, <2>1 DEF PoolsSafe, PoolsUploaded
<1>4. cleaner' \in [Cleaner -> JobOf \cup {retention!Idle}] /\ schedule' \in Days \cup {None}
  BY DEF PoolsSafe, PoolsTyped
<1>5. \A d \in Cleaner : cleaner'[d] = IF d = c THEN k ELSE cleaner[d]
  BY DEF PoolsSafe, PoolsTyped
<1>6. \A d \in Cleaner : \/ cleaner'[d] \in {cleaner[d], retention!Idle}
                         \/ JobKnown(cleaner'[d], age', uploaded') /\ (elastic <=> cleaner'[d].at = "chunk")
  BY <1>5
<1>. QED BY <1>2, <1>3, <1>4, <1>6, PoolsStay

\* A range is deleted: none of the pools due is in it any more.
LEMMA DeleteRangeSafe ==
  ASSUME PoolsSafe, NEW c \in Cleaner, retention!DeleteRange(c)
  PROVE  PoolsSafe'
<1>1. PICK k \in JobOf : k = cleaner[c] /\ k.at = "ranges"
  BY DEF PoolsSafe, PoolsTyped, retention!DeleteRange, retention!Idle
<1>2. /\ k.days \in Int /\ k.due \in SUBSET retention!Id /\ k.latest \in Nat /\ k.lows \in SUBSET retention!Id
      /\ JobKnown(k, age, uploaded) /\ ~elastic
  BY <1>1 DEF JobOf, PoolsSafe, JobsKnown, retention!Idle
<1>3. PICK low \in k.lows : /\ retention!Delete(low..(low + Batch - 1))
                            /\ cleaner' = [cleaner EXCEPT ![c].lows = @ \ {low}]
  BY <1>1 DEF retention!DeleteRange
<1>4. UNCHANGED <<elastic, uploaded, schedule>>
  BY DEF retention!DeleteRange
<1>5. PICK j : j = [k EXCEPT !.lows = @ \ {low}]
  OBVIOUS
<1>6. cleaner' = [cleaner EXCEPT ![c] = j]
  BY <1>1, <1>3, <1>5
<1>7. /\ j.at = "ranges" /\ j.days = k.days /\ j.due = k.due /\ j.latest = k.latest /\ j.lows = k.lows \ {low}
      /\ j \in JobOf
  BY <1>1, <1>2, <1>5 DEF JobOf
<1>8. /\ \A i \in retention!Id : age'[i] = IF i \in low..(low + Batch - 1) THEN None ELSE age[i]
  BY <1>3 DEF retention!Delete
<1>9. \A i \in Left(j, age') : i \in Left(k, age) /\ age'[i] = age[i] /\ i \notin low..(low + Batch - 1)
  BY <1>2, <1>7, <1>8 DEF Left
<1>10. JobKnown(j, age', uploaded)
  BY <1>1, <1>2, <1>7, <1>9 DEF JobKnown
<1>. QED BY <1>2, <1>3, <1>4, <1>6, <1>7, <1>10, DeleteSafe

\* The end of a chunk, and who is behind it.
LEMMA DeleteChunkSafe ==
  ASSUME PoolsSafe, NEW c \in Cleaner, retention!DeleteChunk(c)
  PROVE  PoolsSafe'
<1>1. PICK k \in JobOf : k = cleaner[c] /\ k.at = "chunk"
  BY DEF PoolsSafe, PoolsTyped, retention!DeleteChunk, retention!Idle
<1>2. /\ k.days \in Int /\ k.due \in SUBSET retention!Id /\ k.start \in Nat
      /\ JobKnown(k, age, uploaded) /\ elastic
  BY <1>1 DEF JobOf, PoolsSafe, JobsKnown, retention!Idle
<1> DEFINE left == {i \in retention!Expired(cleaner[c].days) : i > cleaner[c].start}
           end  == IF retention!Cardinality(left) < Batch THEN retention!Max(left)
                   ELSE retention!Min({i \in left : retention!Cardinality({j \in left : j <= i}) = Batch})
<1>3. left = {i \in retention!Expired(k.days) : i > k.start}
  BY <1>1
<1>4. end = IF Cardinality(left) < Batch THEN retention!Max(left)
            ELSE retention!Min({i \in left : Cardinality({j \in left : j <= i}) = Batch})
  BY SameCardinality
<1>5. /\ left # {} /\ retention!Delete({i \in left : i <= end})
      /\ cleaner' = [cleaner EXCEPT ![c].start = end] /\ UNCHANGED <<elastic, uploaded, schedule>>
  BY DEF retention!DeleteChunk
<1> HIDE DEF left, end
<1>6. left \in SUBSET retention!Id
  BY <1>3 DEF retention!Expired, retention!Rows
<1>7. \A i \in retention!Id : i \in Nat
  BY DEF retention!Id
<1>8. end \in Nat
  <2>1. CASE Cardinality(left) < Batch
    BY <1>4, <1>5, <1>6, <1>7, <2>1, MaxOf
  <2>2. CASE ~(Cardinality(left) < Batch)
    <3>1. PICK B \in Nat \ {0} : B = Batch
      BY ManagementAssumption
    <3>2. MaxPools \in Nat
      BY ManagementAssumption
    <3>3. IsFiniteSet(retention!Id)
      BY <3>2, FS_Interval DEF retention!Id
    <3>4. Cardinality(left) \in Nat
      BY <1>6, <3>3, FS_Subset, FS_CardinalityType
    <3>5. B <= Cardinality(left)
      BY <2>2, <3>1, <3>4
    <3>6. PICK T : T = {i \in left : Cardinality({j \in left : j <= i}) = Batch}
      OBVIOUS
    <3>7. T # {} /\ T \in SUBSET Nat
      BY <1>6, <1>7, <3>1, <3>5, <3>6, NthOf
    <3>. QED BY <1>4, <2>2, <3>6, <3>7, MinOf
  <2>. QED BY <2>1, <2>2
<1>9. PICK j : j = [k EXCEPT !.start = end]
  OBVIOUS
<1>10. cleaner' = [cleaner EXCEPT ![c] = j]
  BY <1>1, <1>5, <1>9
<1>11. /\ j.at = "chunk" /\ j.days = k.days /\ j.due = k.due /\ j.start = end
       /\ j \in JobOf
  BY <1>1, <1>2, <1>8, <1>9 DEF JobOf
<1>12. \A i \in retention!Id : age'[i] = IF i \in left /\ i <= end THEN None ELSE age[i]
  BY <1>5 DEF retention!Delete
<1>13. \A i \in Left(j, age') : i \in Left(k, age) /\ age'[i] = age[i] /\ ~(i \in left /\ i <= end)
  BY <1>2, <1>11, <1>12 DEF Left
<1>14. ASSUME NEW i \in Left(j, age')
       PROVE  end < i
  <2>1. i \in Left(k, age) /\ i \in retention!Id /\ i \in Nat
    BY <1>2, <1>7, <1>13 DEF Left
  <2>2. age[i] >= k.days /\ age[i] # None /\ k.start < i
    BY <1>1, <1>2, <2>1 DEF JobKnown, Left
  <2>3. i \in left
    BY <1>2, <1>3, <2>1, <2>2 DEF retention!Expired, retention!Rows
  <2>. QED BY <1>8, <1>13, <2>1, <2>3
<1>15. JobKnown(j, age', uploaded)
  BY <1>2, <1>11, <1>13, <1>14 DEF JobKnown
<1>. QED BY <1>2, <1>5, <1>10, <1>11, <1>15, DeleteSafe

\* Clean-ups that are done have left nothing but, without elastic search, the newest.
LEMMA DoneIsGone ==
  ASSUME PoolsSafe
  PROVE  retention!ExpiredAreGone
<1>1. SUFFICES ASSUME NEW c \in Cleaner, cleaner[c] # retention!Idle, retention!Done(c),
                      NEW i \in cleaner[c].due \cap retention!Rows
               PROVE  ~elastic /\ i = cleaner[c].latest
  BY DEF retention!ExpiredAreGone
<1>2. PICK k \in JobOf : k = cleaner[c]
  BY <1>1 DEF PoolsSafe, PoolsTyped
<1>3. JobKnown(k, age, uploaded) /\ (elastic <=> k.at = "chunk")
  BY <1>1, <1>2 DEF PoolsSafe, JobsKnown
<1>4. i \in Left(k, age) /\ i \in retention!Rows /\ i \in Nat /\ age[i] >= k.days
  BY <1>1, <1>2, <1>3 DEF Left, JobKnown, retention!Rows, retention!Id
<1>5. CASE k.at = "ranges" /\ k.lows = {}
  BY <1>2, <1>3, <1>4, <1>5 DEF JobKnown
<1>6. CASE k.at = "chunk" /\ \A x \in retention!Expired(k.days) : x <= k.start
  <2>1. k.start \in Nat
    BY <1>6 DEF JobOf
  <2>2. k.start < i
    BY <1>3, <1>4, <1>6 DEF JobKnown
  <2>3. i <= k.start
    BY <1>4, <1>6 DEF retention!Expired
  <2>. QED BY <1>4, <2>1, <2>2, <2>3
<1>. QED BY <1>1, <1>2, <1>5, <1>6 DEF retention!Done

\* Only expired pools are deleted, and without elastic search those less than a
\* batch behind one.
LEMMA FreshStay ==
  ASSUME PoolsSafe, retention!Next
  PROVE  retention!FreshDeletedNearExpired
<1>1. SUFFICES ASSUME NEW i \in retention!Rows, age'[i] = None
      PROVE  \E c \in Cleaner : /\ cleaner[c] # retention!Idle
                                /\ age[i] >= cleaner[c].days \/ (~elastic /\ i + 1 < cleaner[c].latest + Batch)
  BY DEF retention!FreshDeletedNearExpired
<1>2. /\ i \in retention!Id /\ age[i] # None /\ age[i] \in Nat /\ i \in Nat
      /\ age \in [retention!Id -> Nat \cup {None}] /\ None \notin Nat
  BY <1>1, ManagementAssumption DEF PoolsSafe, PoolsTyped, retention!Rows, retention!Id
<1>3. age'[i] # age[i]
  BY <1>1, <1>2
<1>4. ASSUME NEW c \in Cleaner, retention!DeleteRange(c)
      PROVE  cleaner[c] # retention!Idle /\ ~elastic /\ i + 1 < cleaner[c].latest + Batch
  <2>1. PICK k \in JobOf : k = cleaner[c] /\ k.at = "ranges"
    BY <1>4 DEF PoolsSafe, PoolsTyped, retention!DeleteRange, retention!Idle
  <2>2. k # retention!Idle /\ JobKnown(k, age, uploaded) /\ ~elastic /\ k.latest \in Nat /\ k.lows \in SUBSET retention!Id
    BY <2>1 DEF JobOf, PoolsSafe, JobsKnown, retention!Idle
  <2>3. PICK low \in k.lows : age' = [j \in retention!Id |-> IF j \in low..(low + Batch - 1) THEN None ELSE age[j]]
    BY <1>4, <2>1 DEF retention!DeleteRange, retention!Delete
  <2>4. low < k.latest /\ low \in Nat
    BY <2>1, <2>2 DEF JobKnown, retention!Id
  <2>5. i \in low..(low + Batch - 1)
    BY <1>2, <1>3, <2>3
  <2>6. PICK B \in Nat \ {0} : B = Batch
    BY ManagementAssumption
  <2>7. i + 1 < k.latest + B
    BY <1>2, <2>2, <2>4, <2>5, <2>6
  <2>. QED BY <2>1, <2>2, <2>6, <2>7
<1>5. ASSUME NEW c \in Cleaner, retention!DeleteChunk(c)
      PROVE  cleaner[c] # retention!Idle /\ age[i] >= cleaner[c].days
  <2>1. cleaner[c] # retention!Idle
    BY <1>5 DEF retention!DeleteChunk, retention!Idle
  <2>2. PICK S \in SUBSET retention!Expired(cleaner[c].days) : retention!Delete(S)
    BY <1>5 DEF retention!DeleteChunk
  <2>3. i \in S
    BY <1>2, <1>3, <2>2 DEF retention!Delete
  <2>. QED BY <2>1, <2>3 DEF retention!Expired
<1>6. ASSUME NEW delay \in {0, 1}, retention!Upload(delay) PROVE FALSE
  <2>1. age' = [age EXCEPT ![uploaded + 1] = delay]
    BY <1>6 DEF retention!Upload
  <2>. QED BY <1>1, <1>2, <1>3, <2>1
<1>7. ASSUME retention!Day PROVE FALSE
  <2>1. age[i] + 1 \in Nat
    BY <1>2
  <2>. QED BY <1>1, <1>2, <1>7, <2>1 DEF retention!Day
<1>8. ASSUME age' = age PROVE FALSE
  BY <1>3, <1>8
<1>9. ASSUME NEW c \in Cleaner, NEW days, retention!Begin(c, days) PROVE age' = age
  BY <1>9 DEF retention!Begin
<1>10. ASSUME NEW c \in Cleaner, retention!Beat(c) \/ retention!ReadFirst(c) \/ retention!Finish(c)
                                 \/ \E days \in Days : retention!DoItNow(c, days)
       PROVE  age' = age
  BY <1>9, <1>10 DEF retention!Beat, retention!ReadFirst, retention!Finish, retention!DoItNow
<1>11. ASSUME NEW days, retention!ChangeSchedule(days) PROVE age' = age
  BY <1>11 DEF retention!ChangeSchedule
<1>. QED BY <1>4, <1>5, <1>6, <1>7, <1>8, <1>10, <1>11 DEF retention!Next

\* Every step of the clean-ups and of what goes on beside them.
LEMMA PoolsStep ==
  ASSUME PoolsSafe, retention!Next
  PROVE  PoolsSafe'
<1>1. ASSUME NEW days \in Days \cup {None}, retention!ChangeSchedule(days) PROVE PoolsSafe'
  <2>1. schedule' = days /\ UNCHANGED <<elastic, age, uploaded, cleaner>>
    BY <1>1 DEF retention!ChangeSchedule
  <2>2. cleaner' \in [Cleaner -> JobOf \cup {retention!Idle}] /\ schedule' \in Days \cup {None}
    BY <2>1 DEF PoolsSafe, PoolsTyped
  <2>. QED BY <2>1, <2>2, SamePoolsStay
<1>2. ASSUME NEW c \in Cleaner, retention!Beat(c) PROVE PoolsSafe'
  <2>1. schedule \in Days /\ retention!Begin(c, schedule)
    BY <1>2 DEF retention!Beat, PoolsSafe, PoolsTyped
  <2>. QED BY <2>1, CleanUpBegins
<1>3. ASSUME NEW c \in Cleaner, NEW days \in Days, retention!DoItNow(c, days) PROVE PoolsSafe'
  BY <1>3, CleanUpBegins DEF retention!DoItNow
<1>4. ASSUME NEW c \in Cleaner, retention!Finish(c) PROVE PoolsSafe'
  <2>1. cleaner' = [cleaner EXCEPT ![c] = retention!Idle] /\ UNCHANGED <<elastic, age, uploaded, schedule>>
    BY <1>4 DEF retention!Finish
  <2>2. cleaner' \in [Cleaner -> JobOf \cup {retention!Idle}] /\ schedule' \in Days \cup {None}
    BY <2>1 DEF PoolsSafe, PoolsTyped
  <2>3. \A d \in Cleaner : cleaner'[d] \in {cleaner[d], retention!Idle}
    BY <2>1 DEF PoolsSafe, PoolsTyped
  <2>. QED BY <2>1, <2>2, <2>3, SamePoolsStay
<1>. QED BY <1>1, <1>2, <1>3, <1>4, PoolUploadSafe, PoolDaySafe, ReadFirstSafe, DeleteRangeSafe, DeleteChunkSafe
         DEF retention!Next

\* A clean-up leaves no pool that was expired when it began, but for the newest
\* without elastic search; others go only in the last batch (data_cleanup).
THEOREM CleanUpAlwaysExact == Spec => CleanUpExact
<1> DEFINE Safe == part = "pools" => PoolsSafe
<1>1. Init => Safe
  <2>1. SUFFICES ASSUME retention!Init PROVE PoolsSafe
    BY DEF Init
  <2>2. /\ elastic \in BOOLEAN /\ age = [i \in retention!Id |-> None] /\ uploaded = 0
        /\ schedule \in Days /\ cleaner = [c \in Cleaner |-> retention!Idle]
    BY <2>1 DEF retention!Init
  <2>3. PoolsTyped
    BY <2>2, ManagementAssumption DEF PoolsTyped
  <2>. QED BY <2>2, <2>3 DEF PoolsSafe, PoolsUploaded, JobsKnown, retention!Rows
<1>2. ASSUME PoolsSafe, UNCHANGED poolVars PROVE PoolsSafe'
  <2>1. UNCHANGED <<elastic, age, uploaded, schedule, cleaner>>
    BY <1>2 DEF poolVars
  <2>2. cleaner' \in [Cleaner -> JobOf \cup {retention!Idle}] /\ schedule' \in Days \cup {None}
    BY <1>2, <2>1 DEF PoolsSafe, PoolsTyped
  <2>. QED BY <1>2, <2>1, <2>2, SamePoolsStay
<1>3. Safe /\ [Next]_vars => Safe'
  BY <1>2, PoolsStep DEF Next, vars
<1>4. Safe /\ Safe' /\ [Next]_vars => [part = "pools" => retention!CleanUpStep]_vars
  <2>1. SUFFICES ASSUME Safe, Safe', Next, part = "pools"
        PROVE  retention!ExpiredAreGone' /\ retention!FreshDeletedNearExpired
    BY DEF retention!CleanUpStep
  <2>2. PoolsSafe /\ retention!Next /\ part' = part
    BY <2>1 DEF Next
  <2>3. PoolsSafe'
    BY <2>1, <2>2
  <2>4. PoolsSafe' => retention!ExpiredAreGone'
    BY DoneIsGone, PTL
  <2>. QED BY <2>2, <2>3, <2>4, FreshStay
<1>5. CleanUpExact <=> [][part = "pools" => retention!CleanUpStep]_vars
  BY DEF CleanUpExact
<1>. QED BY <1>1, <1>3, <1>4, <1>5, PTL DEF Spec
================================================================================
