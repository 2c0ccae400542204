------------------------------ MODULE ResultCache ------------------------------
(***************************************************************************)
(* cached_decorator: one cached function of the database (get_agent,       *)
(* get_scan_id, load_sink_strategy) for one tuple of arguments.  Processes *)
(* look the result up, compute it when there is none, and store it for a    *)
(* random time; disable_cache deletes it, function_flush computes it anew.  *)
(***************************************************************************)
EXTENDS Naturals, FiniteSets

CONSTANTS
  Process,  \* web requests and workers that call the function
  Value,    \* what the function may return, None among them
  NoKey,    \* the answer of the cache when it has no such key
  CacheTime, \* random_range
  Slow,     \* bound: how long a call may take
  MaxTime   \* bound

VARIABLES
  now,
  table,  \* what the function would return now
  past,   \* what it would have returned, at each time
  entry,  \* the cache: the result and the time it is dropped
  call,   \* step of a process, the result it computed, since when it runs
  flushes, \* queued function_flush tasks, at most one counts
  answer  \* what the last call of a process returned, and when

vars == <<now, table, past, entry, call, flushes, answer>>

NoEntry == [value |-> NoKey, until |-> 0]
Idle    == [step |-> "idle", value |-> NoKey, since |-> 0]

Init ==
  /\ now = 0 /\ table \in Value
  /\ past = [t \in 0..MaxTime |-> IF t = 0 THEN {table} ELSE {}]
  /\ entry = NoEntry /\ flushes = FALSE
  /\ call = [p \in Process |-> Idle]
  /\ answer = [value |-> NoKey, at |-> 0]

\* Any request or worker that writes the rows the function reads.
Write(v) ==
  /\ v # table
  /\ table' = v
  /\ past' = [past EXCEPT ![now] = @ \cup {v}]
  /\ UNCHANGED <<now, entry, call, flushes, answer>>

(* Time passes; a call under way ends within Slow, the cache drops its entry
   in time.                                                                   *)
Tick ==
  /\ now < MaxTime
  /\ \A p \in Process : call[p] # Idle => now < call[p].since + Slow
  /\ now' = now + 1
  /\ past' = [past EXCEPT ![now + 1] = {table}]
  /\ entry' = IF entry.until <= now + 1 THEN NoEntry ELSE entry
  /\ UNCHANGED <<table, call, flushes, answer>>

Answer(v) == answer' = [value |-> v, at |-> now]

(* get_cache_or_call; a function decorated with use_celery_update queues
   function_flush as well.                                                    *)
GetCacheOrCall(p, useCeleryUpdate) ==
  /\ call[p] = Idle
  /\ flushes' = (flushes \/ useCeleryUpdate)
  /\ IF entry # NoEntry
       THEN Answer(entry.value) /\ UNCHANGED call
       ELSE call' = [call EXCEPT ![p] = [Idle EXCEPT !.step = "call", !.since = now]] /\ UNCHANGED answer
  /\ UNCHANGED <<now, table, past, entry>>

\* function_flush: the result is computed whether or not there is an entry.
FunctionFlush(p) ==
  /\ call[p] = Idle /\ flushes
  /\ flushes' = FALSE
  /\ call' = [call EXCEPT ![p] = [Idle EXCEPT !.step = "flush", !.since = now]]
  /\ UNCHANGED <<now, table, past, entry, answer>>

Compute(p) ==
  /\ call[p].step \in {"call", "flush"} /\ call[p].value = NoKey
  /\ call' = [call EXCEPT ![p].value = table]
  /\ UNCHANGED <<now, table, past, entry, flushes, answer>>

\* Mutant: an entry is kept until it is deleted.
CacheSet_NoTimeout(p, t) ==
  /\ call[p].value # NoKey
  /\ entry' = [value |-> call[p].value, until |-> MaxTime + 1]
  /\ IF call[p].step = "call" THEN Answer(call[p].value) ELSE UNCHANGED answer
  /\ call' = [call EXCEPT ![p] = Idle]
  /\ UNCHANGED <<now, table, past, flushes>>

(* cache.set, also when the key was deleted meanwhile, and whatever another
   process stored.                                                            *)
CacheSet(p, t) ==
  /\ call[p].value # NoKey
  /\ entry' = [value |-> call[p].value, until |-> now + t]
  /\ IF call[p].step = "call" THEN Answer(call[p].value) ELSE UNCHANGED answer
  /\ call' = [call EXCEPT ![p] = Idle]
  /\ UNCHANGED <<now, table, past, flushes>>

(* disable_cache.  Only one of its two callers names the key that is cached;
   the other one deletes a key nobody stores.                                 *)
DisableCache ==
  /\ entry # NoEntry
  /\ entry' = NoEntry
  /\ UNCHANGED <<now, table, past, call, flushes, answer>>

Next ==
  \/ Tick \/ DisableCache
  \/ \E v \in Value : Write(v)
  \/ \E p \in Process :
       \/ \E use \in BOOLEAN : GetCacheOrCall(p, use)
       \/ FunctionFlush(p) \/ Compute(p)
       \/ \E t \in CacheTime : CacheSet(p, t)

Spec == Init /\ [][Next]_vars

--------------------------------------------------------------------------------
LongestTime == CHOOSE n \in CacheTime : \A m \in CacheTime : m <= n

(* What a call returns was true within the longest time of the cache and the
   time one call takes: a result that is stored after an invalidation, an
   invalidation of the wrong key, or two processes that store in turns do not
   make an answer older, for an entry is never stored again from itself.      *)
AnswersAreRecent ==
  answer.value # NoKey =>
    \E t \in 0..answer.at :
      /\ answer.at <= t + LongestTime + Slow
      /\ answer.value \in past[t]
================================================================================
