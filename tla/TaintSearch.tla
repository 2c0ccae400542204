------------------------------ MODULE TaintSearch ------------------------------
(***************************************************************************)
(* VulEngine.search: the flows from a source to the sink of a strategy in   *)
(* one method pool.  Calls are numbered by invokeId.  A call takes the      *)
(* hashes of the objects it was given and gives those of the objects it     *)
(* changed; what one call gives and another takes is an edge.               *)
(***************************************************************************)
EXTENDS Naturals, FiniteSets, Sequences, SequencesExt

CONSTANTS Hash,
          Calls,   \* calls a pool may hold
          MaxCalls \* bound: calls in a pool

VARIABLES pool,     \* the calls recorded so far
          searched, \* whether the pool was searched
          reported  \* stacks the search reports: sequences of invokeIds

vars == <<pool, searched, reported>>

Id == 1..MaxCalls
(* host: the call has no sourceType, one without a host, or the hash of its
   host.  ranges: the call has no targetRange, only empty ones, or others.    *)
Call == [source: BOOLEAN, sink: BOOLEAN, takes: SUBSET Hash, gives: SUBSET Hash,
         host: {"untyped", "none"} \cup Hash, ranges: {"absent", "empty", "tainted"}]

Init == pool = << >> /\ searched = FALSE /\ reported = << >>

--------------------------------------------------------------------------------
(* The graph.                                                                 *)

(* Of a typed call only the host is tainted.  An edge may lead back in time:
   the invokeId is its weight, not its direction.                             *)
Edge(i, j) ==
  IF pool[j].host = "untyped" THEN pool[i].gives \cap pool[j].takes # {}
                              ELSE pool[j].host \in pool[i].gives

\* Simple routes through calls of the pool.
Routes == UNION {{q \in [1..k -> Id] : IsInjective(q)} : k \in Id}

Square(i, j) == IF i < j THEN (j - i) * (j - i) ELSE (i - j) * (i - j)
Weight(q) ==
  LET sum[k \in 1..Len(q)] == IF k = 1 THEN 0 ELSE sum[k - 1] + Square(q[k - 1], q[k])
  IN  sum[Len(q)]

RoutesFrom(s, t) ==
  {q \in Routes : /\ q[1] = s /\ q[Len(q)] = t
                  /\ \A i \in 1..(Len(q) - 1) : {q[i], q[i + 1]} \subseteq DOMAIN pool /\ Edge(q[i], q[i + 1])
                  /\ \E i \in DOMAIN pool : Edge(s, i) \/ Edge(i, s)}

Shortest(s, t) ==
  LET all == RoutesFrom(s, t)
  IN  {q \in all : \A p \in all : Weight(q) <= Weight(p)}

(* A route is dropped when the call before the sink left nothing tainted.     *)
Dropped(q) == Len(q) > 1 /\ pool[q[Len(q) - 1]].ranges = "empty"

--------------------------------------------------------------------------------
(* The stacks.                                                                *)

\* The elements of S one after the other.
Ordered(S, Before(_, _)) ==
  CHOOSE q \in [1..Cardinality(S) -> S] : \A i, j \in DOMAIN q : i < j => Before(q[i], q[j])

Sorted(S) == Ordered(S, LAMBDA i, j : i < j)
Tail1(q) == ToSet(Tail(q))

\* Routes that share a call behind their sources and end at one sink.
SameFlow(p, q) == Tail1(p) \cap Tail1(q) # {} /\ Last(p) = Last(q)

\* Mutant: of the routes that are merged the first is kept.
Merge_First(stacks, q) ==
  IF \E i \in DOMAIN stacks : SameFlow(stacks[i], q) THEN stacks ELSE Append(stacks, q)

(* The route joins the first stack it shares a call with, in the order of the
   invokeIds, or becomes a stack.                                             *)
Merge(stacks, q) ==
  LET same == {i \in DOMAIN stacks : SameFlow(stacks[i], q)}
      first == CHOOSE i \in same : \A j \in same : i <= j
  IN  IF same = {} THEN Append(stacks, q)
      ELSE [stacks EXCEPT ![first] = Sorted(ToSet(@) \cup ToSet(Front(q)))]

Sources == {i \in DOMAIN pool : pool[i].source}
Sinks   == {i \in DOMAIN pool : pool[i].sink}

(* product(source_methods, vul_methods), the pool in descending order, of which
   those count that a route joins.                                            *)
Pairs == {p \in Sources \X Sinks : RoutesFrom(p[1], p[2]) # {}}
InOrder == Ordered(Pairs, LAMBDA p, q : p[1] > q[1] \/ (p[1] = q[1] /\ p[2] > q[2]))

\* Of every pair networkx returns some shortest path.
Selections == {choice \in [Pairs -> UNION {Shortest(p[1], p[2]) : p \in Pairs}] :
              \A p \in Pairs : choice[p] \in Shortest(p[1], p[2])}

Stacks(choice) ==
  LET order == InOrder
      done[k \in 0..Len(order)] ==
        IF k = 0 THEN << >>
        ELSE IF Dropped(choice[order[k]]) THEN done[k - 1]
        ELSE Merge(done[k - 1], choice[order[k]])
  IN  done[Len(order)]

Record(c) ==
  /\ ~searched /\ Len(pool) < MaxCalls
  /\ pool' = Append(pool, c)
  /\ UNCHANGED <<searched, reported>>

Search ==
  /\ ~searched /\ pool # << >>
  /\ searched' = TRUE
  /\ \E choice \in Selections : reported' = Stacks(choice)
  /\ UNCHANGED pool

Next == Search \/ \E c \in Calls : Record(c)

Spec == Init /\ [][Next]_vars

--------------------------------------------------------------------------------
(* VulEngineV2.create_graph: the graph a user is shown has all edges that lead
   forward, the hosts of typed calls left aside.                              *)
Shown(i, j) == i < j /\ pool[i].gives \cap pool[j].takes # {}

(* What a source taints, by definition: the least set that has the source and
   every call that one of its calls leads to.                                 *)
Taints(s) == {x \in DOMAIN pool : \A S \in SUBSET DOMAIN pool :
  s \in S /\ (\A i \in S, j \in DOMAIN pool : Edge(i, j) => j \in S) => x \in S}

Forward == \A i, j \in DOMAIN pool : Edge(i, j) => i < j

(* Every source that taints the sink is in a stack that has both, whatever
   routes are merged with whatever others; only when some call before the sink
   left nothing tainted the pair may be missing.                              *)
FlowsReported ==
  searched => \A s \in Sources, t \in Sinks :
    t \in Taints(s) \ {s} /\ (\A i \in DOMAIN pool : Edge(i, t) => pool[i].ranges # "empty")
      => \E i \in DOMAIN reported : {s, t} \subseteq ToSet(reported[i])

(* A stack ends at the sink, and each of its calls is tainted by a source of
   the stack and taints its sink, also after merging: if every edge leads
   forward in time.                                                           *)
StacksAreFlows ==
  Forward => \A i \in DOMAIN reported :
    LET stack == reported[i]
    IN  /\ Last(stack) \in Sinks
        /\ \A x \in ToSet(stack) : /\ Last(stack) \in Taints(x)
                                   /\ \E s \in ToSet(stack) \cap Sources : x \in Taints(s)

(* The steps of a stack that was not merged are edges of the graph users see,
   if they lead forward and no call is typed.                                 *)
StepsShown ==
  Forward /\ Cardinality(Sources) = 1 /\ (\A i \in DOMAIN pool : pool[i].host = "untyped")
    => \A i \in DOMAIN reported : \A k \in 1..(Len(reported[i]) - 1) : Shown(reported[i][k], reported[i][k + 1])

\* What is promised of the stacks together.
StacksReported == FlowsReported /\ StacksAreFlows /\ StepsShown
================================================================================
