------------------------------- MODULE PoolSearch -------------------------------
(***************************************************************************)
(* Method pools as users read them, page by page, while agents upload and   *)
(* the clean-up deletes: MethodPoolSearchProxy, newest first, with the ids  *)
(* already read excluded, and MethodPoolDetailProxy, by ascending id from a *)
(* cursor.                                                                  *)
(***************************************************************************)
EXTENDS Naturals, FiniteSetsExt

CONSTANTS User, Agent,
          AgentsOf,  \* agents of the projects a user may see
          PageSize,
          Block,     \* rows the detail page reads at once: five pages
          MaxPools,  \* bound: pools uploaded
          MaxTime,   \* bound: seconds
          None

VARIABLES pools,    \* rows of iast_agent_method_pool
          given,    \* ids given
          now,
          client    \* what a user reads

vars == <<pools, given, now, client>>

Id == 1..MaxPools
Stored == {i \in Id : pools[i] # None}
NoClient == [kind |-> "none"]

Init == pools = [i \in Id |-> None] /\ given = 0 /\ now = 1 /\ client = NoClient

\* get_auth_agents_with_user
Own(u) == {i \in Stored : pools[i].agent \in AgentsOf[u]}

--------------------------------------------------------------------------------
(* save_method_call takes the time before it inserts the row.                 *)
Upload(a, hit, time) ==
  /\ time >= 1
  /\ given < MaxPools /\ given' = given + 1
  /\ pools' = [pools EXCEPT ![given'] = [agent |-> a, hit |-> hit, time |-> time]]
  /\ UNCHANGED <<now, client>>

Delete(i) ==
  /\ i \in Stored
  /\ pools' = [pools EXCEPT ![i] = None]
  /\ UNCHANGED <<given, now, client>>

Tick == now < MaxTime /\ now' = now + 1 /\ UNCHANGED <<pools, given, client>>

--------------------------------------------------------------------------------
(* MethodPoolSearchProxy.                                                     *)

(* The conditions: one of the fields contains the words (mode 1), none does
   (mode 2), or no condition (any other mode).                                *)
Meets(i, mode) == CASE mode = 1 -> pools[i].hit [] mode = 2 -> ~pools[i].hit [] OTHER -> TRUE

InRange(u, mode, to) == {i \in Own(u) : Meets(i, mode) /\ pools[i].time <= to}

\* Mutant: the time of the last row read replaces the ids.
Found_ByTime(c) == {i \in InRange(c.user, c.mode, c.to) : pools[i].time < c.after}

(* search_after is part of the query only when neither mode replaces it.      *)
Found(c) ==
  {i \in InRange(c.user, c.mode, c.to) \ c.seen : c.mode \notin {1, 2} => pools[i].time <= c.after}

\* order_by("-update_time")[:page_size]: rows of one second in any order.
Pages(S) == {T \in SUBSET S : /\ Cardinality(T) = (IF Cardinality(S) < PageSize THEN Cardinality(S) ELSE PageSize)
                              /\ \A i \in T, j \in S \ T : pools[i].time >= pools[j].time}

StartSearch(u, mode) ==
  /\ client' = [kind |-> "search", user |-> u, mode |-> mode, to |-> now, after |-> MaxTime + 1,
                seen |-> {}, page |-> {}, due |-> InRange(u, mode, now), end |-> FALSE]
  /\ UNCHANGED <<pools, given, now>>

SearchPools ==
  /\ client.kind = "search" /\ ~client.end
  /\ \E T \in Pages(Found(client)) :
       client' = [client EXCEPT !.page = T, !.seen = @ \cup T, !.end = Cardinality(T) < PageSize,
                                !.after = IF T = {} THEN @ ELSE Min({pools[i].time : i \in T})]
  /\ UNCHANGED <<pools, given, now>>

\* MethodGraph.get of a pool: it is asked for among the user's agents.
Graph(u, i) == i \in Own(u)

\* MethodPoolTimeRangeProxy: "eariest", by descending time.
TimeRange(u) == IF Own(u) = {} THEN None ELSE Max({pools[i].time : i \in Own(u)})

--------------------------------------------------------------------------------
(* MethodPoolDetailProxy: a search for sources, propagators and sinks.        *)

StartDetail(u, sinks) ==
  /\ client' = [kind |-> "detail", user |-> u, sinks |-> sinks, latest |-> 0, page |-> {}, end |-> FALSE]
  /\ UNCHANGED <<pools, given, now>>

After(c) == {i \in Own(c.user) : i > c.latest}
Place(c, i) == Cardinality({j \in After(c) : j <= i})

\* A slice [index * size : (index + 1) * size - 1] leaves out its last row.
Read(c) == {i \in After(c) : Place(c, i) % Block # 0}

\* get_match_methods: the first page_size rows that match.
Matches(c) ==
  LET hits == {i \in Read(c) : pools[i].hit}
  IN  {i \in hits : Cardinality({j \in hits : j <= i}) <= PageSize}

(* No match has no last id, and a search with sinks takes four of the five
   values of the engine's result: both are answered "Acquisition fail".       *)
DetailPools ==
  /\ client.kind = "detail" /\ ~client.end
  /\ client' = IF Matches(client) = {} \/ client.sinks
               THEN [client EXCEPT !.page = {}, !.end = TRUE]
               ELSE [client EXCEPT !.page = Matches(client), !.latest = Max(Matches(client))]
  /\ UNCHANGED <<pools, given, now>>

Next ==
  \/ \E a \in Agent, hit \in BOOLEAN, t \in {now - 1, now} : Upload(a, hit, t)
  \/ \E i \in Id : Delete(i)
  \/ Tick
  \/ \E u \in User : (\E mode \in 1..3 : StartSearch(u, mode)) \/ (\E sinks \in BOOLEAN : StartDetail(u, sinks))
  \/ SearchPools
  \/ DetailPools

Spec == Init /\ [][Next]_vars

--------------------------------------------------------------------------------
(* A reader who excludes what was read has, at the first short page, every
   pool of the time range that was there at the start and still is.           *)
SearchFindsAll == client.kind = "search" /\ client.end => client.due \cap Stored \subseteq client.seen

(* Pages of a search do not repeat a pool, and show pools whose graph the user
   may open, whatever is uploaded and deleted between them.                   *)
SearchStep ==
  client.kind = "search" /\ client'.kind = "search" /\ client'.seen # {} =>
    client'.page \cap client.seen = {} \/ client' = client

(* Pages of the detail search ascend, and of any Block pools in a row they
   pass over at most one.                                                     *)
DetailStep ==
  client.kind = "detail" /\ client'.kind = "detail" /\ client'.latest # 0 /\ client'.latest # client.latest =>
    LET passed == {i \in Own(client.user) : /\ client.latest < i /\ i < client'.latest
                                            /\ pools[i].hit /\ i \notin client'.page}
    IN  /\ \A i \in client'.page : client.latest < i /\ pools[i].hit /\ Graph(client.user, i)
        /\ \A i, j \in passed : i < j => Cardinality({k \in Own(client.user) : i < k /\ k <= j}) >= Block

(* What the two searches promise in each step of a sequence of pages.         *)
PagesStep == SearchFindsAll' /\ SearchStep /\ DetailStep
================================================================================
