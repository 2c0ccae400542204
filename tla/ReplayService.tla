----------------------------- MODULE ReplayService -----------------------------
(***************************************************************************)
(* What the manual replay promises, without rows, heartbeats and uploads:  *)
(* a request is asked of a method pool, answers to asked requests arrive   *)
(* and are dropped again, and a user is shown an answer that is kept for   *)
(* the pool the user asked about, or none.                                 *)
(***************************************************************************)
CONSTANTS User, Pool, Request, NoRequest

VARIABLES asked,  \* requests asked of each pool
          kept,   \* requests of each pool whose answer is kept
          topic,  \* the pool each user last asked about
          view    \* the request whose answer each user is shown, or NoRequest

Init ==
  /\ asked = [p \in Pool |-> {}]
  /\ kept = [p \in Pool |-> {}]
  /\ topic \in [User -> Pool]
  /\ view = [u \in User |-> NoRequest]

Ask(u, p, q) ==
  /\ topic' = [topic EXCEPT ![u] = p]
  /\ asked' = [asked EXCEPT ![p] = @ \cup {q}]
  /\ view' = [view EXCEPT ![u] = NoRequest]
  /\ UNCHANGED kept

Answer(p, q) ==
  /\ q \in asked[p]
  /\ kept' = [kept EXCEPT ![p] = @ \cup {q}]
  /\ UNCHANGED <<asked, topic, view>>

Drop(p) ==
  /\ \E K \in SUBSET kept[p] : kept' = [kept EXCEPT ![p] = K]
  /\ UNCHANGED <<asked, topic, view>>

Show(u) ==
  /\ \E q \in kept[topic[u]] \cup {NoRequest} : view' = [view EXCEPT ![u] = q]
  /\ UNCHANGED <<asked, kept, topic>>

Next ==
  \/ \E u \in User, p \in Pool, q \in Request : Ask(u, p, q)
  \/ \E p \in Pool : Drop(p) \/ \E q \in Request : Answer(p, q)
  \/ \E u \in User : Show(u)

Spec == Init /\ [][Next]_<<asked, kept, topic, view>>
================================================================================
