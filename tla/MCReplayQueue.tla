----------------------------- MODULE MCReplayQueue -----------------------------
(* Instances of ReplayQueue for TLC; MCReports has one more. *)
EXTENDS ReplayQueue, TLC

CONSTANTS v1, v2

\* Payloads per strategy: one, two for v1 and none for v2, one for each, one and none.
OnePayload  == (v1 :> 1)
TwoAndNone  == (v1 :> 2 @@ v2 :> 0)
BothPayload == (v1 :> 1 @@ v2 :> 1)
NoPayload   == (v1 :> 1 @@ v2 :> 0)

\* What a replay may hit.
AnyAnswer    == SUBSET Hit
OwnOrNothing == {{}, {"own"}}
================================================================================
