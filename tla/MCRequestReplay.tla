---------------------------- MODULE MCRequestReplay ----------------------------
(***************************************************************************)
(* Two users share the rows of two pools.  The agent a1 recorded the pools *)
(* and is alive, a2 of the same project is not: a replay through a2 falls  *)
(* back to a1.                                                             *)
(***************************************************************************)
EXTENDS RequestReplay

CONSTANTS a1

FirstAlive  == {{a1}}
OneRecorder == [p \in Pool |-> a1]
================================================================================
