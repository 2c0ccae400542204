----------------------------- MODULE MCAgentStatus -----------------------------
(* One agent: no statement of this code relates the rows of two agents. *)
EXTENDS AgentStatus
================================================================================
