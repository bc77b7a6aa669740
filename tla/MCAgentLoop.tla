----------------------------- MODULE MCAgentLoop -----------------------------
(* AgentLoop on small instances. *)
EXTENDS AgentLoop
=============================================================================
