-------------------------- MODULE MCAgentService --------------------------
(* Small instances of AgentService for TLC. *)
EXTENDS AgentService, TLC

=============================================================================
