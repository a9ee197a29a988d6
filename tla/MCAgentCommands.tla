-------------------------- MODULE MCAgentCommands --------------------------
(***************************************************************************)
(* AgentCommands for TLC: the synchronous requesters are interchangeable.  *)
(***************************************************************************)
EXTENDS AgentCommands, TLC

Requesters == Permutations(SyncTasks)

=============================================================================
