--------------------------- MODULE MCAgentSession ---------------------------
(* AgentSession with interchangeable HTTP requests. *)
EXTENDS AgentSession, TLC

RequestSymmetry == Permutations(Requests)

=============================================================================
