--------------------------- MODULE MCAgentSession ---------------------------
(* The session with two callers, checked by TLC. *)
EXTENDS AgentSession, TLC

Symmetry == Permutations(Msgs)
=============================================================================
