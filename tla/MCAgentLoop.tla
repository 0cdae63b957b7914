---------------------------- MODULE MCAgentLoop ----------------------------
(* Model values and symmetry for the runs of AgentLoop. *)
EXTENDS AgentLoop

\* Messages are only ever compared for equality and picked by \E.
Symmetry == Permutations(Messages)
=============================================================================
