--------------------------- MODULE MCAgentDispatch ---------------------------
(* Threads for model checking AgentDispatch.                               *)
EXTENDS AgentDispatch, TLC

Symmetry == Permutations(Users)
=============================================================================
