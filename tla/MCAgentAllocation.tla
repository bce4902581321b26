------------------------- MODULE MCAgentAllocation -------------------------
(* A small instance of AgentAllocation. *)
EXTENDS AgentAllocation, TLC

Symmetry == Permutations(Agents) \cup Permutations(OrderIds) \cup Permutations(Handlers)
=============================================================================
