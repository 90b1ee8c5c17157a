-------------------------- MODULE MCAgentRegistry --------------------------
(* Small instances of AgentRegistry for TLC.  Requests of one kind are     *)
(* interchangeable: no action tells two of them apart.                     *)
EXTENDS AgentRegistry, TLC

Symmetry ==
  Permutations(News) \cup Permutations(Restores)
    \cup Permutations(Closes) \cup Permutations(Deletes)

=============================================================================
