----------------------------- MODULE MCSession -----------------------------
(* Small instances of Session for TLC.  Prompts are interchangeable, and   *)
(* so are the runs pi starts on its own: no action tells two of them apart.*)
EXTENDS Session, TLC

Symmetry == Permutations(Turns) \cup Permutations(AgentRuns)

=============================================================================
