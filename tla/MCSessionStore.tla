-------------------------- MODULE MCSessionStore --------------------------
(* Small instances of SessionStore for TLC.                                *)
EXTENDS SessionStore, TLC

Symmetry == Permutations(Contents)

=============================================================================
