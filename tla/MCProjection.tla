---------------------------- MODULE MCProjection ----------------------------
(* Small instances of Projection for TLC.  Calls are interchangeable, and  *)
(* so are the images that decode.                                          *)
EXTENDS Projection, TLC

Symmetry == Permutations(Tools) \cup Permutations(Images \ (Refused \cup Fatal))

=============================================================================
