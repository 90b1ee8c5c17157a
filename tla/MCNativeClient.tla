--------------------------- MODULE MCNativeClient ---------------------------
(* NativeClient for TLC.                                                   *)
EXTENDS NativeClient

CONSTANTS c1, a1, stats

=============================================================================
