--------------------------- MODULE MCInterruptPath ---------------------------
(* Two devices with adjacent interrupt numbers, a few used entries each.   *)
EXTENDS InterruptPath
=============================================================================
