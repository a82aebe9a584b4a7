---------------------------- MODULE MCVirtioQueue ----------------------------
(* Small instances of VirtioQueue.  The bound on posted buffers keeps the  *)
(* 16-bit ring indices from wrapping except where a run is about that.     *)
EXTENDS VirtioQueue
=============================================================================
