----------------------------- MODULE MCCodeCache -----------------------------
(* Small instances of CodeCache, with TLBs and a decode cache small enough *)
(* for pages to collide in them.                                           *)
EXTENDS CodeCache, TLC

InsnSymmetry == Permutations(Insns)
=============================================================================
