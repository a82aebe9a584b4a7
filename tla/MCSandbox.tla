------------------------------ MODULE MCSandbox ------------------------------
(* A small instance of Sandbox: the calls are interchangeable.             *)
EXTENDS Sandbox, TLC

CallSymmetry == Permutations(Calls)
=============================================================================
