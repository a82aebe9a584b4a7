---------------------------- MODULE RequestQueue ----------------------------
(***************************************************************************)
(* What one virtqueue promises to the guest: buffers handed to the device  *)
(* come back in the order they were handed over, each at most once, and a  *)
(* buffer disappears without an answer only when its chain is one the      *)
(* device refuses.  No rings, no indices, no interrupts: those are how     *)
(* VirtioQueue keeps this promise.                                         *)
(***************************************************************************)
EXTENDS Sequences

CONSTANT Buffer     \* what the guest submits, with .kind "whole" or "runt"

VARIABLES pending,  \* submitted, not yet looked at by the device
          done      \* answered, not yet taken back by the guest

vars == <<pending, done>>

Init == pending = <<>> /\ done = <<>>

Submit(b) == pending' = Append(pending, b) /\ UNCHANGED done

Answer == /\ pending # <<>>
          /\ done' = Append(done, Head(pending))
          /\ pending' = Tail(pending)

Refuse == /\ pending # <<>>
          /\ Head(pending).kind = "runt"
          /\ pending' = Tail(pending)
          /\ UNCHANGED done

Take == /\ done # <<>>
        /\ done' = Tail(done)
        /\ UNCHANGED pending

Reset == pending' = <<>> /\ done' = <<>>

Next == \/ \E b \in Buffer : Submit(b)
        \/ Answer \/ Refuse \/ Take \/ Reset

Spec == Init /\ [][Next]_vars
=============================================================================
