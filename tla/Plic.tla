-------------------------------- MODULE Plic --------------------------------
(***************************************************************************)
(* The interrupt controller (lib/src/machine/plic.dart): level-triggered   *)
(* sources, one context, and the external-interrupt bits of mip.  The code *)
(* keeps both sets as 32-bit masks and sets MEIP and SEIP together, so one *)
(* boolean stands for the pair.                                            *)
(***************************************************************************)
EXTENDS Integers

CONSTANT Sources    \* interrupt numbers in use; 0 means "none" on a claim

ASSUME SourcesAssumption == Sources \subseteq 1 .. 31

VARIABLES pending,  \* _pendingIrq: sources whose line is high
          served,   \* _servedIrq: claimed and not yet completed
          mip       \* MEIP | SEIP as the CPU sees them

plicVars == <<pending, served, mip>>

PlicInit == pending = {} /\ served = {} /\ mip = FALSE

Claimable == pending \ served

(* Mutant of ClaimedIrq: the interrupt's bit number taken for its number   *)
(* plus one.                                                               *)
ClaimedIrq_OffByOne ==
  IF Claimable = {} THEN 0
  ELSE 1 + (CHOOSE s \in Claimable : \A t \in Claimable : s <= t)

(* ctz32 of the mask: the lowest number wins.                              *)
ClaimedIrq ==
  IF Claimable = {} THEN 0
  ELSE CHOOSE s \in Claimable : \A t \in Claimable : s <= t

(* _updateMip, at the end of every operation below.                        *)
UpdateMip == mip' = (pending' \ served' # {})

(* Mutant of SetIrqLevel: a source being served does not become pending.   *)
SetIrqLevel_MaskServed(s, level) ==
  /\ pending' = IF level THEN pending \cup ({s} \ served) ELSE pending \ {s}
  /\ UNCHANGED served
  /\ UpdateMip

SetIrqLevel(s, level) ==
  /\ pending' = IF level THEN pending \cup {s} ELSE pending \ {s}
  /\ UNCHANGED served
  /\ UpdateMip

(* Mutant of Claim: the source is not marked as being served.              *)
Claim_NoServe == UNCHANGED <<served, pending>> /\ UpdateMip

(* Load of the claim register; nothing changes when it returns 0.          *)
Claim == /\ served' = served \cup (IF Claimable = {} THEN {} ELSE {ClaimedIrq})
         /\ UNCHANGED pending
         /\ UpdateMip

(* Mutant of Complete: mip left as the claim made it.                      *)
Complete_KeepsMip(value) == served' = served \ {value} /\ UNCHANGED <<pending, mip>>

(* Store to the complete register.                                         *)
Complete(value) ==
  /\ served' = served \ {value}
  /\ UNCHANGED pending
  /\ UpdateMip
=============================================================================
