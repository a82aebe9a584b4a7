------------------------- MODULE InterruptPathProofs -------------------------
(***************************************************************************)
(* Theorems about InterruptPath for every set of interrupt numbers and any *)
(* number of events.                                                       *)
(***************************************************************************)
EXTENDS InterruptPath, WellFoundedInduction, TLAPS

(* A non-empty set of naturals has a least element.                        *)
LEMMA LeastElement ==
  ASSUME NEW S \in SUBSET Nat, S # {}
  PROVE  \E s \in S : \A t \in S : s <= t
<1>1. PICK s \in S : \A t \in S : <<t, s>> \notin OpToRel(<, Nat)
  BY NatLessThanWellFounded, WFMin
<1>2. \A t \in S : ~ (t < s)
  BY <1>1 DEF OpToRel
<1> QED BY <1>2

(* A claim that finds something returns one of the sources that wait.      *)
LEMMA ClaimedIsClaimable ==
  ASSUME pending \subseteq Sources, Claimable # {}
  PROVE  ClaimedIrq \in Claimable /\ ClaimedIrq # 0
<1>1. Claimable \in SUBSET Nat /\ 0 \notin Claimable
  <2>1. \A s \in Sources : s \in Nat /\ s # 0
    BY SourcesAssumption
  <2> QED BY <2>1 DEF Claimable
<1>2. \E s \in Claimable : \A t \in Claimable : s <= t
  BY <1>1, LeastElement
<1> QED BY <1>1, <1>2 DEF ClaimedIrq

-----------------------------------------------------------------------------
(* The inductive invariant: types, the PLIC's view of mip and of the       *)
(* lines, and where the guest's handler stands.                            *)

LineIsStatus == \A d \in Sources : status[d] <=> d \in pending

HandlerState ==
  /\ sie => gpc = "main"
  /\ gpc \in {"isr", "reap", "complete"} => cur \in Sources

PathInv == /\ TypeOK /\ MipIsCurrent /\ LineIsStatus
           /\ HandlerState /\ ServedIsCurrent /\ NoLostWork

LEMMA PathInit == Init => PathInv
<1> SUFFICES ASSUME Init PROVE PathInv
  OBVIOUS
<1>1. TypeOK
  BY DEF Init, PlicInit, TypeOK, GuestPC
<1>2. MipIsCurrent
  BY DEF Init, PlicInit, MipIsCurrent, Claimable
<1>3. LineIsStatus /\ NoLostWork
  BY DEF Init, PlicInit, LineIsStatus, NoLostWork
<1>4. HandlerState /\ ServedIsCurrent
  BY DEF Init, PlicInit, HandlerState, ServedIsCurrent
<1> QED BY <1>1, <1>2, <1>3, <1>4 DEF PathInv

(* mip is recomputed by every operation of the PLIC.                       *)
LEMMA MipUpdated == UpdateMip => (MipIsCurrent' /\ mip' \in BOOLEAN)
BY DEF UpdateMip, MipIsCurrent, Claimable

(* A device producing a used entry keeps the invariant.                    *)
LEMMA UsedEntryStep ==
  ASSUME PathInv, NEW d \in Sources, UsedEntry(d),
         UNCHANGED <<sie, powerDown, phase, gpc, cur>>
  PROVE  PathInv'
<1>1. MipIsCurrent' /\ mip' \in BOOLEAN
  BY MipUpdated DEF UsedEntry, SetIrqLevel
<1>2. pending' = pending \cup {d} /\ served' = served
  BY DEF UsedEntry, SetIrqLevel
<1>3. /\ work' \in [Sources -> Nat] /\ events' \in [Sources -> Nat]
      /\ status' \in [Sources -> BOOLEAN]
      /\ \A e \in Sources \ {d} : work'[e] = work[e] /\ status'[e] = status[e]
      /\ status'[d] = TRUE
  BY DEF UsedEntry, PathInv, TypeOK
<1>4. TypeOK'
  BY <1>1, <1>2, <1>3 DEF PathInv, TypeOK
<1>5. LineIsStatus' /\ NoLostWork'
  BY <1>2, <1>3 DEF PathInv, LineIsStatus, NoLostWork
<1>6. HandlerState' /\ ServedIsCurrent'
  BY <1>2 DEF PathInv, HandlerState, ServedIsCurrent
<1> QED BY <1>1, <1>4, <1>5, <1>6 DEF PathInv

(* A step that touches neither the PLIC nor a device, and moves the guest  *)
(* only between main and claim.                                            *)
LEMMA QuietStep ==
  ASSUME PathInv, UNCHANGED <<plicVars, devVars, cur>>,
         phase' \in {"poll", "run"}, powerDown' \in BOOLEAN, sie' \in BOOLEAN,
         \/ gpc' = gpc /\ (sie' => gpc = "main")
         \/ gpc = "main" /\ gpc' = "claim" /\ sie' = FALSE
  PROVE  PathInv'
BY DEF PathInv, TypeOK, MipIsCurrent, LineIsStatus, HandlerState, GuestPC,
       ServedIsCurrent, NoLostWork, Claimable, plicVars, devVars

LEMMA ClaimStep ==
  ASSUME PathInv, GuestClaim
  PROVE  PathInv'
<1>1. MipIsCurrent' /\ mip' \in BOOLEAN
  BY MipUpdated DEF GuestClaim, Claim
<1>2. /\ gpc = "claim" /\ served = {} /\ UNCHANGED <<pending, devVars>>
      /\ cur' = ClaimedIrq /\ UNCHANGED <<phase, powerDown>>
  BY DEF GuestClaim, Executing, Claim, PathInv, ServedIsCurrent
<1>3. CASE Claimable = {}
  <2>1. cur' = 0 /\ gpc' = "main" /\ sie' = TRUE /\ served' = {}
    BY <1>2, <1>3 DEF GuestClaim, Claim, ClaimedIrq
  <2> QED BY <1>1, <1>2, <2>1
          DEF PathInv, TypeOK, LineIsStatus, HandlerState, GuestPC,
              ServedIsCurrent, NoLostWork, devVars
<1>4. CASE Claimable # {}
  <2>1. ClaimedIrq \in Sources /\ ClaimedIrq # 0
    BY <1>4, ClaimedIsClaimable DEF PathInv, TypeOK, Claimable
  <2>2. gpc' = "isr" /\ sie' = sie /\ served' = {ClaimedIrq}
    BY <1>2, <1>4, <2>1 DEF GuestClaim, Claim
  <2> QED BY <1>1, <1>2, <2>1, <2>2
          DEF PathInv, TypeOK, LineIsStatus, HandlerState, GuestPC,
              ServedIsCurrent, NoLostWork, devVars
<1> QED BY <1>3, <1>4

LEMMA AckStep ==
  ASSUME PathInv, GuestAck
  PROVE  PathInv'
<1>1. gpc = "isr" /\ cur \in Sources /\ UNCHANGED <<cpuVars, cur>>
  BY DEF GuestAck, Executing, PathInv, HandlerState
<1>2. CASE status[cur] /\ InterruptAck(cur) /\ gpc' = "reap"
  <2>1. MipIsCurrent' /\ mip' \in BOOLEAN
    BY <1>2, MipUpdated DEF InterruptAck, SetIrqLevel
  <2>2. /\ pending' = pending \ {cur} /\ UNCHANGED <<served, work, events>>
        /\ status' = [status EXCEPT ![cur] = FALSE]
    BY <1>2 DEF InterruptAck, SetIrqLevel
  <2> QED BY <1>1, <1>2, <2>1, <2>2
          DEF PathInv, TypeOK, LineIsStatus, HandlerState, GuestPC,
              ServedIsCurrent, NoLostWork, cpuVars
<1>3. CASE ~status[cur] /\ gpc' = "complete" /\ UNCHANGED <<plicVars, devVars>>
  BY <1>1, <1>3
  DEF PathInv, TypeOK, MipIsCurrent, Claimable, LineIsStatus, HandlerState,
      GuestPC, ServedIsCurrent, NoLostWork, cpuVars, plicVars, devVars
<1> QED BY <1>2, <1>3 DEF GuestAck

LEMMA ReapStep ==
  ASSUME PathInv, GuestReap
  PROVE  PathInv'
<1>1. /\ gpc = "reap" /\ cur \in Sources
      /\ UNCHANGED <<plicVars, events, status, cpuVars, cur>>
  BY DEF GuestReap, Executing, PathInv, HandlerState
<1>2. CASE work[cur] > 0 /\ work' = [work EXCEPT ![cur] = @ - 1] /\ gpc' = gpc
  <2>1. /\ work' \in [Sources -> Nat]
        /\ \A e \in Sources \ {cur} : work'[e] = work[e]
    BY <1>1, <1>2 DEF PathInv, TypeOK
  <2> QED BY <1>1, <1>2, <2>1
          DEF PathInv, TypeOK, MipIsCurrent, Claimable, LineIsStatus,
              HandlerState, ServedIsCurrent, NoLostWork, cpuVars, plicVars
<1>3. CASE work[cur] = 0 /\ gpc' = "complete" /\ UNCHANGED work
  BY <1>1, <1>3
  DEF PathInv, TypeOK, MipIsCurrent, Claimable, LineIsStatus, HandlerState,
      GuestPC, ServedIsCurrent, NoLostWork, cpuVars, plicVars
<1> QED BY <1>2, <1>3 DEF GuestReap

LEMMA CompleteStep ==
  ASSUME PathInv, GuestComplete
  PROVE  PathInv'
<1>1. MipIsCurrent' /\ mip' \in BOOLEAN
  BY MipUpdated DEF GuestComplete, Complete
<1>2. /\ gpc = "complete" /\ gpc' = "claim" /\ served = {cur} /\ served' = {}
      /\ UNCHANGED <<pending, devVars, cpuVars, cur>>
  BY DEF GuestComplete, Executing, Complete, PathInv, ServedIsCurrent
<1> QED BY <1>1, <1>2
        DEF PathInv, TypeOK, LineIsStatus, HandlerState, GuestPC,
            ServedIsCurrent, NoLostWork, cpuVars, devVars

LEMMA PathStep == PathInv /\ [Next]_vars => PathInv'
<1> SUFFICES ASSUME PathInv, [Next]_vars PROVE PathInv'
  OBVIOUS
<1>0. mip \in BOOLEAN /\ (sie => gpc = "main")
  BY DEF PathInv, TypeOK, HandlerState
<1>1. ASSUME NEW d \in Sources, PollInput(d) \/ Notify(d) PROVE PathInv'
  BY <1>1, UsedEntryStep DEF PollInput, Notify, cpuVars
<1>2. CASE EnterCpu
  BY <1>2, <1>0, QuietStep DEF EnterCpu, PathInv, TypeOK
<1>3. CASE LeaveCpu
  BY <1>3, <1>0, QuietStep DEF LeaveCpu, PathInv, TypeOK
<1>4. CASE TakeInterrupt
  BY <1>4, <1>0, QuietStep DEF TakeInterrupt, PathInv, TypeOK
<1>5. CASE Wfi
  BY <1>5, <1>0, QuietStep DEF Wfi, PathInv, TypeOK
<1>6. CASE Unmask \/ Mask
  BY <1>6, <1>0, QuietStep DEF Unmask, Mask, Executing, PathInv, TypeOK
<1>7. CASE Handler
  BY <1>7, ClaimStep, AckStep, ReapStep, CompleteStep DEF Handler
<1>8. CASE UNCHANGED vars
  BY <1>8, <1>0, QuietStep DEF vars, cpuVars, PathInv, TypeOK
<1> QED
  BY <1>1, <1>2, <1>3, <1>4, <1>5, <1>6, <1>7, <1>8 DEF Next

(* No used entry is lost between a device and its driver, mip is never     *)
(* stale, and a claim is never left in service, for any number of devices. *)
THEOREM PathSafe ==
  Spec => [](TypeOK /\ MipIsCurrent /\ NoLostWork /\ ServedIsCurrent)
<1>1. PathInv => TypeOK /\ MipIsCurrent /\ NoLostWork /\ ServedIsCurrent
  BY DEF PathInv
<1> QED BY <1>1, PathInit, PathStep, PTL DEF Spec

(* mip shows an external interrupt exactly while one can be claimed,       *)
(* whatever devices, machine loop and handler do to the PLIC (plic.dart).  *)
THEOREM MipNeverStale == Spec => []MipIsCurrent
<1>1. PathInv => MipIsCurrent
  BY DEF PathInv
<1> QED BY <1>1, PathInit, PathStep, PTL DEF Spec
=============================================================================
