----------------------------- MODULE TrapProofs -----------------------------
(***************************************************************************)
(* Proofs about Trap, for every MaxLevel and Features.  Of a machine       *)
(* booted with the emulator's own SBI (~firmware): nothing runs in machine *)
(* mode, and the trap registers survive while they are the only copy of a  *)
(* context.  Of either boot: the firmware's trap registers survive, and    *)
(* every return resumes what was interrupted.                              *)
(*                                                                         *)
(* TrapRegistersIntact is not inductive: that the registers are intact at  *)
(* "exit" depends on the frame the kernel saved, that the frame is still   *)
(* the interrupted context depends on every nested handler having come     *)
(* back, and that no handler nests into "entry" or "exit" depends on the   *)
(* interrupt enable being off there.  Nest says all of this at once.       *)
(***************************************************************************)
EXTENDS Trap, WellFoundedInduction, TLAPS

Nest ==
  /\ pc.at \in {"user", "entry", "body", "exit"}
  /\ pc.at = "user" <=> pc.level = 0
  /\ priv = IF pc.at = "user" THEN U ELSE S
  /\ pc.level <= MaxLevel
  /\ pc.at = "body" /\ ie[S] => pc.level < MaxLevel
  /\ pc.at \in {"entry", "exit"} => ~ie[S]

(* What each level interrupted: the user program, or the body of the       *)
(* handler one level below.                                                *)
Stack ==
  \A l \in 1 .. pc.level :
    /\ interrupted[l].priv = IF l = 1 THEN U ELSE S
    /\ interrupted[l].pc = At(IF l = 1 THEN "user" ELSE "body", l - 1)

(* Handlers in their body hold it in their frame.                          *)
Frames ==
  \A l \in 1 .. pc.level :
    l < pc.level \/ pc.at = "body" => frame[l] = interrupted[l]

IInv == TypeOK /\ Nest /\ Stack /\ Frames /\ TrapRegistersIntact

(* The interrupt taken is one of those pending.                            *)
LEMMA PendingIsReady ==
  ASSUME TypeOK, HasPendingInterrupt
  PROVE  PendingInterrupt \in 0 .. 15
<1>1. Ready # {} /\ Ready \subseteq 0 .. 15
  BY DEF HasPendingInterrupt, Ready, TypeOK
<1>2. \E i \in Ready : \A j \in Ready : i <= j
  <2>1. Ready \subseteq Nat
    BY <1>1
  <2>2. PICK i \in Ready : \A j \in Ready : <<j, i>> \notin OpToRel(<, Nat)
    BY <1>1, <2>1, NatLessThanWellFounded, WFMin
  <2>3. \A j \in Ready : ~(j < i)
    BY <2>1, <2>2 DEF OpToRel
  <2> QED BY <2>1, <2>3
<1> QED BY <1>1, <1>2 DEF PendingInterrupt

(* With everything delegated an interrupt is due only to a user program or *)
(* to a supervisor that has unmasked interrupts.                           *)
LEMMA DueOnlyUnmasked ==
  ASSUME ~firmware, IInv, HasPendingInterrupt
  PROVE  pc.at = "user" \/ (pc.at = "body" /\ ie[S])
<1>1. Ready \subseteq mideleg
  BY DEF IInv, TypeOK, Ready, mideleg
<1>2. priv \in {U, S} /\ ~(priv < M /\ Ready \ mideleg # {}) /\ priv # M
  BY <1>1 DEF IInv, Nest, U, S, M
<1>3. priv < S \/ (priv = S /\ ie[S])
  BY <1>1, <1>2 DEF HasPendingInterrupt
<1> QED
  BY <1>3 DEF IInv, Nest, U, S

(* A trap from there, or from a handler's body, lands in supervisor mode   *)
(* one level up and keeps the invariant.                                   *)
LEMMA TrapKeepsIInv ==
  ASSUME ~firmware, IInv,
         NEW why \in [interrupt : BOOLEAN, code : 0 .. 15],
         pc.at \in {"user", "body"}, pc.level < MaxLevel,
         RaiseException(why),
         UNCHANGED irqVars
  PROVE  IInv'
<1> USE DEF U, S, M
<1>1. TrapTo(S, "entry", why)
  BY DEF RaiseException, mideleg, medeleg, IInv, Nest
<1>2. MaxLevel \in Nat /\ pc.level \in 0 .. MaxLevel /\ pc \in Locations
  BY TrapAssumption DEF IInv, TypeOK, Nest, Locations
<1>3. pc' = At("entry", pc.level + 1) /\ pc'.at = "entry" /\ pc'.level = pc.level + 1
      /\ pc.level + 1 \in Levels
  BY <1>1, <1>2 DEF TrapTo, At, Levels
<1>4. Context(priv, pc, ie[priv]) \in Contexts
  BY <1>2 DEF IInv, TypeOK, Contexts, Context
<1>5. TypeOK'
  <2>1. pc' \in Locations
    BY <1>2, <1>3 DEF Locations, At, Stages
  <2>2. interrupted' \in [Levels -> Contexts] /\ frame' \in [Levels -> Contexts]
    BY <1>1, <1>3, <1>4 DEF TrapTo, IInv, TypeOK
  <2>3. ie' \in [{U, S, M} -> BOOLEAN] /\ pie' \in [{S, M} -> BOOLEAN]
        /\ pp' \in [{S, M} -> {U, S, M}] /\ epc' \in [{S, M} -> Locations]
        /\ cause' \in [{S, M} -> [interrupt : BOOLEAN, code : 0 .. 15]]
    BY <1>1 DEF TrapTo, IInv, TypeOK
  <2> QED
    BY <1>1, <2>1, <2>2, <2>3 DEF TrapTo, IInv, TypeOK, irqVars
<1>6. Nest'
  BY <1>1, <1>2, <1>3 DEF TrapTo, IInv, TypeOK, Nest
<1>7. interrupted'[pc.level + 1] = Context(priv, pc, ie[priv])
      /\ \A l \in 1 .. pc.level : interrupted'[l] = interrupted[l] /\ frame'[l] = frame[l]
  BY <1>1, <1>2, <1>3 DEF TrapTo, IInv, TypeOK, Levels
<1>8. Stack'
  <2> SUFFICES ASSUME NEW l \in 1 .. pc.level + 1
               PROVE  /\ interrupted'[l].priv = IF l = 1 THEN U ELSE S
                      /\ interrupted'[l].pc = At(IF l = 1 THEN "user" ELSE "body", l - 1)
    BY <1>3 DEF Stack
  <2>1. CASE l = pc.level + 1
    <3>1. pc = At(pc.at, pc.level)
      BY <1>2 DEF At, Locations
    <3>2. interrupted'[l].priv = priv /\ interrupted'[l].pc = pc
      BY <1>7, <2>1 DEF Context
    <3>3. l = 1 <=> pc.at = "user"
      BY <1>2, <2>1 DEF IInv, Nest
    <3> QED
      BY <1>2, <2>1, <3>1, <3>2, <3>3 DEF IInv, Nest
  <2>2. CASE l \in 1 .. pc.level
    BY <1>7, <2>2 DEF IInv, Stack
  <2> QED
    BY <1>2, <2>1, <2>2
<1>9. Frames'
  BY <1>2, <1>3, <1>7 DEF IInv, Frames, Nest
<1>10. TrapRegistersIntact'
  BY <1>1, <1>3, <1>7 DEF TrapTo, TrapRegistersIntact, Context, IInv, TypeOK
<1> QED
  BY <1>1, <1>3, <1>5, <1>6, <1>8, <1>9, <1>10 DEF IInv, TrapTo

LEMMA InitIInv ==
  ASSUME ~firmware, Init
  PROVE  IInv
<1> USE DEF U, S, M
<1>1. 1 \in Levels /\ MaxLevel \in Nat \ {0}
  BY TrapAssumption DEF Levels
<1>2. Nowhere \in Contexts /\ Context(U, At("user", 0), TRUE) \in Contexts
      /\ At("exit", 1) \in Locations /\ At("user", 0) \in Locations
  BY <1>1 DEF Nowhere, Context, Contexts, At, Locations, Stages
<1>3. TypeOK
  <2>1. Exception(0) \in [interrupt : BOOLEAN, code : 0 .. 15]
    BY DEF Exception
  <2>2. mip \subseteq 0 .. 15 /\ mie \subseteq 0 .. 15
    BY DEF Init, SSI, STI, SEI, MTI
  <2> QED
    BY <1>2, <2>1, <2>2 DEF Init, TypeOK
<1>4. Nest /\ Stack /\ Frames /\ TrapRegistersIntact
  <2>1. pc.at = "exit" /\ pc.level = 1 /\ priv = S /\ ~ie[S]
    BY DEF Init, At
  <2>2. interrupted[1] = Context(U, At("user", 0), TRUE)
    BY <1>1 DEF Init
  <2>3. interrupted[1].priv = U /\ interrupted[1].pc = At("user", 0)
    BY <2>2 DEF Context
  <2>4. pie[S] = TRUE
    <3>1. pie[S] = (S = S)
      BY DEF Init
    <3> QED
      BY <3>1
  <2>5. pp[S] = U /\ epc[S] = At("user", 0)
    BY DEF Init
  <2>6. Nest
    BY <1>1, <2>1 DEF Nest
  <2>7. Stack
    BY <2>1, <2>3 DEF Stack
  <2>8. Frames
    BY <2>1 DEF Frames
  <2>9. TrapRegistersIntact
    BY <2>1, <2>2, <2>4, <2>5 DEF TrapRegistersIntact
  <2> QED
    BY <2>6, <2>7, <2>8, <2>9
<1> QED
  BY <1>3, <1>4 DEF IInv

(* The kernel's steps, other than its traps, keep the invariant.           *)
LEMMA SaveKeepsIInv ==
  ASSUME ~firmware, IInv, Save
  PROVE  IInv'
<1> USE DEF U, S, M
<1>1. MaxLevel \in Nat /\ pc.level \in 1 .. MaxLevel /\ pc.level \in Levels
  BY TrapAssumption DEF IInv, TypeOK, Nest, Locations, Save, Executing, Levels
<1>2. pc' = At("body", pc.level) /\ pc'.at = "body" /\ pc'.level = pc.level
  BY DEF Save, At
<1>3. Context(pp[S], epc[S], pie[S]) = interrupted[pc.level]
      /\ interrupted[pc.level] \in Contexts
  BY <1>1 DEF IInv, TypeOK, TrapRegistersIntact, Save, Executing
<1>4. TypeOK'
  BY <1>1, <1>2, <1>3
     DEF IInv, TypeOK, Save, Locations, Stages, At, csrVars, irqVars
<1>5. ~ie[S] /\ UNCHANGED <<priv, ie, interrupted>>
  BY DEF Save, Executing, IInv, Nest, csrVars
<1>6. Nest' /\ Stack' /\ TrapRegistersIntact'
  BY <1>1, <1>2, <1>5
     DEF IInv, Nest, Stack, TrapRegistersIntact, Save, Executing
<1>7. Frames'
  BY <1>1, <1>2, <1>3, <1>5 DEF IInv, Frames, Save, TypeOK, Executing
<1> QED
  BY <1>2, <1>4, <1>5, <1>6, <1>7 DEF IInv

LEMMA RestoreKeepsIInv ==
  ASSUME ~firmware, IInv, Restore
  PROVE  IInv'
<1> USE DEF U, S, M
<1>1. MaxLevel \in Nat /\ pc.level \in 1 .. MaxLevel /\ pc.level \in Levels
  BY TrapAssumption DEF IInv, TypeOK, Nest, Locations, Restore, Executing, Levels
<1>2. pc' = At("exit", pc.level) /\ pc'.at = "exit" /\ pc'.level = pc.level
  BY DEF Restore, At
<1>3. frame[pc.level] = interrupted[pc.level] /\ frame[pc.level] \in Contexts
      /\ Nowhere \in Contexts
  BY <1>1 DEF IInv, TypeOK, Frames, Restore, Executing, Nowhere, Contexts,
              Context, At, Locations, Stages
<1>4. TypeOK'
  BY <1>1, <1>2, <1>3
     DEF IInv, TypeOK, Restore, Locations, Stages, At, irqVars, Contexts
<1>5. ~ie[S] /\ UNCHANGED <<priv, ie, interrupted>>
  BY DEF Restore
<1>6. Nest' /\ Stack'
  BY <1>1, <1>2, <1>5 DEF IInv, Nest, Stack, Restore, Executing
<1>7. Frames'
  BY <1>1, <1>2, <1>5 DEF IInv, Frames, Restore, TypeOK, Executing
<1>8. TrapRegistersIntact'
  BY <1>1, <1>2, <1>3, <1>5
     DEF IInv, TypeOK, TrapRegistersIntact, Restore, Context, Contexts
<1> QED
  BY <1>2, <1>4, <1>5, <1>6, <1>7, <1>8 DEF IInv

(* sret puts back the interrupted privilege, place and enable.             *)
LEMMA SretKeepsIInv ==
  ASSUME ~firmware, IInv, Sret
  PROVE  IInv'
<1> USE DEF U, S, M
<1>1. MaxLevel \in Nat /\ pc.level \in 1 .. MaxLevel /\ pc.level \in Levels
  BY TrapAssumption DEF IInv, TypeOK, Nest, Locations, Sret, Executing, Levels
<1>2. Context(pp[S], epc[S], pie[S]) = interrupted[pc.level]
  BY DEF IInv, TrapRegistersIntact, Sret, Executing
<1>3. pp[S] = interrupted[pc.level].priv /\ epc[S] = interrupted[pc.level].pc
      /\ pie[S] = interrupted[pc.level].ie
  BY <1>2 DEF Context
<1>4. /\ pp[S] = IF pc.level = 1 THEN U ELSE S
      /\ epc[S] = At(IF pc.level = 1 THEN "user" ELSE "body", pc.level - 1)
  BY <1>1, <1>3 DEF IInv, Stack
<1>5. /\ priv' = pp[S] /\ pc' = epc[S]
      /\ ie' = [ie EXCEPT ![pp[S]] = pie[S]]
      /\ interrupted' = [interrupted EXCEPT ![pc.level] = Nowhere]
      /\ frame' = frame
  BY DEF Sret, XRet
<1>6. pc'.level = pc.level - 1 /\ pc'.at = IF pc.level = 1 THEN "user" ELSE "body"
  BY <1>4, <1>5 DEF At
<1>7. TypeOK'
  <2>1. Nowhere \in Contexts
    BY <1>1 DEF Nowhere, Contexts, Context, At, Locations, Stages
  <2>2. ie' \in [{U, S, M} -> BOOLEAN] /\ priv' \in {U, S, M} /\ pc' \in Locations
    BY <1>5 DEF IInv, TypeOK
  <2>3. pie' \in [{S, M} -> BOOLEAN] /\ pp' \in [{S, M} -> {U, S, M}]
        /\ epc' \in [{S, M} -> Locations]
        /\ cause' \in [{S, M} -> [interrupt : BOOLEAN, code : 0 .. 15]]
    BY DEF Sret, XRet, IInv, TypeOK
  <2> QED
    BY <1>5, <2>1, <2>2, <2>3 DEF IInv, TypeOK, Sret, irqVars
<1>8. Nest'
  BY <1>1, <1>4, <1>5, <1>6 DEF IInv, Nest
<1>9. Stack' /\ Frames'
  BY <1>1, <1>5, <1>6 DEF IInv, Stack, Frames, TypeOK
<1>10. TrapRegistersIntact'
  BY <1>6 DEF TrapRegistersIntact
<1> QED
  BY <1>7, <1>8, <1>9, <1>10 DEF IInv

(* Steps that move no control: interrupt sources, the enable bit in a      *)
(* handler's body, an SBI call served in place.                            *)
LEMMA QuietKeepsIInv ==
  ASSUME ~firmware, IInv,
         TimerFires \/ External \/ ClearSsi \/ SbiCall
         \/ (\E b \in BOOLEAN : SetSie(b)) \/ UNCHANGED vars
  PROVE  IInv'
<1> USE DEF U, S, M
<1>1. CASE \E b \in BOOLEAN : SetSie(b)
  <2>1. PICK b \in BOOLEAN : SetSie(b)
    BY <1>1
  <2>2. TypeOK' /\ ie'[S] = b /\ pc.at = "body" /\ (b => pc.level < MaxLevel)
        /\ UNCHANGED <<priv, pc, frame, interrupted, pp, epc, pie>>
    BY <2>1 DEF SetSie, Executing, IInv, TypeOK, irqVars, memVars
  <2> QED
    BY <2>2 DEF IInv, Nest, Stack, Frames, TrapRegistersIntact
<1>2. CASE TimerFires \/ External \/ ClearSsi \/ SbiCall \/ UNCHANGED vars
  <2>1. UNCHANGED <<priv, pc, csrVars, memVars>>
    BY <1>2 DEF TimerFires, External, ClearSsi, SbiCall, vars
  <2>2. mie' = mie /\ mip' \subseteq mip \cup {5, 7, 9}
    BY <1>2 DEF TimerFires, External, ClearSsi, SbiCall, vars, irqVars,
                STI, MTI, SEI, SSI
  <2> QED
    BY <2>1, <2>2 DEF IInv, TypeOK, Nest, Stack, Frames, TrapRegistersIntact,
                      csrVars, memVars
<1> QED
  BY <1>1, <1>2

(* What was loaded at boot stays loaded.                                   *)
LEMMA FirmwareStays == ASSUME [Next]_vars PROVE firmware' = firmware
BY DEF Next, vars, Kernel, TakeInterrupt, TimerFires, External, UserTrap, UserIllegal,
       Save, SetSie, KernelFault, ClearSsi, Restore, Sret, SbiCall, FirmwareStep,
       FwTimer, FwCall, FwRedirect, FwRedirectRet, Mret, RaiseException, TrapTo, XRet

(* Every step keeps the invariant.                                         *)
LEMMA StepKeepsIInv ==
  ASSUME ~firmware, IInv, [Next]_vars
  PROVE  IInv'
<1> USE DEF U, S, M
<1>1. pc.level \in Nat /\ MaxLevel \in Nat \ {0}
  BY TrapAssumption DEF IInv, TypeOK, Locations
<1>2. CASE TakeInterrupt
  <2>1. pc.at \in {"user", "body"} /\ pc.level < MaxLevel
    BY <1>1, <1>2, DueOnlyUnmasked DEF TakeInterrupt, IInv, Nest
  <2>2. PendingInterrupt \in 0 .. 15
    BY <1>2, PendingIsReady DEF TakeInterrupt, IInv
  <2>3. Interrupt(PendingInterrupt) \in [interrupt : BOOLEAN, code : 0 .. 15]
    BY <2>2 DEF Interrupt
  <2> QED
    BY <1>1, <1>2, <2>1, <2>3, TrapKeepsIInv DEF TakeInterrupt
<1>3. CASE UserTrap \/ KernelFault \/ UserIllegal
  <2>1. pc.at \in {"user", "body"} /\ pc.level < MaxLevel
    BY <1>1, <1>3 DEF UserTrap, KernelFault, UserIllegal, Executing, IInv, Nest
  <2>2. PICK code \in 0 .. 15 : RaiseException(Exception(code))
    BY <1>3 DEF UserTrap, KernelFault, UserIllegal, UserEcall, LoadPageFault, IllegalInsn
  <2>3. Exception(code) \in [interrupt : BOOLEAN, code : 0 .. 15]
    BY DEF Exception
  <2> QED
    BY <1>1, <1>3, <2>1, <2>2, <2>3, TrapKeepsIInv
       DEF UserTrap, KernelFault, UserIllegal
<1>4. CASE Save
  BY <1>1, <1>4, SaveKeepsIInv
<1>5. CASE Restore
  BY <1>1, <1>5, RestoreKeepsIInv
<1>6. CASE Sret
  BY <1>1, <1>6, SretKeepsIInv
<1>7. CASE TimerFires \/ External \/ ClearSsi \/ SbiCall
           \/ (\E b \in BOOLEAN : SetSie(b)) \/ UNCHANGED vars
  BY <1>1, <1>7, QuietKeepsIInv
<1>8. ~FirmwareStep
  BY DEF FirmwareStep, FwTimer, FwCall, FwRedirect, FwRedirectRet, Executing,
         IInv, Nest
<1> QED
  BY <1>2, <1>3, <1>4, <1>5, <1>6, <1>7, <1>8 DEF Next, Kernel

(* So in a machine booted directly the invariant holds for ever.           *)
Direct == firmware \/ IInv

LEMMA DirectSafe == Spec => []Direct
<1>1. Init => Direct
  BY InitIInv DEF Direct
<1>2. Direct /\ [Next]_vars => Direct'
  BY StepKeepsIInv, FirmwareStays DEF Direct
<1> QED BY <1>1, <1>2, PTL DEF Spec

(* A kernel booted directly never finds itself in machine mode: every trap *)
(* it takes is delegated to it (_bootKernelDirectly).                      *)
THEOREM DirectBootSupervisor == Spec => []NeverMachine
<1>1. Direct => NeverMachine
  BY DEF Direct, IInv, Nest, NeverMachine, U, S, M
<1> QED BY <1>1, DirectSafe, PTL

(* Its trap registers are never overwritten while they hold the only copy  *)
(* of an interrupted context, and its handlers start and end with          *)
(* interrupts masked.                                                      *)
THEOREM DirectBootSafe == Spec => [](TrapRegistersIntact /\ EntryMasked)
<1>1. Direct => TrapRegistersIntact /\ EntryMasked
  BY DEF Direct, IInv, Nest, TrapRegistersIntact, EntryMasked
<1> QED BY <1>1, DirectSafe, PTL

----------------------------------------------------------------------------
(* Either boot.  With firmware below it a supervisor that has masked its   *)
(* interrupts is interrupted all the same (handlePendingInterrupt looks at *)
(* neither mstatus nor mideleg), so that its trap registers may be         *)
(* overwritten; a return to a lower level is still exact.  Whatever a      *)
(* level holds as its way back is either the context it interrupted or a   *)
(* place of its own level, where an overwritten handler goes round for     *)
(* ever without ever returning (Held).                                     *)

Place(l) ==
  /\ l \in Locations /\ l.at \in {"user", "entry", "body", "exit"}
  /\ l.at = "user" <=> l.level = 0

Resumable(p, l) == p \in {U, S} /\ Place(l) /\ (l.at = "user" => p = U)

(* Where the kernel or the user program is, under the firmware too.        *)
Here == IF pc.at = "fw" THEN interrupted[pc.level].pc
        ELSE IF pc.at = "redirected" THEN At("entry", pc.level)
        ELSE pc

Held(ctx, was, l) ==
  \/ ctx = was /\ ctx.pc.level < l
  \/ ctx.pc.level = l /\ ctx.pc.at \in {"entry", "exit"}

Control ==
  /\ priv = M <=> pc.at \in {"fw", "redirected"}
  /\ pc.at \in {"fw", "redirected"} => pc.level > 0
  /\ priv # M => Resumable(priv, pc)
  /\ ~ie[M]
  /\ \A m \in {S, M} : Resumable(pp[m], epc[m])
  /\ \A l \in Levels : /\ Resumable(frame[l].priv, frame[l].pc)
                       /\ Resumable(interrupted[l].priv, interrupted[l].pc)

FromFirmware ==
  /\ pc.at = "fw" /\ cause[M] = Exception(IllegalInsn) => epc[M].at = "user"
  /\ pc.at = "redirected" => epc[M] = At("entry", pc.level) /\ pp[M] = S

Registers ==
  Here.at \in {"entry", "exit"} =>
    Held(Context(pp[S], epc[S], pie[S]), interrupted[Here.level], Here.level)

FrameHeld(l) == Held(frame[l], interrupted[l], l)

InBody == Here.at = "body" => FrameHeld(Here.level)

Suspended ==
  \A k \in 1 .. pc.level :
    /\ interrupted[k].pc.level < k
    /\ interrupted[k].pc.at = "body" => FrameHeld(interrupted[k].pc.level)

EInv == /\ TypeOK /\ Control /\ FromFirmware /\ MachineRegistersIntact
        /\ Registers /\ InBody /\ Suspended

Causes == [interrupt : BOOLEAN, code : 0 .. 15]

(* Levels and places are in range.                                         *)
LEMMA Ranges ==
  ASSUME TypeOK, Control
  PROVE  /\ MaxLevel \in Nat \ {0}
         /\ pc \in Locations /\ pc.level \in 0 .. MaxLevel + 1
         /\ pc.level # 0 => pc.level \in Levels
         /\ Place(Here) /\ Here \in Locations
         /\ pc.at \notin {"fw", "redirected"} => Here = pc
<1>1. MaxLevel \in Nat \ {0}
  BY TrapAssumption
<1>2. pc \in Locations /\ pc.level \in 0 .. MaxLevel + 1
  BY DEF TypeOK, Locations
<1>3. pc.level # 0 => pc.level \in Levels
  BY <1>1, <1>2 DEF Levels
<1>4. Place(Here)
  <2>1. CASE pc.at = "fw"
    BY <1>1, <1>2, <1>3, <2>1 DEF Control, Here, Resumable
  <2>2. CASE pc.at = "redirected"
    BY <1>1, <1>2, <2>2 DEF Control, Here, Place, At, Locations, Stages
  <2>3. CASE pc.at \notin {"fw", "redirected"}
    BY <2>3 DEF Control, Here, Resumable
  <2> QED BY <2>1, <2>2, <2>3
<1> QED BY <1>1, <1>2, <1>3, <1>4 DEF Here, Place

(* No interrupt is due in machine mode.                                    *)
LEMMA NoneInMachine ==
  ASSUME TypeOK, Control, HasPendingInterrupt
  PROVE  priv # M
BY DEF Control, HasPendingInterrupt, U, S, M

(* A trap from below machine mode, to either handler.                      *)
LEMMA TrapKeepsEInv ==
  ASSUME EInv, priv # M, pc.level <= MaxLevel,
         NEW why \in Causes, RaiseException(why), UNCHANGED irqVars,
         why = Exception(IllegalInsn) => pc.at = "user"
  PROVE  EInv' /\ pc'.level = pc.level + 1
<1> USE DEF U, S, M
<1>1. PICK m \in {S, M} : TrapTo(m, IF m = S THEN "entry" ELSE "fw", why)
  BY DEF RaiseException
<1>2. /\ MaxLevel \in Nat \ {0} /\ pc \in Locations /\ Here = pc
      /\ pc.level \in 0 .. MaxLevel /\ pc.level + 1 \in Levels
      /\ Place(pc) /\ priv \in {U, S}
  BY Ranges DEF EInv, Control, Levels, TypeOK, Resumable
<1>3. /\ pc' = At(IF m = S THEN "entry" ELSE "fw", pc.level + 1)
      /\ pc'.at = (IF m = S THEN "entry" ELSE "fw")
      /\ pc'.level = pc.level + 1
  BY <1>1 DEF TrapTo, At
<1>4. /\ epc' = [epc EXCEPT ![m] = pc] /\ pp' = [pp EXCEPT ![m] = priv]
      /\ pie' = [pie EXCEPT ![m] = ie[priv]]
      /\ ie' = [ie EXCEPT ![m] = FALSE] /\ priv' = m
      /\ cause' = [cause EXCEPT ![m] = why]
      /\ interrupted' = [interrupted EXCEPT
                           ![pc.level + 1] = Context(priv, pc, ie[priv])]
      /\ UNCHANGED <<firmware, frame, mip, mie>>
  BY <1>1 DEF TrapTo, irqVars
<1>5. /\ interrupted'[pc.level + 1] = Context(priv, pc, ie[priv])
      /\ \A l \in Levels : l # pc.level + 1 => interrupted'[l] = interrupted[l]
  BY <1>2, <1>4 DEF EInv, TypeOK
<1>6. TypeOK'
  <2>1. pc' \in Locations
    BY <1>2, <1>3 DEF Locations, At, Stages
  <2>2. Context(priv, pc, ie[priv]) \in Contexts
    BY <1>2 DEF EInv, TypeOK, Context, Contexts
  <2>3. interrupted' \in [Levels -> Contexts]
    BY <1>4, <2>2 DEF EInv, TypeOK
  <2>4. /\ ie' \in [{U, S, M} -> BOOLEAN] /\ pie' \in [{S, M} -> BOOLEAN]
        /\ pp' \in [{S, M} -> {U, S, M}] /\ epc' \in [{S, M} -> Locations]
        /\ cause' \in [{S, M} -> [interrupt : BOOLEAN, code : 0 .. 15]]
    BY <1>2, <1>4 DEF EInv, TypeOK, Causes
  <2> QED BY <1>4, <2>1, <2>3, <2>4 DEF EInv, TypeOK
<1>7. Control'
  <2>1. priv' = M <=> pc'.at \in {"fw", "redirected"}
    BY <1>3, <1>4
  <2>2. priv' # M => Resumable(priv', pc')
    BY <1>2, <1>3, <1>4, <1>6 DEF Resumable, Place, TypeOK
  <2>3. ~ie'[M]
    BY <1>4 DEF EInv, TypeOK, Control
  <2>4. Resumable(priv, pc)
    BY DEF EInv, Control
  <2>5. \A n \in {S, M} : Resumable(pp'[n], epc'[n])
    BY <1>4, <2>4 DEF EInv, TypeOK, Control
  <2>6. \A l \in Levels : Resumable(interrupted'[l].priv, interrupted'[l].pc)
    <3> TAKE l \in Levels
    <3>1. CASE l = pc.level + 1
      BY <1>5, <2>4, <3>1 DEF Context
    <3>2. CASE l # pc.level + 1
      BY <1>5, <3>2 DEF EInv, Control
    <3> QED BY <3>1, <3>2
  <2>7. \A l \in Levels : Resumable(frame'[l].priv, frame'[l].pc)
    BY <1>4 DEF EInv, Control
  <2> QED BY <1>2, <1>3, <2>1, <2>2, <2>3, <2>5, <2>6, <2>7 DEF Control
<1>8. FromFirmware'
  BY <1>3, <1>4 DEF FromFirmware, EInv, TypeOK
<1>9. MachineRegistersIntact'
  BY <1>3, <1>4, <1>5 DEF MachineRegistersIntact, EInv, TypeOK
<1>10. Suspended'
  <2> SUFFICES ASSUME NEW k \in 1 .. pc.level + 1
               PROVE  /\ interrupted'[k].pc.level < k
                      /\ interrupted'[k].pc.at = "body" =>
                           Held(frame[interrupted'[k].pc.level],
                                interrupted'[interrupted'[k].pc.level],
                                interrupted'[k].pc.level)
    BY <1>3, <1>4 DEF Suspended, FrameHeld
  <2>1. CASE k = pc.level + 1
    <3>1. interrupted'[k].pc = pc
      BY <1>5, <2>1 DEF Context
    <3>2. pc.at = "body" => Held(frame[pc.level], interrupted[pc.level], pc.level)
      BY <1>2 DEF EInv, InBody, FrameHeld
    <3>3. pc.at = "body" => Held(frame[pc.level], interrupted'[pc.level], pc.level)
      <4>1. pc.at = "body" => pc.level \in Levels /\ pc.level # pc.level + 1
        BY <1>2 DEF Place, Levels
      <4> QED BY <1>5, <3>2, <4>1
    <3> QED BY <1>2, <2>1, <3>1, <3>3
  <2>2. CASE k \in 1 .. pc.level
    <3>1. k \in Levels /\ k # pc.level + 1 /\ interrupted'[k] = interrupted[k]
      BY <1>2, <1>5, <2>2 DEF Levels
    <3> DEFINE c == interrupted[k].pc
    <3>3. /\ c.level < k
          /\ c.at = "body" => Held(frame[c.level], interrupted[c.level], c.level)
      BY <2>2 DEF EInv, Suspended, FrameHeld
    <3>4. c.at = "body" => c.level \in Levels /\ c.level # pc.level + 1
      BY <1>2, <2>2, <3>1, <3>3 DEF EInv, Control, Resumable, Place, Locations, Levels
    <3>5. c.at = "body" => Held(frame[c.level], interrupted'[c.level], c.level)
      BY <1>5, <3>3, <3>4
    <3> HIDE DEF c
    <3>6. interrupted'[k].pc = c
      BY <3>1 DEF c
    <3> QED BY <3>3, <3>5, <3>6
  <2> QED BY <1>2, <2>1, <2>2
<1>11. CASE m = S
  <2>1. Here'.at = "entry" /\ Here'.level = pc.level + 1
    BY <1>3, <1>11 DEF Here
  <2>2. Context(pp'[S], epc'[S], pie'[S]) = interrupted'[pc.level + 1]
    BY <1>4, <1>5, <1>11 DEF EInv, TypeOK
  <2>3. interrupted'[pc.level + 1].pc.level < pc.level + 1
    BY <1>2, <1>5 DEF Context
  <2>4. Held(Context(pp'[S], epc'[S], pie'[S]), interrupted'[pc.level + 1],
             pc.level + 1)
    BY <2>2, <2>3 DEF Held
  <2>5. Registers' /\ InBody'
    BY <2>1, <2>4 DEF Registers, InBody
  <2> QED BY <1>3, <1>6, <1>7, <1>8, <1>9, <1>10, <2>5 DEF EInv
<1>12. CASE m = M
  <2>1. Here' = pc
    BY <1>3, <1>5, <1>12 DEF Here, Context
  <2>2. /\ pp'[S] = pp[S] /\ epc'[S] = epc[S] /\ pie'[S] = pie[S]
    BY <1>4, <1>12 DEF EInv, TypeOK
  <2>3. pc.at # "user" => pc.level \in Levels /\ pc.level # pc.level + 1
    BY <1>2 DEF Place, Levels
  <2>4. pc.at # "user" => interrupted'[pc.level] = interrupted[pc.level]
    BY <1>5, <2>3
  <2>5. Registers'
    BY <1>2, <2>1, <2>2, <2>4 DEF EInv, Registers
  <2>6. InBody'
    BY <1>2, <1>4, <2>1, <2>4 DEF EInv, InBody, FrameHeld
  <2> QED BY <1>3, <1>6, <1>7, <1>8, <1>9, <1>10, <2>5, <2>6 DEF EInv
<1> QED BY <1>11, <1>12

(* Interrupt sources, the enable bit, an SBI call served in place.         *)
LEMMA QuietKeepsEInv ==
  ASSUME EInv,
         TimerFires \/ External \/ ClearSsi \/ (SbiCall /\ ~firmware)
         \/ (\E b \in BOOLEAN : SetSie(b)) \/ UNCHANGED vars
  PROVE  EInv' /\ UNCHANGED <<priv, pc>>
<1> USE DEF U, S, M
<1>1. /\ UNCHANGED <<priv, pc, pie, pp, epc, cause, frame, interrupted>>
      /\ TypeOK' /\ ie'[M] = ie[M]
  <2>1. CASE \E b \in BOOLEAN : SetSie(b)
    <3>1. PICK b \in BOOLEAN : SetSie(b)
      BY <2>1
    <3> QED BY <3>1 DEF SetSie, EInv, TypeOK, irqVars, memVars
  <2>2. CASE \/ TimerFires \/ External \/ ClearSsi \/ (SbiCall /\ ~firmware)
             \/ UNCHANGED vars
    <3>1. UNCHANGED <<priv, pc, csrVars, memVars>>
      BY <2>2 DEF TimerFires, External, ClearSsi, SbiCall, vars
    <3>2. mie' = mie /\ mip' \subseteq mip \cup {5, 7, 9}
      BY <2>2 DEF TimerFires, External, ClearSsi, SbiCall, vars, irqVars,
                  STI, MTI, SEI, SSI
    <3> QED BY <3>1, <3>2 DEF EInv, TypeOK, csrVars, memVars
  <2> QED BY <2>1, <2>2
<1>2. Here' = Here
  BY <1>1 DEF Here
<1>3. Control' /\ FromFirmware' /\ MachineRegistersIntact'
  BY <1>1 DEF EInv, Control, FromFirmware, MachineRegistersIntact
<1>4. Registers' /\ InBody' /\ Suspended'
  BY <1>1, <1>2 DEF EInv, Registers, InBody, Suspended, FrameHeld
<1> QED BY <1>1, <1>3, <1>4 DEF EInv

(* A frame of the current level is none a lower level's return needs.      *)
LEMMA FrameWrite ==
  ASSUME EInv, NEW f \in Contexts, pc.level \in Levels,
         frame' = [frame EXCEPT ![pc.level] = f],
         UNCHANGED interrupted, pc'.level = pc.level
  PROVE  Suspended' /\ frame'[pc.level] = f
<1>1. frame'[pc.level] = f /\ \A l \in Levels : l # pc.level => frame'[l] = frame[l]
  BY DEF EInv, TypeOK
<1>2. MaxLevel \in Nat \ {0} /\ pc.level \in 0 .. MaxLevel + 1
  BY Ranges DEF EInv
<1>3. ASSUME NEW k \in 1 .. pc.level
      PROVE  /\ interrupted[k].pc.level < k
             /\ interrupted[k].pc.at = "body" =>
                  Held(frame'[interrupted[k].pc.level],
                       interrupted[interrupted[k].pc.level],
                       interrupted[k].pc.level)
  <2>1. k \in Levels
    BY <1>2, <1>3 DEF Levels
  <2>2. /\ interrupted[k].pc.level < k
        /\ interrupted[k].pc.at = "body" =>
             Held(frame[interrupted[k].pc.level],
                  interrupted[interrupted[k].pc.level], interrupted[k].pc.level)
    BY <1>3 DEF EInv, Suspended, FrameHeld
  <2>3. interrupted[k].pc.at = "body" =>
          interrupted[k].pc.level \in Levels /\ interrupted[k].pc.level # pc.level
    BY <1>2, <1>3, <2>1, <2>2
    DEF EInv, Control, Resumable, Place, Locations, Levels
  <2> QED BY <1>1, <2>2, <2>3
<1> QED BY <1>1, <1>3 DEF Suspended, FrameHeld

LEMMA SaveKeepsEInv ==
  ASSUME EInv, Save
  PROVE  EInv' /\ pc'.level = pc.level
<1> USE DEF U, S, M
<1>1. /\ pc.at = "entry" /\ Here = pc /\ pc \in Locations
      /\ pc.level \in Levels /\ pc.level # 0 /\ priv # M
      /\ MaxLevel \in Nat \ {0}
  BY Ranges DEF EInv, Save, Executing, Control, Place
<1>2. /\ pc' = At("body", pc.level) /\ pc'.at = "body" /\ pc'.level = pc.level
      /\ frame' = [frame EXCEPT ![pc.level] = Context(pp[S], epc[S], pie[S])]
      /\ UNCHANGED <<firmware, priv, ie, pie, pp, epc, cause, mip, mie, interrupted>>
  BY DEF Save, At, csrVars, irqVars
<1>3. Context(pp[S], epc[S], pie[S]) \in Contexts
  BY DEF EInv, TypeOK, Context, Contexts
<1>4. Suspended' /\ frame'[pc.level] = Context(pp[S], epc[S], pie[S])
  BY <1>1, <1>2, <1>3, FrameWrite
<1>5. TypeOK'
  <2>1. pc' \in Locations
    BY <1>1, <1>2 DEF Locations, At, Stages
  <2> QED BY <1>2, <1>3, <2>1 DEF EInv, TypeOK
<1>6. Here' = pc'
  BY <1>2 DEF Here
<1>7. Registers' /\ InBody'
  BY <1>1, <1>2, <1>4, <1>6 DEF EInv, Registers, InBody, FrameHeld
<1>8. Control'
  <2>1. Resumable(priv, pc')
    BY <1>1, <1>2, <1>5 DEF EInv, Control, Resumable, Place, TypeOK
  <2>2. \A l \in Levels : Resumable(frame'[l].priv, frame'[l].pc)
    <3>1. Resumable(pp[S], epc[S])
      BY DEF EInv, Control
    <3>2. frame'[pc.level].priv = pp[S] /\ frame'[pc.level].pc = epc[S]
      BY <1>4 DEF Context
    <3>3. \A l \in Levels : l # pc.level => frame'[l] = frame[l]
      BY <1>2 DEF EInv, TypeOK
    <3> QED BY <3>1, <3>2, <3>3 DEF EInv, Control
  <2> QED BY <1>1, <1>2, <2>1, <2>2 DEF EInv, Control
<1>9. FromFirmware' /\ MachineRegistersIntact'
  BY <1>2 DEF FromFirmware, MachineRegistersIntact
<1> QED BY <1>2, <1>4, <1>5, <1>7, <1>8, <1>9 DEF EInv

LEMMA RestoreKeepsEInv ==
  ASSUME EInv, Restore
  PROVE  EInv' /\ pc'.level = pc.level
<1> USE DEF U, S, M
<1>1. /\ pc.at = "body" /\ Here = pc /\ pc \in Locations
      /\ pc.level \in Levels /\ pc.level # 0 /\ priv # M
      /\ MaxLevel \in Nat \ {0}
  BY Ranges DEF EInv, Restore, Executing, Control, Place
<1> DEFINE f == frame[pc.level]
<1>2. /\ pc' = At("exit", pc.level) /\ pc'.at = "exit" /\ pc'.level = pc.level
      /\ frame' = [frame EXCEPT ![pc.level] = Nowhere]
      /\ pp' = [pp EXCEPT ![S] = f.priv] /\ epc' = [epc EXCEPT ![S] = f.pc]
      /\ pie' = [pie EXCEPT ![S] = f.ie]
      /\ UNCHANGED <<firmware, priv, ie, cause, mip, mie, interrupted>>
  BY DEF Restore, At, irqVars
<1>3. f \in Contexts /\ Nowhere \in Contexts
  BY <1>1 DEF EInv, TypeOK, Nowhere, Contexts, Context, At, Locations, Stages
<1>4. Suspended' /\ frame'[pc.level] = Nowhere
  BY <1>1, <1>2, <1>3, FrameWrite
<1>5. Resumable(f.priv, f.pc) /\ Held(f, interrupted[pc.level], pc.level)
  BY <1>1 DEF EInv, Control, InBody, FrameHeld
<1> HIDE DEF f
<1>6. TypeOK'
  <2>1. pc' \in Locations
    BY <1>1, <1>2 DEF Locations, At, Stages
  <2>2. f.priv \in {U, S, M} /\ f.pc \in Locations /\ f.ie \in BOOLEAN
    BY <1>3 DEF Contexts
  <2>3. /\ pp' \in [{S, M} -> {U, S, M}] /\ epc' \in [{S, M} -> Locations]
        /\ pie' \in [{S, M} -> BOOLEAN] /\ frame' \in [Levels -> Contexts]
    BY <1>2, <1>3, <2>2 DEF EInv, TypeOK
  <2> QED BY <1>2, <2>1, <2>3 DEF EInv, TypeOK
<1>7. Here' = pc'
  BY <1>2 DEF Here
<1>8. Context(pp'[S], epc'[S], pie'[S]) = f
  BY <1>2, <1>3 DEF EInv, TypeOK, Context, Contexts
<1>9. Registers' /\ InBody'
  BY <1>2, <1>5, <1>7, <1>8 DEF Registers, InBody
<1>10. Control'
  <2>1. Resumable(priv, pc')
    BY <1>1, <1>2, <1>6 DEF EInv, Control, Resumable, Place, TypeOK
  <2>2. \A l \in Levels : Resumable(frame'[l].priv, frame'[l].pc)
    <3>1. Resumable(Nowhere.priv, Nowhere.pc)
      BY <1>1 DEF Resumable, Place, Nowhere, Context, At, Locations, Stages
    <3>2. \A l \in Levels : l # pc.level => frame'[l] = frame[l]
      BY <1>2 DEF EInv, TypeOK
    <3> QED BY <1>4, <3>1, <3>2 DEF EInv, Control
  <2>3. \A n \in {S, M} : Resumable(pp'[n], epc'[n])
    BY <1>2, <1>5 DEF EInv, Control, TypeOK
  <2> QED BY <1>1, <1>2, <2>1, <2>2, <2>3 DEF EInv, Control
<1>11. FromFirmware' /\ MachineRegistersIntact'
  BY <1>2 DEF FromFirmware, MachineRegistersIntact
<1> QED BY <1>2, <1>4, <1>6, <1>9, <1>10, <1>11 DEF EInv

(* Forgetting what the current level interrupted, on the way to a level no *)
(* higher, disturbs no way back that is still needed.                      *)
LEMMA LeaveLevel ==
  ASSUME EInv, pc.level \in Levels,
         interrupted' = [interrupted EXCEPT ![pc.level] = Nowhere],
         UNCHANGED frame, pc' \in Locations, pc'.level <= pc.level
  PROVE  /\ Suspended'
         /\ interrupted' \in [Levels -> Contexts]
         /\ \A l \in Levels :
              Resumable(interrupted'[l].priv, interrupted'[l].pc)
         /\ \A l \in Levels : l # pc.level => interrupted'[l] = interrupted[l]
<1>1. /\ MaxLevel \in Nat \ {0} /\ pc.level \in 0 .. MaxLevel + 1
      /\ pc'.level \in 0 .. MaxLevel + 1
  BY Ranges DEF EInv, Locations
<1>2. /\ Nowhere \in Contexts /\ Resumable(Nowhere.priv, Nowhere.pc)
      /\ Nowhere.pc.level = 0 /\ Nowhere.pc.at = "user"
  BY <1>1 DEF Nowhere, Context, At, Contexts, Locations, Stages, Resumable,
              Place, U, S, M
<1>3. /\ interrupted'[pc.level] = Nowhere
      /\ \A l \in Levels : l # pc.level => interrupted'[l] = interrupted[l]
      /\ interrupted' \in [Levels -> Contexts]
  BY <1>2 DEF EInv, TypeOK
<1>4. \A l \in Levels : Resumable(interrupted'[l].priv, interrupted'[l].pc)
  BY <1>2, <1>3 DEF EInv, Control
<1>5. ASSUME NEW k \in 1 .. pc'.level
      PROVE  /\ interrupted'[k].pc.level < k
             /\ interrupted'[k].pc.at = "body" =>
                  Held(frame[interrupted'[k].pc.level],
                       interrupted'[interrupted'[k].pc.level],
                       interrupted'[k].pc.level)
  <2>1. CASE k = pc.level
    BY <1>1, <1>2, <1>3, <2>1
  <2>2. CASE k # pc.level
    <3>1. k \in Levels /\ k \in 1 .. pc.level /\ interrupted'[k] = interrupted[k]
      BY <1>1, <1>3, <2>2 DEF Levels
    <3> DEFINE c == interrupted[k].pc
    <3>2. /\ c.level < k
          /\ c.at = "body" => Held(frame[c.level], interrupted[c.level], c.level)
      BY <3>1 DEF EInv, Suspended, FrameHeld
    <3>3. c.at = "body" => c.level \in Levels /\ c.level # pc.level
      BY <1>1, <2>2, <3>1, <3>2
      DEF EInv, Control, Resumable, Place, Locations, Levels
    <3>4. c.at = "body" => Held(frame[c.level], interrupted'[c.level], c.level)
      BY <1>3, <3>2, <3>3
    <3> HIDE DEF c
    <3>5. interrupted'[k].pc = c
      BY <3>1 DEF c
    <3> QED BY <3>2, <3>4, <3>5
  <2> QED BY <2>1, <2>2
<1> QED BY <1>3, <1>4, <1>5 DEF Suspended, FrameHeld

(* sret either resumes what its level interrupted or stays in the level.   *)
LEMMA SretKeepsEInv ==
  ASSUME EInv, Sret
  PROVE  /\ EInv'
         /\ pc'.level < pc.level =>
              Context(priv', pc', ie'[priv']) = interrupted[pc.level]
<1> USE DEF U, S, M
<1>1. /\ pc.at = "exit" /\ Here = pc /\ pc \in Locations
      /\ pc.level \in Levels /\ pc.level # 0
      /\ MaxLevel \in Nat \ {0} /\ pc.level \in 0 .. MaxLevel + 1
  BY Ranges DEF EInv, Sret, Executing, Control, Place
<1>2. /\ priv' = pp[S] /\ pc' = epc[S] /\ ie' = [ie EXCEPT ![pp[S]] = pie[S]]
      /\ pp' = [pp EXCEPT ![S] = U] /\ pie' = [pie EXCEPT ![S] = TRUE]
      /\ interrupted' = [interrupted EXCEPT ![pc.level] = Nowhere]
      /\ UNCHANGED <<firmware, epc, cause, mip, mie, frame>>
  BY DEF Sret, XRet, irqVars
<1>3. Held(Context(pp[S], epc[S], pie[S]), interrupted[pc.level], pc.level)
  BY <1>1 DEF EInv, Registers
<1>4. /\ Resumable(pp[S], epc[S]) /\ Place(epc[S]) /\ epc[S].level <= pc.level
      /\ epc[S].level \in 0 .. MaxLevel + 1
  BY <1>1, <1>3 DEF EInv, Control, Held, Context, Resumable, Place, Locations
<1>5. /\ Suspended' /\ interrupted' \in [Levels -> Contexts]
      /\ \A l \in Levels : Resumable(interrupted'[l].priv, interrupted'[l].pc)
      /\ \A l \in Levels : l # pc.level => interrupted'[l] = interrupted[l]
  BY <1>1, <1>2, <1>4, LeaveLevel DEF Place
<1>6. TypeOK'
  <2>1. /\ ie' \in [{U, S, M} -> BOOLEAN] /\ priv' \in {U, S, M}
        /\ pie' \in [{S, M} -> BOOLEAN] /\ pp' \in [{S, M} -> {U, S, M}]
        /\ pc' \in Locations
    BY <1>2, <1>4 DEF EInv, TypeOK, Place
  <2> QED BY <1>2, <1>5, <2>1 DEF EInv, TypeOK
<1>7. pc'.at \in {"user", "entry", "body", "exit"} /\ Here' = pc'
  BY <1>2, <1>4 DEF Here, Place
<1>8. Control'
  <2>1. priv' # M /\ Resumable(priv', pc') /\ ~ie'[M]
    BY <1>2, <1>4 DEF EInv, TypeOK, Control, Resumable
  <2>2. \A n \in {S, M} : Resumable(pp'[n], epc'[n])
    BY <1>2, <1>4 DEF EInv, TypeOK, Control, Resumable
  <2> QED BY <1>2, <1>5, <1>7, <2>1, <2>2 DEF EInv, Control
<1>9. FromFirmware' /\ MachineRegistersIntact'
  BY <1>7 DEF FromFirmware, MachineRegistersIntact
<1>10. Registers'
  <2>1. Context(pp'[S], epc'[S], pie'[S]).pc = pc'
    BY <1>2 DEF Context
  <2> QED BY <1>7, <2>1 DEF Registers, Held
<1>11. /\ InBody'
       /\ pc'.level < pc.level =>
            Context(priv', pc', ie'[priv']) = interrupted[pc.level]
  <2>1. CASE epc[S].level = pc.level /\ epc[S].at \in {"entry", "exit"}
    BY <1>1, <1>2, <1>7, <2>1 DEF InBody
  <2>2. CASE /\ Context(pp[S], epc[S], pie[S]) = interrupted[pc.level]
             /\ epc[S].level < pc.level
    <3>1. interrupted[pc.level].pc = epc[S]
      BY <2>2 DEF Context
    <3>2. pc.level \in 1 .. pc.level
      BY <1>1
    <3>3. epc[S].at = "body" =>
            Held(frame[epc[S].level], interrupted[epc[S].level], epc[S].level)
      BY <3>1, <3>2 DEF EInv, Suspended, FrameHeld
    <3>4. epc[S].at = "body" => epc[S].level \in Levels /\ epc[S].level # pc.level
      BY <1>1, <1>4, <2>2 DEF Place, Levels
    <3>5. InBody'
      BY <1>2, <1>5, <1>7, <3>3, <3>4 DEF InBody, FrameHeld
    <3>6. Context(priv', pc', ie'[priv']) = interrupted[pc.level]
      BY <1>2, <2>2 DEF EInv, TypeOK
    <3> QED BY <3>5, <3>6
  <2> QED BY <1>3, <2>1, <2>2 DEF Held, Context
<1> QED BY <1>5, <1>6, <1>8, <1>9, <1>10, <1>11 DEF EInv

(* The firmware's mret resumes what its trap interrupted.                  *)
LEMMA MretKeepsEInv ==
  ASSUME EInv, pc.at = "fw", Mret, UNCHANGED frame,
         mip' \subseteq 0 .. 15, mie' \subseteq 0 .. 15
  PROVE  /\ EInv'
         /\ Context(priv', pc', ie'[priv']) = interrupted[pc.level]
<1> USE DEF U, S, M
<1>1. /\ pc \in Locations /\ pc.level \in Levels /\ pc.level # 0
      /\ MaxLevel \in Nat \ {0} /\ pc.level \in 0 .. MaxLevel + 1
      /\ Here = interrupted[pc.level].pc
  BY Ranges DEF EInv, Control, Here
<1>2. /\ priv' = pp[M] /\ pc' = epc[M] /\ ie' = [ie EXCEPT ![pp[M]] = pie[M]]
      /\ pp' = [pp EXCEPT ![M] = U] /\ pie' = [pie EXCEPT ![M] = TRUE]
      /\ interrupted' = [interrupted EXCEPT ![pc.level] = Nowhere]
      /\ UNCHANGED <<firmware, epc, cause, frame>>
  BY DEF Mret, XRet
<1>3. /\ Context(pp[M], epc[M], pie[M]) = interrupted[pc.level]
      /\ interrupted[pc.level].pc = epc[M]
  BY DEF EInv, MachineRegistersIntact, Context
<1>4. epc[M].level < pc.level
  BY <1>1, <1>3 DEF EInv, Suspended
<1>5. Resumable(pp[M], epc[M]) /\ Place(epc[M]) /\ epc[M].level \in 0 .. MaxLevel + 1
  BY DEF EInv, Control, Resumable, Place, Locations
<1>6. /\ Suspended' /\ interrupted' \in [Levels -> Contexts]
      /\ \A l \in Levels : Resumable(interrupted'[l].priv, interrupted'[l].pc)
      /\ \A l \in Levels : l # pc.level => interrupted'[l] = interrupted[l]
  BY <1>1, <1>2, <1>4, <1>5, LeaveLevel DEF Place
<1>7. TypeOK'
  <2>1. /\ ie' \in [{U, S, M} -> BOOLEAN] /\ priv' \in {U, S, M}
        /\ pie' \in [{S, M} -> BOOLEAN] /\ pp' \in [{S, M} -> {U, S, M}]
        /\ pc' \in Locations
    BY <1>2, <1>5 DEF EInv, TypeOK, Place
  <2> QED BY <1>2, <1>6, <2>1 DEF EInv, TypeOK
<1>8. pc'.at \in {"user", "entry", "body", "exit"} /\ Here' = pc' /\ Here' = Here
  BY <1>1, <1>2, <1>3, <1>5 DEF Here, Place
<1>9. Control'
  <2>1. priv' # M /\ Resumable(priv', pc') /\ ~ie'[M]
    BY <1>2, <1>5 DEF EInv, TypeOK, Control, Resumable
  <2>2. \A n \in {S, M} : Resumable(pp'[n], epc'[n])
    BY <1>2, <1>5 DEF EInv, TypeOK, Control, Resumable
  <2> QED BY <1>2, <1>6, <1>8, <2>1, <2>2 DEF EInv, Control
<1>10. FromFirmware' /\ MachineRegistersIntact'
  BY <1>8 DEF FromFirmware, MachineRegistersIntact
<1>11. Here.at # "user" => interrupted'[Here.level] = interrupted[Here.level]
  <2>1. Here.at # "user" => Here.level \in Levels /\ Here.level # pc.level
    BY <1>1, <1>3, <1>4, <1>5 DEF Place, Levels
  <2> QED BY <1>6, <2>1
<1>12. Registers'
  <2>1. pp'[S] = pp[S] /\ epc'[S] = epc[S] /\ pie'[S] = pie[S]
    BY <1>2 DEF EInv, TypeOK
  <2> QED BY <1>8, <1>11, <2>1 DEF EInv, Registers
<1>13. InBody'
  BY <1>2, <1>8, <1>11 DEF EInv, InBody, FrameHeld
<1>14. Context(priv', pc', ie'[priv']) = interrupted[pc.level]
  BY <1>2, <1>3, <1>5 DEF EInv, TypeOK
<1> QED BY <1>6, <1>7, <1>9, <1>10, <1>12, <1>13, <1>14 DEF EInv

(* The firmware hands an instruction it does not emulate to the kernel:    *)
(* the kernel's trap registers become what the firmware's were.            *)
LEMMA RedirectKeepsEInv ==
  ASSUME EInv, FwRedirect
  PROVE  EInv' /\ pc'.level = pc.level
<1> USE DEF U, S, M
<1>1. /\ pc.at = "fw" /\ cause[M] = Exception(IllegalInsn)
      /\ pc \in Locations /\ pc.level \in Levels /\ pc.level # 0 /\ priv = M
      /\ MaxLevel \in Nat \ {0} /\ pc.level \in 0 .. MaxLevel + 1
  BY Ranges DEF EInv, Control, FwRedirect, Executing
<1>2. /\ pc' = At("redirected", pc.level)
      /\ pc'.at = "redirected" /\ pc'.level = pc.level
      /\ epc' = [epc EXCEPT ![S] = epc[M], ![M] = At("entry", pc.level)]
      /\ pp' = [pp EXCEPT ![S] = U, ![M] = S]
      /\ pie' = [pie EXCEPT ![S] = pie[M]]
      /\ ie' = [ie EXCEPT ![S] = FALSE]
      /\ UNCHANGED <<firmware, priv, cause, mip, mie, frame, interrupted>>
  BY DEF FwRedirect, At, irqVars, memVars
<1>3. /\ At("entry", pc.level) \in Locations /\ pc' \in Locations
      /\ At("entry", pc.level).at = "entry"
      /\ At("entry", pc.level).level = pc.level
  BY <1>1, <1>2 DEF At, Locations, Stages
<1>4. TypeOK'
  <2>1. /\ epc' \in [{S, M} -> Locations] /\ pp' \in [{S, M} -> {U, S, M}]
        /\ pie' \in [{S, M} -> BOOLEAN] /\ ie' \in [{U, S, M} -> BOOLEAN]
    BY <1>2, <1>3 DEF EInv, TypeOK
  <2> QED BY <1>2, <1>3, <2>1 DEF EInv, TypeOK
<1>5. /\ epc[M].at = "user" /\ epc[M].level = 0 /\ pp[M] = U
      /\ Context(pp[M], epc[M], pie[M]) = interrupted[pc.level]
  BY <1>1 DEF EInv, FromFirmware, Control, Resumable, Place, MachineRegistersIntact
<1>6. /\ epc'[S] = epc[M] /\ pp'[S] = U /\ pie'[S] = pie[M]
      /\ epc'[M] = At("entry", pc.level) /\ pp'[M] = S
  BY <1>2 DEF EInv, TypeOK
<1>7. Control'
  <2>1. Resumable(S, At("entry", pc.level))
    BY <1>1, <1>3 DEF Resumable, Place
  <2>2. Resumable(U, epc[M])
    BY <1>5 DEF EInv, Control, Resumable
  <2>3. \A n \in {S, M} : Resumable(pp'[n], epc'[n])
    BY <1>6, <2>1, <2>2
  <2>4. ~ie'[M] /\ priv' = M
    BY <1>1, <1>2 DEF EInv, TypeOK, Control
  <2> QED BY <1>1, <1>2, <2>3, <2>4 DEF EInv, Control
<1>8. FromFirmware' /\ MachineRegistersIntact'
  BY <1>2, <1>6 DEF FromFirmware, MachineRegistersIntact
<1>9. Here' = At("entry", pc.level)
  BY <1>2 DEF Here
<1>10. Registers' /\ InBody'
  <2>1. Context(pp'[S], epc'[S], pie'[S]) = interrupted[pc.level]
    BY <1>5, <1>6
  <2>2. Context(pp'[S], epc'[S], pie'[S]).pc.level < pc.level
    BY <1>1, <1>5, <1>6 DEF Context
  <2> QED BY <1>2, <1>3, <1>9, <2>1, <2>2 DEF Registers, InBody, Held
<1>11. Suspended'
  BY <1>2 DEF EInv, Suspended, FrameHeld
<1> QED BY <1>2, <1>4, <1>7, <1>8, <1>10, <1>11 DEF EInv

(* ... and enters it at the kernel's trap vector.                          *)
LEMMA RedirectRetKeepsEInv ==
  ASSUME EInv, FwRedirectRet
  PROVE  EInv' /\ pc'.level = pc.level
<1> USE DEF U, S, M
<1>1. /\ pc.at = "redirected" /\ pc \in Locations
      /\ pc.level \in Levels /\ pc.level # 0
      /\ MaxLevel \in Nat \ {0} /\ pc.level \in 0 .. MaxLevel + 1
      /\ Here = At("entry", pc.level)
      /\ epc[M] = At("entry", pc.level) /\ pp[M] = S
  BY Ranges DEF EInv, Control, FromFirmware, FwRedirectRet, Executing, Here
<1>2. /\ priv' = S /\ pc' = At("entry", pc.level)
      /\ pc'.at = "entry" /\ pc'.level = pc.level
      /\ ie' = [ie EXCEPT ![S] = pie[M]]
      /\ pp' = [pp EXCEPT ![M] = U] /\ pie' = [pie EXCEPT ![M] = TRUE]
      /\ UNCHANGED <<firmware, epc, cause, mip, mie, frame, interrupted>>
  BY <1>1 DEF FwRedirectRet, XRet, At, irqVars, memVars
<1>3. pc' \in Locations
  BY <1>1, <1>2 DEF At, Locations, Stages
<1>4. TypeOK'
  <2>1. /\ pp' \in [{S, M} -> {U, S, M}] /\ pie' \in [{S, M} -> BOOLEAN]
        /\ ie' \in [{U, S, M} -> BOOLEAN]
    BY <1>2 DEF EInv, TypeOK
  <2> QED BY <1>2, <1>3, <2>1 DEF EInv, TypeOK
<1>5. Control'
  <2>1. Resumable(S, pc')
    BY <1>1, <1>2, <1>3 DEF Resumable, Place
  <2>2. \A n \in {S, M} : Resumable(pp'[n], epc'[n])
    BY <1>2 DEF EInv, TypeOK, Control, Resumable
  <2>3. ~ie'[M]
    BY <1>2 DEF EInv, TypeOK, Control
  <2> QED BY <1>1, <1>2, <2>1, <2>2, <2>3 DEF EInv, Control
<1>6. FromFirmware' /\ MachineRegistersIntact'
  BY <1>2 DEF FromFirmware, MachineRegistersIntact
<1>7. Here' = Here
  BY <1>1, <1>2 DEF Here
<1>8. Registers'
  <2>1. pp'[S] = pp[S] /\ epc'[S] = epc[S] /\ pie'[S] = pie[S]
    BY <1>2 DEF EInv, TypeOK
  <2> QED BY <1>2, <1>7, <2>1 DEF EInv, Registers
<1>9. InBody' /\ Suspended'
  BY <1>2, <1>7 DEF EInv, InBody, Suspended, FrameHeld
<1> QED BY <1>2, <1>4, <1>5, <1>6, <1>8, <1>9 DEF EInv

LEMMA StepKeepsEInv ==
  ASSUME EInv, [Next]_vars
  PROVE  /\ EInv'
         /\ pc'.level < pc.level =>
              Context(priv', pc', ie'[priv']) = interrupted[pc.level]
<1> USE DEF U, S, M
<1>1. /\ MaxLevel \in Nat \ {0} /\ pc.level \in 0 .. MaxLevel + 1
      /\ pc.level \in Nat
  BY Ranges DEF EInv
<1>2. pc.at \in {"user", "body"} => priv # M
  BY DEF EInv, Control
<1>3. CASE TakeInterrupt
  <2>1. PendingInterrupt \in 0 .. 15 /\ priv # M
    BY <1>3, PendingIsReady, NoneInMachine DEF TakeInterrupt, EInv
  <2>2. /\ Interrupt(PendingInterrupt) \in Causes
        /\ Interrupt(PendingInterrupt) # Exception(IllegalInsn)
    BY <2>1 DEF Interrupt, Exception, Causes
  <2> QED BY <1>1, <1>3, <2>1, <2>2, TrapKeepsEInv DEF TakeInterrupt
<1>4. CASE UserTrap \/ UserIllegal
  <2>1. PICK code \in 0 .. 15 : RaiseException(Exception(code))
    BY <1>4 DEF UserTrap, UserIllegal, UserEcall, LoadPageFault, IllegalInsn
  <2>2. Exception(code) \in Causes
    BY DEF Exception, Causes
  <2>3. pc.at = "user" /\ pc.level <= MaxLevel
    BY <1>1, <1>2, <1>4
    DEF UserTrap, UserIllegal, Executing, EInv, Control, Resumable, Place
  <2> QED
    BY <1>1, <1>2, <1>4, <2>1, <2>2, <2>3, TrapKeepsEInv DEF UserTrap, UserIllegal
<1>5. CASE KernelFault \/ (SbiCall /\ firmware)
  <2>1. PICK code \in {LoadPageFault, SupervisorEcall} :
          RaiseException(Exception(code))
    BY <1>5 DEF KernelFault, SbiCall
  <2>2. Exception(code) \in Causes /\ Exception(code) # Exception(IllegalInsn)
    BY <2>1 DEF Exception, Causes, LoadPageFault, SupervisorEcall, IllegalInsn
  <2>3. pc.at = "body" /\ pc.level <= MaxLevel /\ UNCHANGED irqVars
    BY <1>1, <1>5 DEF KernelFault, SbiCall, Executing
  <2> QED BY <1>1, <1>2, <2>1, <2>2, <2>3, TrapKeepsEInv
<1>6. CASE Save
  BY <1>1, <1>6, SaveKeepsEInv
<1>7. CASE Restore
  BY <1>1, <1>7, RestoreKeepsEInv
<1>8. CASE Sret
  BY <1>8, SretKeepsEInv
<1>9. CASE FwTimer \/ FwCall
  <2>1. pc.at = "fw" /\ Mret /\ UNCHANGED frame
    BY <1>9 DEF FwTimer, FwCall, Executing
  <2>2. mip' \subseteq 0 .. 15 /\ mie' \subseteq 0 .. 15
    <3>1. mip \subseteq 0 .. 15 /\ mie \subseteq 0 .. 15
      BY DEF EInv, TypeOK
    <3>2. /\ mip' \subseteq mip \cup {STI, SSI}
          /\ mie' \subseteq mie \cup {MTI}
      BY <1>9 DEF FwTimer, FwCall
    <3> QED BY <3>1, <3>2 DEF STI, SSI, MTI
  <2> QED BY <2>1, <2>2, MretKeepsEInv
<1>10. CASE FwRedirect
  BY <1>1, <1>10, RedirectKeepsEInv
<1>11. CASE FwRedirectRet
  BY <1>1, <1>11, RedirectRetKeepsEInv
<1>12. CASE TimerFires \/ External \/ ClearSsi \/ (SbiCall /\ ~firmware)
            \/ (\E b \in BOOLEAN : SetSie(b)) \/ UNCHANGED vars
  BY <1>1, <1>12, QuietKeepsEInv
<1> QED
  BY <1>3, <1>4, <1>5, <1>6, <1>7, <1>8, <1>9, <1>10, <1>11, <1>12
  DEF Next, Kernel, FirmwareStep

LEMMA InitEInv == Init => EInv
<1> SUFFICES ASSUME Init PROVE EInv
  OBVIOUS
<1> USE DEF U, S, M
<1>1. 1 \in Levels /\ MaxLevel \in Nat \ {0}
  BY TrapAssumption DEF Levels
<1>2. /\ Nowhere \in Contexts /\ Context(U, At("user", 0), TRUE) \in Contexts
      /\ At("exit", 1) \in Locations /\ At("user", 0) \in Locations
  BY <1>1 DEF Nowhere, Context, Contexts, At, Locations, Stages
<1>3. TypeOK
  <2>1. Exception(0) \in [interrupt : BOOLEAN, code : 0 .. 15]
    BY DEF Exception
  <2>2. mip \subseteq 0 .. 15 /\ mie \subseteq 0 .. 15
    BY DEF Init, SSI, STI, SEI, MTI
  <2>3. pie \in [{S, M} -> BOOLEAN] /\ ie \in [{U, S, M} -> BOOLEAN]
    BY DEF Init
  <2> QED BY <1>2, <2>1, <2>2, <2>3 DEF Init, TypeOK
<1>4. pc.at = "exit" /\ pc.level = 1 /\ priv = S /\ Here = pc
  BY DEF Init, At, Here
<1>5. /\ Resumable(U, At("user", 0)) /\ Resumable(S, At("exit", 1))
      /\ At("user", 0).level = 0 /\ At("user", 0).at = "user"
  BY <1>2 DEF Resumable, Place, At
<1>6. /\ \A n \in {S, M} : pp[n] = U /\ epc[n] = At("user", 0)
      /\ \A l \in Levels :
           /\ frame[l].priv = U /\ frame[l].pc = At("user", 0)
           /\ interrupted[l].priv = U /\ interrupted[l].pc = At("user", 0)
      /\ interrupted[1] = Context(U, At("user", 0), TRUE)
  BY <1>1 DEF Init, Nowhere, Context
<1>7. Control
  <2>1. ~ie[M]
    BY DEF Init
  <2>2. priv # M /\ Resumable(priv, pc)
    BY <1>5 DEF Init
  <2>3. \A n \in {S, M} : Resumable(pp[n], epc[n])
    BY <1>5, <1>6
  <2>4. \A l \in Levels : /\ Resumable(frame[l].priv, frame[l].pc)
                          /\ Resumable(interrupted[l].priv, interrupted[l].pc)
    BY <1>5, <1>6
  <2> QED BY <1>4, <2>1, <2>2, <2>3, <2>4 DEF Control
<1>8. FromFirmware /\ MachineRegistersIntact
  BY <1>4 DEF FromFirmware, MachineRegistersIntact
<1>9. pie[S] = TRUE
  <2>1. pie[S] = (S = S)
    BY DEF Init
  <2> QED BY <2>1
<1>10. Registers
  <2>1. Context(pp[S], epc[S], pie[S]) = interrupted[1]
    BY <1>6, <1>9
  <2>2. Context(pp[S], epc[S], pie[S]).pc.level < 1
    BY <1>5, <1>6 DEF Context
  <2> QED BY <1>4, <2>1, <2>2 DEF Registers, Held
<1>11. InBody /\ Suspended
  BY <1>1, <1>4, <1>5, <1>6 DEF InBody, Suspended
<1> QED BY <1>3, <1>7, <1>8, <1>10, <1>11 DEF EInv

(* The firmware's trap registers are never overwritten while they hold the *)
(* only copy of what the firmware interrupted, whichever way the machine   *)
(* was booted: nothing is delivered in machine mode.                       *)
THEOREM FirmwareSafe == Spec => []MachineRegistersIntact
<1>1. EInv => MachineRegistersIntact
  BY DEF EInv
<1>2. EInv /\ [Next]_vars => EInv'
  BY StepKeepsEInv
<1> QED BY <1>1, <1>2, InitEInv, PTL DEF Spec

(* Every return to a lower level, by sret or by mret, in either boot,      *)
(* resumes exactly the privilege, the place and the interrupt enable that  *)
(* its handler interrupted.                                                *)
THEOREM ReturnsResume == Spec => ReturnsToInterrupted
<1>1. EInv /\ [Next]_vars => EInv'
  BY StepKeepsEInv
<1>2. EInv /\ [Next]_vars =>
        [pc'.level < pc.level =>
           Context(priv', pc', ie'[priv']) = interrupted[pc.level]]_vars
  BY StepKeepsEInv
<1> QED BY <1>1, <1>2, InitEInv, PTL DEF Spec, ReturnsToInterrupted
=============================================================================
