-------------------------------- MODULE Trap --------------------------------
(***************************************************************************)
(* Privilege and traps of one hart (lib/src/cpu/exception.dart, the        *)
(* interrupt check of CpuExecutor.execute, ecall) in the two ways a        *)
(* machine boots: a kernel entered directly, with the emulator serving SBI *)
(* and every trap delegated to it, or firmware in machine mode below the   *)
(* kernel.                                                                 *)
(*                                                                         *)
(* The guest is a nest of activations: a user program at level 0, and one  *)
(* handler more per level.  A supervisor handler goes through "entry"      *)
(* (nothing saved yet: the trap registers hold the only copy of what it    *)
(* interrupted), "body" and "exit" (trap registers reloaded for sret).     *)
(***************************************************************************)
EXTENDS Integers, FiniteSets

CONSTANTS Features,   \* what the firmware does besides timers
          MaxLevel    \* bound: levels at which the kernel lets itself be interrupted

ASSUME TrapAssumption ==
  /\ Features \subseteq {"ipi", "redirect"}
  /\ MaxLevel \in Nat \ {0}

VARIABLES
  firmware,  \* machine-mode firmware (BBL, OpenSBI) was loaded at boot
  priv,      \* privilege: 0 user, 1 supervisor, 3 machine
  pc,        \* what runs: its stage and its level
  ie,        \* mstatus bits 0, 1 and 3 (UIE, SIE, MIE) by privilege
  pie, pp,   \* SPIE, MPIE and SPP, MPP, by the privilege trapped to
  epc,       \* sepc, mepc
  cause,     \* scause, mcause
  mip, mie,  \* pending and enabled interrupts, as sets of bit numbers
  frame,     \* the kernel's saved trap registers, by level
  interrupted \* history: the context each level's handler interrupted

csrVars == <<ie, pie, pp, epc, cause>>
irqVars == <<mip, mie>>
memVars == <<frame, interrupted>>
vars == <<firmware, priv, pc, csrVars, irqVars, memVars>>

U == 0
S == 1
M == 3

SSI == 1
STI == 5
MTI == 7
SEI == 9

IllegalInsn == 2
UserEcall == 8
SupervisorEcall == 9
LoadPageFault == 13

mideleg == IF firmware THEN {SSI, STI, SEI} ELSE 0 .. 15
medeleg == IF firmware THEN {UserEcall, LoadPageFault} ELSE 0 .. 15

Levels == 1 .. MaxLevel + 1
Stages == {"user", "entry", "body", "exit", "fw"}
At(stage, level) == [at |-> stage, level |-> level]
Context(p, where, enabled) == [priv |-> p, pc |-> where, ie |-> enabled]
Interrupt(i) == [interrupt |-> TRUE, code |-> i]
Exception(e) == [interrupt |-> FALSE, code |-> e]
Nowhere == Context(U, At("user", 0), FALSE)

(* The kernel is about to enter its first user program for the first time. *)
Init ==
  /\ firmware \in BOOLEAN
  /\ priv = S /\ pc = At("exit", 1)
  /\ ie = [p \in {U, S, M} |-> FALSE]
  /\ pie = [p \in {S, M} |-> p = S]
  /\ pp = [p \in {S, M} |-> U]
  /\ epc = [p \in {S, M} |-> At("user", 0)]
  /\ cause = [p \in {S, M} |-> Exception(0)]
  /\ mip = {}
  /\ mie = {SSI, STI, SEI} \cup (IF firmware THEN {MTI} ELSE {})
  /\ frame = [l \in Levels |-> Nowhere]
  /\ interrupted = [l \in Levels |-> IF l = 1 THEN Context(U, At("user", 0), TRUE)
                                     ELSE Nowhere]

----------------------------------------------------------------------------
(* exception.dart.                                                         *)

(* Mutants of TrapTo: interrupts left enabled in the handler, the previous *)
(* enable forgotten.                                                       *)
TrapTo_KeepsEnable(m, stage, why) ==
  /\ cause' = [cause EXCEPT ![m] = why]
  /\ epc' = [epc EXCEPT ![m] = pc]
  /\ pp' = [pp EXCEPT ![m] = priv]
  /\ pie' = [pie EXCEPT ![m] = ie[priv]]
  /\ UNCHANGED ie
  /\ priv' = m
  /\ pc' = At(stage, pc.level + 1)
  /\ interrupted' = [interrupted EXCEPT ![pc.level + 1] = Context(priv, pc, ie[priv])]
  /\ UNCHANGED <<firmware, frame>>

TrapTo_NoPrevious(m, stage, why) ==
  /\ cause' = [cause EXCEPT ![m] = why]
  /\ epc' = [epc EXCEPT ![m] = pc]
  /\ pp' = [pp EXCEPT ![m] = priv]
  /\ UNCHANGED pie
  /\ ie' = [ie EXCEPT ![m] = FALSE]
  /\ priv' = m
  /\ pc' = At(stage, pc.level + 1)
  /\ interrupted' = [interrupted EXCEPT ![pc.level + 1] = Context(priv, pc, ie[priv])]
  /\ UNCHANGED <<firmware, frame>>

(* _trapToMachine and _trapToSupervisor: the enable bit saved is that of   *)
(* the interrupted privilege.                                              *)
TrapTo(m, stage, why) ==
  /\ cause' = [cause EXCEPT ![m] = why]
  /\ epc' = [epc EXCEPT ![m] = pc]
  /\ pp' = [pp EXCEPT ![m] = priv]
  /\ pie' = [pie EXCEPT ![m] = ie[priv]]
  /\ ie' = [ie EXCEPT ![m] = FALSE]
  /\ priv' = m
  /\ pc' = At(stage, pc.level + 1)
  /\ interrupted' = [interrupted EXCEPT ![pc.level + 1] = Context(priv, pc, ie[priv])]
  /\ UNCHANGED <<firmware, frame>>

(* Mutant of RaiseException: only user mode's traps are delegated.         *)
RaiseException_UserOnly(why) ==
  LET deleg == IF why.interrupt THEN mideleg ELSE medeleg
  IN IF priv < S /\ why.code \in deleg THEN TrapTo(S, "entry", why)
                                       ELSE TrapTo(M, "fw", why)

RaiseException(why) ==
  LET deleg == IF why.interrupt THEN mideleg ELSE medeleg
  IN IF priv <= S /\ why.code \in deleg THEN TrapTo(S, "entry", why)
                                        ELSE TrapTo(M, "fw", why)

(* Mutant of XRet: the enable bit is not restored.                         *)
XRet_KeepsEnable(m) ==
  /\ UNCHANGED ie
  /\ pie' = [pie EXCEPT ![m] = TRUE]
  /\ pp' = [pp EXCEPT ![m] = U]
  /\ priv' = pp[m]
  /\ pc' = epc[m]
  /\ UNCHANGED <<firmware, epc, cause>>

(* handleMret and handleSret: the previous enable goes to the bit of the   *)
(* privilege returned to.                                                  *)
XRet(m) ==
  /\ ie' = [ie EXCEPT ![pp[m]] = pie[m]]
  /\ pie' = [pie EXCEPT ![m] = TRUE]
  /\ pp' = [pp EXCEPT ![m] = U]
  /\ priv' = pp[m]
  /\ pc' = epc[m]
  /\ UNCHANGED <<firmware, epc, cause>>

Ready == mip \cap mie

HasPendingInterrupt ==
  \/ (priv < M \/ ie[M]) /\ Ready \ mideleg # {}
  \/ (priv < S \/ (priv = S /\ ie[S])) /\ Ready \cap mideleg # {}

(* handlePendingInterrupt: the lowest bit of mip & mie, whatever mstatus   *)
(* and mideleg say of it.                                                  *)
PendingInterrupt == CHOOSE i \in Ready : \A j \in Ready : i <= j

(* Handlers nested deeper than the bound are not followed; only interrupts *)
(* taken by a supervisor that has masked them could nest them so.          *)
TakeInterrupt ==
  /\ HasPendingInterrupt /\ pc.level <= MaxLevel
  /\ RaiseException(Interrupt(PendingInterrupt))
  /\ UNCHANGED irqVars

----------------------------------------------------------------------------
(* Sources of interrupts.                                                  *)

(* checkTimer past timecmp.                                                *)
TimerFires ==
  /\ mip' = mip \cup {IF firmware THEN MTI ELSE STI}
  /\ UNCHANGED <<firmware, priv, pc, csrVars, mie, memVars>>

(* The PLIC raises or drops its output.                                    *)
External ==
  /\ \/ SEI \notin mip /\ mip' = mip \cup {SEI}
     \/ SEI \in mip /\ mip' = mip \ {SEI}
  /\ UNCHANGED <<firmware, priv, pc, csrVars, mie, memVars>>

----------------------------------------------------------------------------
(* The guest.  An instruction executes when no interrupt is due.           *)
Executing(stage) == ~HasPendingInterrupt /\ pc.at = stage

UserTrap ==
  /\ Executing("user")
  /\ \E code \in {UserEcall, LoadPageFault} : RaiseException(Exception(code))
  /\ UNCHANGED irqVars

(* The kernel saves sepc and sstatus of what it interrupted ...            *)
Save ==
  /\ Executing("entry")
  /\ frame' = [frame EXCEPT ![pc.level] = Context(pp[S], epc[S], pie[S])]
  /\ pc' = At("body", pc.level)
  /\ UNCHANGED <<firmware, priv, csrVars, irqVars, interrupted>>

(* ... may let itself be interrupted while it works ...                    *)
SetSie(enabled) ==
  /\ Executing("body")
  /\ enabled => pc.level < MaxLevel
  /\ ie[S] # enabled
  /\ ie' = [ie EXCEPT ![S] = enabled]
  /\ UNCHANGED <<firmware, priv, pc, pie, pp, epc, cause, irqVars, memVars>>

(* ... or fault, copying from user memory ...                              *)
KernelFault ==
  /\ Executing("body") /\ pc.level < MaxLevel
  /\ RaiseException(Exception(LoadPageFault))
  /\ UNCHANGED irqVars

(* ... clears a software interrupt ...                                     *)
ClearSsi ==
  /\ Executing("body") /\ SSI \in mip
  /\ mip' = mip \ {SSI}
  /\ UNCHANGED <<firmware, priv, pc, csrVars, mie, memVars>>

(* ... and restores the registers, interrupts masked, for sret.            *)
Restore ==
  /\ Executing("body") /\ ~ie[S]
  /\ pp' = [pp EXCEPT ![S] = frame[pc.level].priv]
  /\ epc' = [epc EXCEPT ![S] = frame[pc.level].pc]
  /\ pie' = [pie EXCEPT ![S] = frame[pc.level].ie]
  /\ frame' = [frame EXCEPT ![pc.level] = Nowhere]
  /\ pc' = At("exit", pc.level)
  /\ UNCHANGED <<firmware, priv, ie, cause, irqVars, interrupted>>

Sret ==
  /\ Executing("exit")
  /\ XRet(S)
  /\ interrupted' = [interrupted EXCEPT ![pc.level] = Nowhere]
  /\ UNCHANGED <<irqVars, frame>>

(* An SBI call from the kernel: served in place (set_timer clears the      *)
(* pending timer interrupt and steps over the ecall), or trapped.          *)
SbiCall ==
  /\ Executing("body") /\ pc.level <= MaxLevel
  /\ \/ /\ ~firmware
        /\ mip' = mip \ {STI}
        /\ UNCHANGED <<firmware, priv, pc, csrVars, mie, memVars>>
     \/ firmware /\ RaiseException(Exception(SupervisorEcall)) /\ UNCHANGED irqVars

----------------------------------------------------------------------------
(* Firmware: one step of work with interrupts masked, then mret.           *)

Mret == XRet(M) /\ interrupted' = [interrupted EXCEPT ![pc.level] = Nowhere]

(* The machine timer interrupt is passed on and masked.                    *)
FwTimer ==
  /\ Executing("fw") /\ cause[M] = Interrupt(MTI)
  /\ mip' = mip \cup {STI}
  /\ mie' = mie \ {MTI}
  /\ Mret
  /\ UNCHANGED frame

(* set_timer: timecmp is written and the timer interrupt unmasked; an      *)
(* inter-processor interrupt to this hart.                                 *)
FwCall ==
  /\ Executing("fw") /\ cause[M] = Exception(SupervisorEcall)
  /\ \/ mip' = mip \ {STI, MTI} /\ mie' = mie \cup {MTI}
     \/ "ipi" \in Features /\ mip' = mip \cup {SSI} /\ UNCHANGED mie
  /\ Mret
  /\ UNCHANGED frame

(* An instruction a user program may not execute traps to the firmware ... *)
UserIllegal ==
  /\ Executing("user") /\ "redirect" \in Features
  /\ RaiseException(Exception(IllegalInsn))
  /\ UNCHANGED irqVars

(* ... which hands it on to the kernel as if the kernel had been trapped   *)
(* to: sepc and sstatus as the trap would have set them, then mret.        *)
FwRedirect ==
  /\ Executing("fw") /\ cause[M] = Exception(IllegalInsn)
  /\ epc' = [epc EXCEPT ![S] = epc[M], ![M] = At("entry", pc.level)]
  /\ pp' = [pp EXCEPT ![S] = U, ![M] = S]
  /\ pie' = [pie EXCEPT ![S] = pie[M]]
  /\ ie' = [ie EXCEPT ![S] = FALSE]
  /\ pc' = At("redirected", pc.level)
  /\ UNCHANGED <<firmware, priv, cause, irqVars, memVars>>

FwRedirectRet ==
  /\ Executing("redirected")
  /\ XRet(M)
  /\ UNCHANGED <<irqVars, memVars>>

----------------------------------------------------------------------------
Kernel == Save \/ (\E b \in BOOLEAN : SetSie(b)) \/ KernelFault \/ ClearSsi
          \/ Restore \/ Sret \/ SbiCall

FirmwareStep == FwTimer \/ FwCall \/ FwRedirect \/ FwRedirectRet

Next ==
  \/ TakeInterrupt
  \/ TimerFires \/ External
  \/ UserTrap \/ UserIllegal
  \/ Kernel
  \/ FirmwareStep

Spec == Init /\ [][Next]_vars

----------------------------------------------------------------------------
Locations == [at : Stages \cup {"redirected"}, level : 0 .. MaxLevel + 1]
Contexts == [priv : {U, S, M}, pc : Locations, ie : BOOLEAN]

TypeOK ==
  /\ priv \in {U, S, M} /\ pc \in Locations
  /\ ie \in [{U, S, M} -> BOOLEAN]
  /\ pie \in [{S, M} -> BOOLEAN]
  /\ pp \in [{S, M} -> {U, S, M}]
  /\ epc \in [{S, M} -> Locations]
  /\ cause \in [{S, M} -> [interrupt : BOOLEAN, code : 0 .. 15]]
  /\ mip \subseteq 0 .. 15 /\ mie \subseteq 0 .. 15
  /\ frame \in [Levels -> Contexts]
  /\ interrupted \in [Levels -> Contexts]

(* Booted directly, every trap reaches supervisor mode and nothing runs in *)
(* machine mode (_bootKernelDirectly).                                     *)
NeverMachine == ~firmware => priv # M

(* While sepc and the previous fields hold the only copy of the            *)
(* interrupted context they hold exactly that context: nothing traps over  *)
(* them between a trap and the kernel's saving of them, nor between their  *)
(* restoring and sret.  Of a kernel booted directly.                       *)
TrapRegistersIntact ==
  ~firmware /\ pc.at \in {"entry", "exit"} =>
    Context(pp[S], epc[S], pie[S]) = interrupted[pc.level]

(* The same for mepc and the firmware's handler.                           *)
MachineRegistersIntact ==
  pc.at = "fw" => Context(pp[M], epc[M], pie[M]) = interrupted[pc.level]

(* Booted directly, a handler starts, and ends, with interrupts masked.     *)
EntryMasked == ~firmware /\ pc.at \in {"entry", "exit"} => ~ie[S]

(* Returning to a lower level resumes what that handler interrupted: its   *)
(* privilege, its place and its interrupt enable.                          *)
ReturnsToInterrupted ==
  [][pc'.level < pc.level =>
       Context(priv', pc', ie'[priv']) = interrupted[pc.level]]_vars
=============================================================================
