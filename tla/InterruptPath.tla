---------------------------- MODULE InterruptPath ----------------------------
(***************************************************************************)
(* From a device's used entry to the guest's driver: VirtIO devices, the   *)
(* PLIC, the hart's WFI sleep and RiscVMachine.step, with the guest's      *)
(* external-interrupt handler on the far side.                             *)
(*                                                                         *)
(* The machine alternates between polling its hosts (phase "poll") and     *)
(* running the CPU for some number of instructions (phase "run"); device   *)
(* input arrives only while polling, a device the guest notifies answers   *)
(* inside the store that notifies it.                                      *)
(***************************************************************************)
EXTENDS Plic

CONSTANT MaxEvents      \* bound: used entries each device ever produces

ASSUME EventsAssumption == MaxEvents \in Nat

VARIABLES
  work,       \* used entries of each device its driver has not taken
  events,     \* used entries each device has produced, for the bound
  status,     \* device has a bit set in InterruptStatus
  phase,      \* "poll" | "run": inside or outside CpuExecutor.execute
  powerDown,  \* RiscVCpuState.powerDown: the hart sleeps in WFI
  sie,        \* mstatus.SIE; the guest keeps mie.SEIE set
  gpc,        \* guest: where it is
  cur         \* guest: the interrupt it has claimed

devVars  == <<work, events, status>>
cpuVars  == <<phase, powerDown, sie>>
vars == <<plicVars, devVars, cpuVars, gpc, cur>>

GuestPC == {"main", "claim", "isr", "reap", "complete"}

Init ==
  /\ PlicInit
  /\ work = [d \in Sources |-> 0] /\ events = [d \in Sources |-> 0]
  /\ status = [d \in Sources |-> FALSE]
  /\ phase = "poll" /\ powerDown = FALSE /\ sie = FALSE
  /\ gpc = "main" /\ cur = 0

----------------------------------------------------------------------------
(* Devices.                                                                *)

(* consumeDescriptor: a used entry, the status bit, the line.              *)
UsedEntry(d) ==
  /\ events[d] < MaxEvents
  /\ events' = [events EXCEPT ![d] = @ + 1]
  /\ work' = [work EXCEPT ![d] = @ + 1]
  /\ status' = [status EXCEPT ![d] = TRUE]
  /\ SetIrqLevel(d, TRUE)

(* Store of every set bit to InterruptACK.                                 *)
InterruptAck(d) ==
  /\ status' = [status EXCEPT ![d] = FALSE]
  /\ SetIrqLevel(d, FALSE)
  /\ UNCHANGED <<work, events>>

----------------------------------------------------------------------------
(* The machine.                                                            *)

(* _pollConsoleInput and _pollNetworkInput find input for device d.        *)
PollInput(d) ==
  /\ phase = "poll"
  /\ UsedEntry(d)
  /\ UNCHANGED <<cpuVars, gpc, cur>>

(* Mutant of EnterCpu: the sleeping hart wakes only for an interrupt it    *)
(* would take.                                                             *)
EnterCpu_WakesIfEnabled ==
  /\ phase = "poll"
  /\ ~powerDown \/ (mip /\ sie)
  /\ powerDown' = FALSE /\ phase' = "run"
  /\ UNCHANGED <<plicVars, devVars, sie, gpc, cur>>

(* The rest of step: a sleeping hart wakes if an enabled interrupt is      *)
(* pending, whether or not mstatus lets it be taken; otherwise step        *)
(* returns without running the CPU.                                        *)
EnterCpu ==
  /\ phase = "poll"
  /\ ~powerDown \/ mip
  /\ powerDown' = FALSE
  /\ phase' = "run"
  /\ UNCHANGED <<plicVars, devVars, sie, gpc, cur>>

(* execute's cycle budget is used up.                                      *)
LeaveCpu ==
  /\ phase = "run"
  /\ phase' = "poll"
  /\ UNCHANGED <<plicVars, devVars, powerDown, sie, gpc, cur>>

(* execute finds a pending interrupt before an instruction, takes the trap *)
(* and returns.                                                            *)
TakeInterrupt ==
  /\ phase = "run" /\ mip /\ sie
  /\ sie' = FALSE
  /\ gpc' = "claim"
  /\ phase' = "poll"
  /\ UNCHANGED <<plicVars, devVars, powerDown, cur>>

(* The guest executes an instruction: no interrupt is due.                 *)
Executing(at) == phase = "run" /\ ~(mip /\ sie) /\ gpc = at

(* wfi: sleep unless an enabled interrupt is already pending, and leave    *)
(* execute when asleep.                                                    *)
Wfi ==
  /\ Executing("main")
  /\ powerDown' = ~mip
  /\ phase' = IF mip THEN "run" ELSE "poll"
  /\ UNCHANGED <<plicVars, devVars, sie, gpc, cur>>

----------------------------------------------------------------------------
(* The guest kernel: an idle loop that masks and unmasks interrupts, and   *)
(* the PLIC handler, which claims until nothing is left.                   *)

(* The kernel masks or unmasks interrupts; it idles (wfi) with them masked.*)
Unmask ==
  /\ Executing("main") /\ ~sie
  /\ sie' = TRUE
  /\ UNCHANGED <<plicVars, devVars, phase, powerDown, gpc, cur>>

Mask ==
  /\ Executing("main") /\ sie
  /\ sie' = FALSE
  /\ UNCHANGED <<plicVars, devVars, phase, powerDown, gpc, cur>>

(* A driver notifies its device, which answers at once.                    *)
Notify(d) ==
  /\ Executing("main")
  /\ UsedEntry(d)
  /\ UNCHANGED <<cpuVars, gpc, cur>>

GuestClaim ==
  /\ Executing("claim")
  /\ Claim
  /\ cur' = ClaimedIrq
  /\ IF ClaimedIrq = 0 THEN gpc' = "main" /\ sie' = TRUE   \* sret
                       ELSE gpc' = "isr" /\ UNCHANGED sie
  /\ UNCHANGED <<devVars, phase, powerDown>>

(* The driver's handler acknowledges what it finds, or finds nothing.      *)
GuestAck ==
  /\ Executing("isr")
  /\ \/ status[cur] /\ InterruptAck(cur) /\ gpc' = "reap"
     \/ ~status[cur] /\ gpc' = "complete" /\ UNCHANGED <<plicVars, devVars>>
  /\ UNCHANGED <<cpuVars, cur>>

GuestReap ==
  /\ Executing("reap")
  /\ \/ /\ work[cur] > 0
        /\ work' = [work EXCEPT ![cur] = @ - 1]
        /\ UNCHANGED gpc
     \/ work[cur] = 0 /\ gpc' = "complete" /\ UNCHANGED work
  /\ UNCHANGED <<plicVars, events, status, cpuVars, cur>>

GuestComplete ==
  /\ Executing("complete")
  /\ Complete(cur)
  /\ gpc' = "claim"
  /\ UNCHANGED <<devVars, cpuVars, cur>>

Handler == GuestClaim \/ GuestAck \/ GuestReap \/ GuestComplete

Next ==
  \/ \E d \in Sources : PollInput(d) \/ Notify(d)
  \/ EnterCpu \/ LeaveCpu \/ TakeInterrupt
  \/ Wfi \/ Unmask \/ Mask
  \/ Handler

Spec == Init /\ [][Next]_vars

(* The embedder keeps calling step; the CPU runs at least one instruction  *)
(* per call, so what the guest can do again and again it does, and a       *)
(* kernel does not keep interrupts masked for ever.  Nothing makes the     *)
(* host or the guest produce events, or the guest mask or sleep.           *)
Fairness ==
  /\ WF_vars(EnterCpu)
  /\ WF_vars(LeaveCpu)
  /\ SF_vars(TakeInterrupt)
  /\ SF_vars(Handler)
  /\ SF_vars(Unmask)

FairSpec == Spec /\ Fairness

----------------------------------------------------------------------------
TypeOK ==
  /\ pending \subseteq Sources /\ served \subseteq Sources
  /\ mip \in BOOLEAN
  /\ work \in [Sources -> Nat] /\ events \in [Sources -> Nat]
  /\ status \in [Sources -> BOOLEAN]
  /\ phase \in {"poll", "run"} /\ powerDown \in BOOLEAN /\ sie \in BOOLEAN
  /\ gpc \in GuestPC /\ cur \in Sources \cup {0}

(* mip shows an external interrupt exactly while some source is pending    *)
(* and unserved: no operation of the PLIC leaves it stale.                 *)
MipIsCurrent == mip <=> Claimable # {}

(* Untaken work is always on its way: its source is pending (and will be   *)
(* claimed once the current claim is completed) or its driver is about to  *)
(* walk the ring.                                                          *)
NoLostWork ==
  \A d \in Sources : work[d] > 0 => d \in pending \/ (cur = d /\ gpc = "reap")

(* A source is held by at most one activation of its handler: only the     *)
(* claim being handled is in service, and none is left behind when the     *)
(* handler returns.                                                        *)
ServedIsCurrent ==
  served = IF gpc \in {"isr", "reap", "complete"} THEN {cur} ELSE {}

(* Every used entry is taken by its driver, across sleeps, masked          *)
(* sections and the handling of other sources.                             *)
WorkIsTaken == \A d \in Sources : work[d] > 0 ~> work[d] = 0
=============================================================================
