----------------------------- MODULE VirtioQueue -----------------------------
(***************************************************************************)
(* One virtqueue of a VirtIO MMIO device                                   *)
(* (lib/src/device/virtio/virtio_device.dart) and the guest driver on the  *)
(* other side of the two rings.                                            *)
(*                                                                         *)
(* A store to QueueNotify runs the device's loop to completion before the  *)
(* guest executes anything else, so while `drain` holds the index the loop *)
(* runs to, only the loop takes steps.  A receive queue (manualRecv) has   *)
(* no such loop: the machine pushes into it between two runs of the CPU.   *)
(*                                                                         *)
(* The ring indices in guest memory are 16 bits wide (IdxModulus = 2^16);  *)
(* the device's own cursor lastAvailIdx is a Dart int that is only ever    *)
(* incremented or reset.                                                   *)
(***************************************************************************)
EXTENDS Integers, Sequences, FiniteSets

CONSTANTS IdxModulus,   \* 2^16 in the code: width of the ring indices
          Num,          \* QueueNum, a power of two
          Heads,        \* descriptor heads the driver uses
          NoHead,       \* content of a ring slot nobody has written
          Kinds,        \* kinds of chain the driver builds
          MaxPosts      \* bound: buffers posted between two resets

ASSUME QueueAssumption ==
  /\ Num \in Nat \ {0}
  /\ IdxModulus \in Nat /\ Num < IdxModulus /\ IdxModulus % Num = 0
  /\ NoHead \notin Heads
  /\ Kinds \subseteq {"whole", "runt"}
  /\ MaxPosts \in Nat

VARIABLES
  availIdx, availRing,  \* available ring, written by the driver
  usedIdx, usedRing,    \* used ring, written by the device
  chain,                \* kind of chain each head starts
  manualRecv,           \* QueueState.manualRecv, set when the device is made
  ready,                \* QueueState.ready
  lastAvailIdx,         \* QueueState.lastAvailIdx
  intStatus,            \* InterruptStatus, as the set of its bits
  line,                 \* level of the device's IrqSignal
  drain,                \* index a running _queueNotify drains to
  config,               \* a word of the device's configSpace
  pc, isr,              \* driver: where it is, InterruptStatus it has read
  posted,               \* driver: buffers published since the last reset
  numFree, inflight,    \* driver: free slots, heads the device may hold
  lastUsedIdx,          \* driver: used entries taken so far
  needNotify,           \* driver: published something not yet announced
  configSeen            \* driver: the configuration it believes in

ringVars == <<availIdx, availRing, usedIdx, usedRing, chain>>
irqVars  == <<intStatus, line>>
devVars  == <<manualRecv, ready, lastAvailIdx, drain, config>>
drvVars  == <<pc, isr, posted, numFree, inflight, lastUsedIdx, needNotify,
              configSeen>>
vars == <<ringVars, irqVars, devVars, drvVars>>

Slot(i) == i % Num
Next16(i) == (i + 1) % IdxModulus
NotDraining == -1

IntBits == {"used", "config"}
DriverPC == {"run", "filled", "ack", "config", "reap", "reset"}

----------------------------------------------------------------------------
(* The device.                                                             *)

Init ==
  /\ availIdx = 0 /\ availRing = [s \in 0 .. Num - 1 |-> NoHead]
  /\ usedIdx = 0 /\ usedRing = [s \in 0 .. Num - 1 |-> NoHead]
  /\ chain = [h \in Heads |-> "whole"]
  /\ manualRecv \in BOOLEAN
  /\ ready = FALSE /\ lastAvailIdx = 0 /\ drain = NotDraining
  /\ intStatus = {} /\ line = FALSE
  /\ config = 0 /\ configSeen = 0
  /\ pc = "reset" /\ isr = {} /\ posted = 0
  /\ numFree = Num /\ inflight = {} /\ lastUsedIdx = 0
  /\ needNotify = FALSE

(* Mutants of ConsumeDescriptor: the slot's number stored for the head,    *)
(* the status bit forgotten.                                               *)
ConsumeDescriptor_StoresSlot(head) ==
  /\ usedRing' = [usedRing EXCEPT ![Slot(usedIdx)] = Slot(usedIdx)]
  /\ usedIdx' = Next16(usedIdx)
  /\ intStatus' = intStatus \cup {"used"} /\ line' = TRUE

ConsumeDescriptor_NoStatus(head) ==
  /\ usedRing' = [usedRing EXCEPT ![Slot(usedIdx)] = head]
  /\ usedIdx' = Next16(usedIdx)
  /\ line' = TRUE /\ UNCHANGED intStatus

(* A used entry is published and the interrupt raised, whatever the        *)
(* driver has masked in the ring.                                          *)
ConsumeDescriptor(head) ==
  /\ usedRing' = [usedRing EXCEPT ![Slot(usedIdx)] = head]
  /\ usedIdx' = Next16(usedIdx)
  /\ intStatus' = intStatus \cup {"used"}
  /\ line' = TRUE

(* The head the device looks at next.                                      *)
NextHead == availRing[Slot(lastAvailIdx)]

(* Mutants of DrainStep: the cursor left in place, the loop left at the    *)
(* first chain the device refuses.                                         *)
DrainStep_NoAdvance ==
  /\ drain # NotDraining /\ lastAvailIdx # drain
  /\ ConsumeDescriptor(NextHead)
  /\ UNCHANGED <<availIdx, availRing, chain, devVars, drvVars>>

DrainStep_StopsAtRunt ==
  /\ drain # NotDraining /\ lastAvailIdx # drain
  /\ \/ /\ chain[NextHead] = "whole" /\ ConsumeDescriptor(NextHead)
        /\ lastAvailIdx' = lastAvailIdx + 1 /\ UNCHANGED drain
     \/ /\ chain[NextHead] = "runt" /\ drain' = NotDraining
        /\ UNCHANGED <<usedIdx, usedRing, irqVars, lastAvailIdx>>
  /\ UNCHANGED <<availIdx, availRing, chain, manualRecv, ready, config, drvVars>>

(* One round of the _queueNotify loop.  Every device handler either        *)
(* consumes the chain or returns without a used entry: a malformed chain,  *)
(* a frame of at most a header, a 9P message shorter than its header.      *)
DrainStep ==
  /\ drain # NotDraining
  /\ lastAvailIdx # drain
  /\ \/ chain[NextHead] = "whole" /\ ConsumeDescriptor(NextHead)
     \/ chain[NextHead] = "runt" /\ UNCHANGED <<usedIdx, usedRing, irqVars>>
  /\ lastAvailIdx' = lastAvailIdx + 1
  /\ UNCHANGED <<availIdx, availRing, chain, manualRecv, ready, drain, config,
                 drvVars>>

DrainEnd ==
  /\ drain # NotDraining
  /\ lastAvailIdx = drain
  /\ drain' = NotDraining
  /\ UNCHANGED <<ringVars, irqVars, manualRecv, ready, lastAvailIdx,
                 config, drvVars>>

(* canWriteData of the console, canReceivePacket of the network device.    *)
CanReceivePacket == ready /\ lastAvailIdx # availIdx

(* Mutant of HostInput: the cursor left in place.                          *)
HostInput_NoAdvance ==
  /\ manualRecv /\ drain = NotDraining /\ CanReceivePacket
  /\ ConsumeDescriptor(NextHead)
  /\ UNCHANGED <<availIdx, availRing, chain, devVars, drvVars>>

(* The machine pushes console input or a frame into a receive queue.       *)
HostInput ==
  /\ manualRecv /\ drain = NotDraining
  /\ CanReceivePacket
  /\ ConsumeDescriptor(NextHead)
  /\ lastAvailIdx' = lastAvailIdx + 1
  /\ UNCHANGED <<availIdx, availRing, chain, manualRecv, ready, drain, config,
                 drvVars>>

(* A terminal resize: it is not held back by ready or by a reset.          *)
ConfigChange ==
  /\ drain = NotDraining
  /\ config' = 1 - config
  /\ intStatus' = intStatus \cup {"config"}
  /\ line' = TRUE
  /\ UNCHANGED <<ringVars, manualRecv, ready, lastAvailIdx, drain, drvVars>>

(* Mutants of InterruptAck: the line dropped although a bit is left, all   *)
(* bits cleared whatever was acknowledged.                                 *)
InterruptAck_DropsLine(value) ==
  intStatus' = intStatus \ value /\ line' = FALSE

InterruptAck_ClearsAll(value) == intStatus' = {} /\ line' = FALSE

(* Store to InterruptACK: the line drops only when no bit is left.         *)
InterruptAck(value) ==
  /\ intStatus' = intStatus \ value
  /\ line' = IF intStatus \ value = {} THEN FALSE ELSE line

(* Mutant of Reset: the cursor survives.                                   *)
Reset_KeepsCursor ==
  ready' = FALSE /\ intStatus' = {} /\ line' = FALSE /\ UNCHANGED lastAvailIdx

(* Store of 0 to Status.                                                   *)
Reset ==
  /\ ready' = FALSE
  /\ lastAvailIdx' = 0
  /\ intStatus' = {}
  /\ line' = FALSE

----------------------------------------------------------------------------
(* The guest's driver: the order of ring and register accesses a virtio    *)
(* 1.x driver makes.  `pc` serialises it as the queue lock does.           *)

Driver(from) == drain = NotDraining /\ pc = from

\* Receive buffers are plain ones; a runt is something the driver sends.
Fill(h, kind) ==
  /\ manualRecv => kind = "whole"
  /\ Driver("run") /\ posted < MaxPosts /\ numFree > 0
  /\ h \notin inflight
  /\ availRing' = [availRing EXCEPT ![Slot(availIdx)] = h]
  /\ chain' = [chain EXCEPT ![h] = kind]
  /\ inflight' = inflight \cup {h}
  /\ numFree' = numFree - 1
  /\ pc' = "filled"
  /\ UNCHANGED <<availIdx, usedIdx, usedRing, irqVars, devVars, isr, posted,
                 lastUsedIdx, needNotify, configSeen>>

Publish ==
  /\ Driver("filled")
  /\ availIdx' = Next16(availIdx)
  /\ posted' = posted + 1
  /\ needNotify' = TRUE
  /\ pc' = "run"
  /\ UNCHANGED <<availRing, usedIdx, usedRing, chain, irqVars, devVars, isr,
                 numFree, inflight, lastUsedIdx, configSeen>>

(* Store to QueueNotify: the device samples the available index and        *)
(* starts its loop, unless the queue is one the machine fills.             *)
QueueNotify ==
  /\ Driver("run") /\ needNotify
  /\ needNotify' = FALSE
  /\ drain' = IF manualRecv THEN NotDraining ELSE availIdx
  /\ UNCHANGED <<ringVars, irqVars, manualRecv, ready, lastAvailIdx, config, pc,
                 isr, posted, numFree, inflight, lastUsedIdx, configSeen>>

IsrEnter ==
  /\ Driver("run") /\ line
  /\ isr' = intStatus
  /\ pc' = "ack"
  /\ UNCHANGED <<ringVars, irqVars, devVars, posted, numFree, inflight,
                 lastUsedIdx, needNotify, configSeen>>

IsrAck ==
  /\ Driver("ack")
  /\ InterruptAck(isr)
  /\ pc' = "config"
  /\ UNCHANGED <<ringVars, devVars, isr, posted, numFree, inflight,
                 lastUsedIdx, needNotify, configSeen>>

IsrConfig ==
  /\ Driver("config")
  /\ configSeen' = IF "config" \in isr THEN config ELSE configSeen
  /\ pc' = IF "used" \in isr THEN "reap" ELSE "run"
  /\ UNCHANGED <<ringVars, irqVars, devVars, isr, posted, numFree, inflight,
                 lastUsedIdx, needNotify>>

Reap ==
  /\ Driver("reap") /\ lastUsedIdx # usedIdx
  /\ inflight' = inflight \ {usedRing[Slot(lastUsedIdx)]}
  /\ numFree' = numFree + 1
  /\ lastUsedIdx' = Next16(lastUsedIdx)
  /\ UNCHANGED <<ringVars, irqVars, devVars, pc, isr, posted, needNotify,
                 configSeen>>

IsrExit ==
  /\ Driver("reap") /\ lastUsedIdx = usedIdx
  /\ pc' = "run"
  /\ UNCHANGED <<ringVars, irqVars, devVars, isr, posted, numFree, inflight,
                 lastUsedIdx, needNotify, configSeen>>

(* The driver resets the device, forgetting everything in flight ...       *)
DriverReset ==
  /\ Driver("run")
  /\ Reset
  /\ pc' = "reset"
  /\ posted' = 0 /\ numFree' = Num /\ inflight' = {} /\ needNotify' = FALSE
  /\ UNCHANGED <<ringVars, manualRecv, drain, config, isr, lastUsedIdx, configSeen>>

(* ... and later sets the queue up again over zeroed rings.                *)
Setup ==
  /\ Driver("reset")
  /\ availIdx' = 0 /\ availRing' = [s \in 0 .. Num - 1 |-> NoHead]
  /\ usedIdx' = 0 /\ usedRing' = [s \in 0 .. Num - 1 |-> NoHead]
  /\ lastUsedIdx' = 0
  /\ ready' = TRUE
  /\ configSeen' = config
  /\ pc' = "run"
  /\ UNCHANGED <<chain, irqVars, manualRecv, lastAvailIdx, drain, config, isr,
                 posted, numFree, inflight, needNotify>>

----------------------------------------------------------------------------
DrainLoop == DrainStep \/ DrainEnd

Handler == IsrEnter \/ IsrAck \/ IsrConfig \/ Reap \/ IsrExit

Next ==
  \/ DrainLoop
  \/ HostInput
  \/ ConfigChange
  \/ \E h \in Heads, k \in Kinds : Fill(h, k)
  \/ Publish
  \/ QueueNotify
  \/ Handler
  \/ DriverReset
  \/ Setup

Spec == Init /\ [][Next]_vars

(* The loop runs whenever it can; a guest announces what it published and  *)
(* services an interrupt line that stays high (InterruptPath shows that    *)
(* the machine delivers it).  The host promises no input, and it cannot    *)
(* keep the guest in its handler for ever: host events arrive only between *)
(* two runs of the CPU, each of many instructions, hence SF.               *)
Fairness == /\ WF_vars(DrainLoop)
            /\ WF_vars(Publish)
            /\ SF_vars(QueueNotify)
            /\ WF_vars(Handler)
            /\ WF_vars(Setup)

FairSpec == Spec /\ Fairness

----------------------------------------------------------------------------
(* Types.                                                                  *)
TypeOK ==
  /\ availIdx \in 0 .. IdxModulus - 1
  /\ usedIdx \in 0 .. IdxModulus - 1
  /\ availRing \in [0 .. Num - 1 -> Heads \cup {NoHead}]
  /\ usedRing \in [0 .. Num - 1 -> Heads \cup {NoHead}]
  /\ chain \in [Heads -> {"whole", "runt"}]
  /\ manualRecv \in BOOLEAN /\ ready \in BOOLEAN
  /\ lastAvailIdx \in Nat
  /\ intStatus \subseteq IntBits
  /\ line \in BOOLEAN
  /\ drain \in {NotDraining} \cup (0 .. IdxModulus - 1)
  /\ config \in {0, 1} /\ configSeen \in {0, 1}
  /\ pc \in DriverPC
  /\ isr \subseteq IntBits
  /\ posted \in Nat
  /\ numFree \in Int
  /\ inflight \subseteq Heads
  /\ lastUsedIdx \in 0 .. IdxModulus - 1
  /\ needNotify \in BOOLEAN

(* The device never looks at a slot the driver has not published since the *)
(* last reset: _queueNotify, writeData and receivePacket stop at the       *)
(* available index.                                                        *)
NeverAhead == lastAvailIdx <= posted

(* canReceivePacket says whether the receive queue has available           *)
(* descriptors: when it holds, one is published and not yet used.          *)
CanReceiveHasDescriptor == CanReceivePacket => lastAvailIdx < posted

(* Neither side laps the other: no available slot is refilled before the   *)
(* device read it, no used entry is overwritten before the driver took it. *)
NoLap == ready => /\ (availIdx - lastAvailIdx) % IdxModulus <= Num
                  /\ (usedIdx - lastUsedIdx) % IdxModulus <= Num

(* A used entry the driver has not taken is always one it will come to:    *)
(* the line is high, or the handler that read the "used" bit is still on   *)
(* its way to the ring.  The dangerous moment is a push by the host between *)
(* the driver's read of InterruptStatus, its ack and its ring walk.        *)
NoLostInterrupt ==
  ready /\ lastUsedIdx # usedIdx =>
    \/ line /\ "used" \in intStatus
    \/ pc \in {"ack", "config"} /\ "used" \in isr
    \/ pc = "reap"

(* The same for a configuration change (a resized terminal).               *)
NoLostConfig ==
  config # configSeen =>
    \/ line /\ "config" \in intStatus
    \/ pc \in {"ack", "config"} /\ "config" \in isr
    \/ pc = "reset"

(* A buffer the device answers comes back to the driver; a receive queue   *)
(* promises none, for the host promises no input.                          *)
BufferReturns ==
  \A h \in Heads :
    (~manualRecv /\ h \in inflight /\ chain[h] = "whole") ~> (h \notin inflight)

(* A pushed input reaches the driver.                                      *)
UsedEntrySeen == (ready /\ lastUsedIdx # usedIdx) ~> (lastUsedIdx = usedIdx)

(* The rings implement RequestQueue: pending is what lies between the      *)
(* device's cursor and the available index, done what lies between the     *)
(* driver's cursor and the used index.                                     *)
Buffers(ring, from, to) ==
  IF ready
  THEN [k \in 1 .. (to - from) % IdxModulus |->
          [head |-> ring[Slot(from + k - 1)],
           kind |-> chain[ring[Slot(from + k - 1)]]]]
  ELSE <<>>

Promise == INSTANCE RequestQueue WITH
  Buffer <- [head : Heads, kind : Kinds],
  pending <- Buffers(availRing, lastAvailIdx, availIdx),
  done <- Buffers(usedRing, lastUsedIdx, usedIdx)

ImplementsRequestQueue == Promise!Spec
=============================================================================
