-------------------------- MODULE VirtioQueueProofs --------------------------
(***************************************************************************)
(* Theorems about VirtioQueue, for every ring size, index width, set of    *)
(* heads and kind of queue: types and the two no-lost-interrupt invariants *)
(* without any bound; the cursor invariants while fewer buffers are posted *)
(* between two resets than the ring indices can count (the violation run   *)
(* virtio_index_wrap shows that they fail beyond that).  Last, and under   *)
(* the same hypothesis, the whole module implements RequestQueue: every    *)
(* step of device, driver and host is one of the queue's steps, or none.   *)
(***************************************************************************)
EXTENDS VirtioQueue, SequenceTheorems, TLAPS

(* Reducing a number modulo m leaves one of 0 .. m-1.                      *)
LEMMA ModRange ==
  ASSUME NEW a \in Int, NEW m \in Nat \ {0}
  PROVE  a % m \in 0 .. m - 1
OBVIOUS

(* A number already below m is its own remainder.                          *)
LEMMA ModSmall ==
  ASSUME NEW a \in Nat, NEW m \in Nat \ {0}, a < m
  PROVE  a % m = a
OBVIOUS

(* Ring slots and 16-bit indices stay in range.                            *)
LEMMA IndexTypes ==
  /\ \A i \in Int : Slot(i) \in 0 .. Num - 1
  /\ \A i \in Int : Next16(i) \in 0 .. IdxModulus - 1
  /\ 0 \in 0 .. IdxModulus - 1
<1>1. Num \in Nat \ {0} /\ IdxModulus \in Nat \ {0}
  BY QueueAssumption
<1>2. \A i \in Int : Slot(i) \in 0 .. Num - 1
  BY <1>1, ModRange DEF Slot
<1>3. \A i \in Int : Next16(i) \in 0 .. IdxModulus - 1
  <2> TAKE i \in Int
  <2>1. i + 1 \in Int
    OBVIOUS
  <2> QED BY <1>1, <2>1, ModRange DEF Next16
<1> QED BY <1>1, <1>2, <1>3

-----------------------------------------------------------------------------
(* Types.                                                                  *)

(* Answering a head the ring can hold keeps the types of what it writes.   *)
LEMMA ConsumeType ==
  ASSUME TypeOK, NEW head \in Heads \cup {NoHead}, ConsumeDescriptor(head)
  PROVE  /\ usedIdx' \in 0 .. IdxModulus - 1
         /\ usedRing' \in [0 .. Num - 1 -> Heads \cup {NoHead}]
         /\ intStatus' \subseteq IntBits
         /\ line' \in BOOLEAN
<1>1. usedIdx \in Int
  BY QueueAssumption DEF TypeOK
<1>2. usedIdx' \in 0 .. IdxModulus - 1
  BY <1>1, IndexTypes DEF ConsumeDescriptor
<1>3. usedRing' \in [0 .. Num - 1 -> Heads \cup {NoHead}]
  BY DEF TypeOK, ConsumeDescriptor
<1> QED BY <1>2, <1>3 DEF TypeOK, ConsumeDescriptor, IntBits

(* What the device reads from the available ring is a ring entry.          *)
LEMMA NextHeadType ==
  ASSUME TypeOK
  PROVE  NextHead \in Heads \cup {NoHead}
<1>1. lastAvailIdx \in Int
  BY DEF TypeOK
<1>2. Slot(lastAvailIdx) \in 0 .. Num - 1
  BY <1>1, IndexTypes
<1> QED BY <1>2 DEF TypeOK, NextHead

(* Every step keeps the types.                                             *)
LEMMA TypeStep == TypeOK /\ [Next]_vars => TypeOK'
<1> SUFFICES ASSUME TypeOK, [Next]_vars PROVE TypeOK'
  OBVIOUS
<1> USE DEF DriverPC, IntBits, NotDraining
<1>1. CASE DrainStep
  <2>1. CASE ConsumeDescriptor(NextHead)
    BY <1>1, <2>1, ConsumeType, NextHeadType
    DEF DrainStep, TypeOK, drvVars
  <2>2. CASE UNCHANGED <<usedIdx, usedRing, irqVars>>
    BY <1>1, <2>2 DEF DrainStep, TypeOK, irqVars, drvVars
  <2> QED BY <1>1, <2>1, <2>2 DEF DrainStep
<1>2. CASE DrainEnd
  BY <1>2 DEF DrainEnd, TypeOK, ringVars, irqVars, drvVars
<1>3. CASE HostInput
  BY <1>3, ConsumeType, NextHeadType DEF HostInput, TypeOK, drvVars
<1>4. CASE ConfigChange
  BY <1>4 DEF ConfigChange, TypeOK, ringVars, drvVars
<1>5. ASSUME NEW h \in Heads, NEW k \in Kinds, Fill(h, k) PROVE TypeOK'
  <2>1. k \in {"whole", "runt"}
    BY QueueAssumption
  <2>2. availRing' \in [0 .. Num - 1 -> Heads \cup {NoHead}]
    BY <1>5 DEF Fill, TypeOK
  <2>3. chain' \in [Heads -> {"whole", "runt"}]
    BY <1>5, <2>1 DEF Fill, TypeOK
  <2> QED BY <1>5, <2>2, <2>3 DEF Fill, TypeOK, irqVars, devVars
<1>6. CASE Publish
  <2>1. availIdx \in Int
    BY QueueAssumption DEF TypeOK
  <2>2. availIdx' \in 0 .. IdxModulus - 1
    BY <1>6, <2>1, IndexTypes DEF Publish
  <2> QED BY <1>6, <2>2 DEF Publish, TypeOK, irqVars, devVars
<1>7. CASE QueueNotify
  BY <1>7 DEF QueueNotify, TypeOK, ringVars, irqVars
<1>8. CASE IsrEnter
  BY <1>8 DEF IsrEnter, TypeOK, ringVars, irqVars, devVars
<1>9. CASE IsrAck
  BY <1>9 DEF IsrAck, InterruptAck, TypeOK, ringVars, devVars
<1>10. CASE IsrConfig
  BY <1>10 DEF IsrConfig, TypeOK, ringVars, irqVars, devVars
<1>11. CASE Reap
  <2>1. lastUsedIdx \in Int
    BY QueueAssumption DEF TypeOK
  <2>2. lastUsedIdx' \in 0 .. IdxModulus - 1
    BY <1>11, <2>1, IndexTypes DEF Reap
  <2> QED BY <1>11, <2>2 DEF Reap, TypeOK, ringVars, irqVars, devVars
<1>12. CASE IsrExit
  BY <1>12 DEF IsrExit, TypeOK, ringVars, irqVars, devVars
<1>13. CASE DriverReset
  <2>1. Num \in Int
    BY QueueAssumption
  <2> QED BY <1>13, <2>1 DEF DriverReset, Reset, TypeOK, ringVars
<1>14. CASE Setup
  <2>1. /\ availRing' \in [0 .. Num - 1 -> Heads \cup {NoHead}]
        /\ usedRing' \in [0 .. Num - 1 -> Heads \cup {NoHead}]
    BY <1>14 DEF Setup
  <2> QED BY <1>14, <2>1, IndexTypes DEF Setup, TypeOK, irqVars
<1>15. CASE UNCHANGED vars
  BY <1>15 DEF vars, ringVars, irqVars, devVars, drvVars, TypeOK
<1> QED
  BY <1>1, <1>2, <1>3, <1>4, <1>5, <1>6, <1>7, <1>8, <1>9, <1>10, <1>11,
     <1>12, <1>13, <1>14, <1>15 DEF Next, DrainLoop, Handler

(* The variables keep their types, whatever the bounds: in particular the  *)
(* ring indices stay within 16 bits and lastAvailIdx is never negative.    *)
THEOREM TypeCorrect == Spec => []TypeOK
<1>1. Init => TypeOK
  <2> SUFFICES ASSUME Init PROVE TypeOK
    OBVIOUS
  <2>1. Num \in Int
    BY QueueAssumption
  <2>2. /\ availRing \in [0 .. Num - 1 -> Heads \cup {NoHead}]
        /\ usedRing \in [0 .. Num - 1 -> Heads \cup {NoHead}]
        /\ chain \in [Heads -> {"whole", "runt"}]
    BY DEF Init
  <2> QED BY <2>1, <2>2, IndexTypes
          DEF Init, TypeOK, DriverPC, IntBits, NotDraining
<1> QED BY <1>1, TypeStep, PTL DEF Spec

-----------------------------------------------------------------------------
(* Interrupts.  The two invariants need no strengthening: whatever makes   *)
(* an entry or a change unseen raises the bit and the line in the same     *)
(* step, and the driver only drops a bit it has copied to isr.             *)

NoLost == NoLostInterrupt /\ NoLostConfig

LEMMA NoLostStep == NoLost /\ [Next]_vars => NoLost'
<1> SUFFICES ASSUME NoLost, [Next]_vars PROVE NoLost'
  OBVIOUS
<1> USE DEF NoLost, NoLostInterrupt, NoLostConfig
<1>1. CASE DrainStep
  BY <1>1 DEF DrainStep, ConsumeDescriptor, irqVars, drvVars
<1>2. CASE DrainEnd
  BY <1>2 DEF DrainEnd, ringVars, irqVars, drvVars
<1>3. CASE HostInput
  BY <1>3 DEF HostInput, ConsumeDescriptor, drvVars
<1>4. CASE ConfigChange
  BY <1>4 DEF ConfigChange, ringVars, drvVars
<1>5. ASSUME NEW h \in Heads, NEW k \in Kinds, Fill(h, k) PROVE NoLost'
  BY <1>5 DEF Fill, Driver, irqVars, devVars
<1>6. CASE Publish
  BY <1>6 DEF Publish, Driver, irqVars, devVars
<1>7. CASE QueueNotify
  BY <1>7 DEF QueueNotify, ringVars, irqVars
<1>8. CASE IsrEnter
  BY <1>8 DEF IsrEnter, Driver, ringVars, irqVars, devVars
<1>9. CASE IsrAck
  BY <1>9 DEF IsrAck, InterruptAck, Driver, ringVars, devVars
<1>10. CASE IsrConfig
  BY <1>10 DEF IsrConfig, Driver, ringVars, irqVars, devVars
<1>11. CASE Reap
  BY <1>11 DEF Reap, Driver, ringVars, irqVars, devVars
<1>12. CASE IsrExit
  BY <1>12 DEF IsrExit, Driver, ringVars, irqVars, devVars
<1>13. CASE DriverReset
  BY <1>13 DEF DriverReset, Reset, ringVars
<1>14. CASE Setup
  BY <1>14 DEF Setup, irqVars
<1>15. CASE UNCHANGED vars
  BY <1>15 DEF vars, ringVars, irqVars, devVars, drvVars
<1> QED
  BY <1>1, <1>2, <1>3, <1>4, <1>5, <1>6, <1>7, <1>8, <1>9, <1>10, <1>11,
     <1>12, <1>13, <1>14, <1>15 DEF Next, DrainLoop, Handler

(* No used entry goes unseen: NoLostInterrupt holds in every reachable     *)
(* state, for every instance of the constants.                             *)
THEOREM InterruptsKept == Spec => []NoLostInterrupt
<1>1. Init => NoLost
  BY DEF Init, NoLost, NoLostInterrupt, NoLostConfig
<1>2. NoLost => NoLostInterrupt
  BY DEF NoLost
<1> QED BY <1>1, <1>2, NoLostStep, PTL DEF Spec

(* No configuration change goes unseen either.                             *)
THEOREM ConfigChangesKept == Spec => []NoLostConfig
<1>1. Init => NoLost
  BY DEF Init, NoLost, NoLostInterrupt, NoLostConfig
<1>2. NoLost => NoLostConfig
  BY DEF NoLost
<1> QED BY <1>1, <1>2, NoLostStep, PTL DEF Spec

-----------------------------------------------------------------------------
(* Cursors.  Below the wrap the four cursors are ordered                   *)
(*     lastUsedIdx <= usedIdx <= lastAvailIdx <= availIdx = posted         *)
(* and the driver's free count ties the two ends together.                 *)

Filled == IF pc = "filled" THEN 1 ELSE 0

Cursors ==
  /\ ready <=> (pc # "reset")
  /\ posted + Filled <= MaxPosts
  /\ lastAvailIdx <= posted
  /\ drain # NotDraining =>
       pc = "run" /\ lastAvailIdx <= drain /\ drain <= posted
  /\ pc # "reset" =>
       /\ availIdx = posted
       /\ lastUsedIdx <= usedIdx /\ usedIdx <= lastAvailIdx
       /\ posted + Filled = lastUsedIdx + Num - numFree
  /\ pc = "reset" => posted = 0 /\ lastAvailIdx = 0 /\ numFree = Num
  /\ numFree >= 0

(* The next 16-bit index is the successor while the bound is not reached.  *)
LEMMA NoWrap ==
  ASSUME MaxPosts < IdxModulus, NEW i \in Nat, i + 1 <= MaxPosts
  PROVE  Next16(i) = i + 1
<1>1. IdxModulus \in Nat \ {0} /\ i + 1 \in Nat /\ i + 1 < IdxModulus
  BY QueueAssumption
<1> QED BY <1>1, ModSmall DEF Next16

LEMMA CursorsStep ==
  ASSUME MaxPosts < IdxModulus, TypeOK, Cursors, [Next]_vars
  PROVE  Cursors'
<1>0. /\ Num \in Nat /\ MaxPosts \in Nat /\ IdxModulus \in Nat
      /\ availIdx \in Nat /\ usedIdx \in Nat /\ lastUsedIdx \in Nat
      /\ lastAvailIdx \in Nat /\ posted \in Nat /\ numFree \in Int
      /\ drain \in Int /\ ready \in BOOLEAN /\ Filled \in {0, 1}
  BY QueueAssumption DEF TypeOK, NotDraining, Filled
<1>1. CASE DrainStep
  <2>1. pc = "run" /\ lastAvailIdx < drain /\ drain <= posted
    BY <1>0, <1>1 DEF DrainStep, Cursors
  <2>2. UNCHANGED <<availIdx, lastUsedIdx, ready, drain, pc, posted, numFree>>
    BY <1>1 DEF DrainStep, drvVars
  <2>3. lastAvailIdx' = lastAvailIdx + 1
    BY <1>1 DEF DrainStep
  <2>4. usedIdx' = usedIdx \/ usedIdx' = usedIdx + 1
    <3>1. usedIdx + 1 <= MaxPosts
      BY <1>0, <2>1 DEF Cursors
    <3> QED BY <1>0, <1>1, <3>1, NoWrap DEF DrainStep, ConsumeDescriptor
  <2> QED BY <1>0, <2>1, <2>2, <2>3, <2>4 DEF Cursors, Filled
<1>2. CASE DrainEnd
  BY <1>0, <1>2 DEF DrainEnd, Cursors, Filled, ringVars, drvVars
<1>3. CASE HostInput
  <2>1. /\ ready /\ lastAvailIdx # availIdx /\ drain = NotDraining
        /\ lastAvailIdx' = lastAvailIdx + 1
        /\ UNCHANGED <<availIdx, lastUsedIdx, ready, drain, pc, posted, numFree>>
    BY <1>3 DEF HostInput, CanReceivePacket, drvVars
  <2>2. lastAvailIdx < posted /\ pc # "reset"
    BY <1>0, <2>1 DEF Cursors
  <2>3. usedIdx' = usedIdx + 1
    <3>1. usedIdx + 1 <= MaxPosts
      BY <1>0, <2>2 DEF Cursors
    <3> QED BY <1>0, <1>3, <3>1, NoWrap DEF HostInput, ConsumeDescriptor
  <2> QED BY <1>0, <2>1, <2>2, <2>3 DEF Cursors, Filled
<1>4. CASE ConfigChange
  BY <1>4 DEF ConfigChange, Cursors, Filled, ringVars, drvVars
<1>5. ASSUME NEW h \in Heads, NEW k \in Kinds, Fill(h, k) PROVE Cursors'
  <2>1. /\ pc = "run" /\ pc' = "filled" /\ drain = NotDraining
        /\ posted < MaxPosts /\ numFree > 0 /\ numFree' = numFree - 1
        /\ UNCHANGED <<availIdx, usedIdx, lastUsedIdx, ready, lastAvailIdx,
                       drain, posted>>
    BY <1>5 DEF Fill, Driver, devVars
  <2> QED BY <1>0, <2>1 DEF Cursors, Filled
<1>6. CASE Publish
  <2>1. /\ pc = "filled" /\ pc' = "run" /\ drain = NotDraining
        /\ posted' = posted + 1
        /\ UNCHANGED <<usedIdx, lastUsedIdx, ready, lastAvailIdx, drain, numFree>>
    BY <1>6 DEF Publish, Driver, devVars
  <2>2. availIdx = posted /\ posted + 1 <= MaxPosts
    BY <1>0, <2>1 DEF Cursors, Filled
  <2>3. availIdx' = availIdx + 1
    BY <1>0, <1>6, <2>2, NoWrap DEF Publish
  <2> QED BY <1>0, <2>1, <2>2, <2>3 DEF Cursors, Filled
<1>7. CASE QueueNotify
  <2>1. /\ pc = "run" /\ drain' \in {NotDraining, availIdx}
        /\ UNCHANGED <<availIdx, usedIdx, lastUsedIdx, ready, lastAvailIdx,
                       posted, pc, numFree>>
    BY <1>7 DEF QueueNotify, Driver, ringVars
  <2> QED BY <1>0, <2>1 DEF Cursors, Filled
<1>8. CASE IsrEnter \/ IsrAck \/ IsrConfig \/ IsrExit
  <2>1. /\ pc \notin {"filled", "reset"} /\ pc' \notin {"filled", "reset"}
        /\ drain = NotDraining
        /\ UNCHANGED <<availIdx, usedIdx, lastUsedIdx, ready, lastAvailIdx,
                       drain, posted, numFree>>
    BY <1>8 DEF IsrEnter, IsrAck, IsrConfig, IsrExit, Driver, ringVars, devVars
  <2> QED BY <1>0, <2>1 DEF Cursors, Filled
<1>9. CASE Reap
  <2>1. /\ pc = "reap" /\ drain = NotDraining /\ lastUsedIdx # usedIdx
        /\ numFree' = numFree + 1
        /\ UNCHANGED <<availIdx, usedIdx, ready, lastAvailIdx, drain, posted, pc>>
    BY <1>9 DEF Reap, Driver, ringVars, devVars
  <2>2. lastUsedIdx < usedIdx /\ lastUsedIdx + 1 <= MaxPosts
    BY <1>0, <2>1 DEF Cursors
  <2>3. lastUsedIdx' = lastUsedIdx + 1
    BY <1>0, <1>9, <2>2, NoWrap DEF Reap
  <2> QED BY <1>0, <2>1, <2>2, <2>3 DEF Cursors, Filled
<1>10. CASE DriverReset
  <2>1. /\ pc' = "reset" /\ ready' = FALSE /\ lastAvailIdx' = 0
        /\ posted' = 0 /\ numFree' = Num /\ drain = NotDraining
        /\ drain' = drain
    BY <1>10 DEF DriverReset, Reset, Driver
  <2> QED BY <1>0, <2>1 DEF Cursors, Filled
<1>11. CASE Setup
  <2>1. /\ pc = "reset" /\ pc' = "run" /\ ready' = TRUE
        /\ availIdx' = 0 /\ usedIdx' = 0 /\ lastUsedIdx' = 0
        /\ drain = NotDraining
        /\ UNCHANGED <<lastAvailIdx, drain, posted, numFree>>
    BY <1>11 DEF Setup, Driver
  <2> QED BY <1>0, <2>1 DEF Cursors, Filled
<1>12. CASE UNCHANGED vars
  BY <1>12 DEF vars, ringVars, devVars, drvVars, Cursors, Filled
<1> QED
  BY <1>1, <1>2, <1>3, <1>4, <1>5, <1>6, <1>7, <1>8, <1>9, <1>10, <1>11,
     <1>12 DEF Next, DrainLoop, Handler

(* What the cursors' order says of the three properties the runs check.    *)
LEMMA CursorsImply ==
  ASSUME MaxPosts < IdxModulus, TypeOK, Cursors
  PROVE  NeverAhead /\ NoLap /\ CanReceiveHasDescriptor
<1>0. /\ Num \in Nat /\ MaxPosts \in Nat /\ IdxModulus \in Nat \ {0}
      /\ Num < IdxModulus
      /\ availIdx \in Nat /\ usedIdx \in Nat /\ lastUsedIdx \in Nat
      /\ lastAvailIdx \in Nat /\ posted \in Nat /\ numFree \in Int
      /\ ready \in BOOLEAN /\ Filled \in {0, 1}
  BY QueueAssumption DEF TypeOK, Filled
<1>1. NeverAhead
  BY DEF Cursors, NeverAhead
<1>2. CanReceiveHasDescriptor
  BY <1>0 DEF Cursors, CanReceiveHasDescriptor, CanReceivePacket
<1>3. ASSUME ready
      PROVE  /\ (availIdx - lastAvailIdx) % IdxModulus <= Num
             /\ (usedIdx - lastUsedIdx) % IdxModulus <= Num
  <2>1. /\ availIdx - lastAvailIdx \in 0 .. Num
        /\ usedIdx - lastUsedIdx \in 0 .. Num
    BY <1>0, <1>3 DEF Cursors
  <2>2. \A d \in 0 .. Num : d % IdxModulus = d
    BY <1>0, ModSmall
  <2> QED BY <1>0, <2>1, <2>2
<1> QED BY <1>1, <1>2, <1>3 DEF NoLap

(* Below the wrap of the ring indices the device never runs ahead of the   *)
(* guest, neither side laps the other, and a receive queue that reports a  *)
(* descriptor has one.                                                     *)
THEOREM CursorsOrdered ==
  ASSUME MaxPosts < IdxModulus
  PROVE  Spec => [](NeverAhead /\ NoLap /\ CanReceiveHasDescriptor)
<1>1. Init => Cursors
  BY QueueAssumption DEF Init, Cursors, Filled, NotDraining
<1>2. TypeOK /\ Cursors /\ [Next]_vars => Cursors'
  BY CursorsStep
<1>3. TypeOK /\ Cursors => NeverAhead /\ NoLap /\ CanReceiveHasDescriptor
  BY CursorsImply
<1> QED BY <1>1, <1>2, <1>3, TypeCorrect, PTL DEF Spec
(* Neither side ever laps the other: the device's and the driver's cursors *)
(* stay within one ring of the index the other side publishes.             *)
THEOREM NeitherLaps ==
  ASSUME MaxPosts < IdxModulus
  PROVE  Spec => []NoLap
<1>1. NeverAhead /\ NoLap /\ CanReceiveHasDescriptor => NoLap
  OBVIOUS
<1> QED BY <1>1, CursorsOrdered, PTL

-----------------------------------------------------------------------------
(* What the rings hold.  A head is in at most one place: published and not *)
(* yet looked at, answered and not yet taken, or nowhere in the rings; and *)
(* wherever it is, the driver counts it in flight and does not build       *)
(* another chain on it.                                                    *)

(* One past the last available slot the driver has written.                *)
Tip == posted + Filled

Pairwise(ring, from, to) ==
  \A i, j \in from .. to - 1 : i # j => ring[Slot(i)] # ring[Slot(j)]

Rings ==
  /\ \A h \in inflight : chain[h] \in Kinds
  /\ pc # "reset" =>
       /\ \A i \in lastAvailIdx .. Tip - 1 : availRing[Slot(i)] \in inflight
       /\ \A i \in lastUsedIdx .. usedIdx - 1 : usedRing[Slot(i)] \in inflight
       /\ Pairwise(availRing, lastAvailIdx, Tip)
       /\ Pairwise(usedRing, lastUsedIdx, usedIdx)
       /\ \A i \in lastAvailIdx .. Tip - 1, j \in lastUsedIdx .. usedIdx - 1 :
            availRing[Slot(i)] # usedRing[Slot(j)]

(* Two numbers less than m apart differ modulo m.                          *)
LEMMA ModDiffers ==
  ASSUME NEW a \in Nat, NEW b \in Nat, NEW m \in Nat \ {0}, a < b, b - a < m
  PROVE  a % m # b % m
<1>1. a = m * (a \div m) + (a % m) /\ b = m * (b \div m) + (b % m)
  OBVIOUS
<1>2. a \div m \in Int /\ b \div m \in Int /\ a % m \in Int /\ b % m \in Int
  OBVIOUS
<1> SUFFICES ASSUME a % m = b % m PROVE FALSE
  OBVIOUS
<1> DEFINE d == (b \div m) - (a \div m)
<1>3. d \in Int /\ m * d = b - a
  BY <1>1, <1>2
<1> HIDE DEF d
<1>4. CASE d <= 0
  BY <1>3, <1>4
<1>5. CASE d >= 1
  BY <1>3, <1>5
<1> QED BY <1>3, <1>4, <1>5

(* Two positions less than a ring apart fall into different slots.         *)
LEMMA SlotsDiffer ==
  ASSUME NEW a \in Nat, NEW b \in Nat, a < b, b - a < Num
  PROVE  Slot(a) # Slot(b)
<1>1. Num \in Nat \ {0}
  BY QueueAssumption
<1> QED BY <1>1, ModDiffers DEF Slot

(* A window shorter than the ring does not reach the slot at its end, so   *)
(* that writing there disturbs nothing in it.                              *)
LEMMA SlotAfterWindow ==
  ASSUME NEW from \in Nat, NEW to \in Nat, to - from < Num
  PROVE  /\ Slot(to) \in 0 .. Num - 1
         /\ \A i \in from .. to - 1 :
              Slot(i) \in 0 .. Num - 1 /\ Slot(i) # Slot(to)
<1>1. Slot(to) \in 0 .. Num - 1
  <2>1. to \in Int
    OBVIOUS
  <2> QED BY <2>1, IndexTypes
<1>2. ASSUME NEW i \in from .. to - 1
      PROVE  Slot(i) \in 0 .. Num - 1 /\ Slot(i) # Slot(to)
  <2>1. i \in Nat /\ i \in Int /\ i < to /\ to - i < Num
    BY QueueAssumption
  <2>2. Slot(i) \in 0 .. Num - 1
    BY <2>1, IndexTypes
  <2>3. Slot(i) # Slot(to)
    BY <2>1, SlotsDiffer
  <2> QED BY <2>2, <2>3
<1> QED BY <1>1, <1>2

(* The device answers the next head: it moves from the front of the        *)
(* available window to the end of the used window.                         *)
LEMMA AnswerKeepsRings ==
  ASSUME MaxPosts < IdxModulus, TypeOK, Cursors, Rings, pc # "reset",
         lastAvailIdx < posted,
         ConsumeDescriptor(NextHead), lastAvailIdx' = lastAvailIdx + 1,
         UNCHANGED <<availRing, chain, pc, posted, inflight, lastUsedIdx>>
  PROVE  Rings'
<1>0. /\ Num \in Nat \ {0} /\ usedIdx \in Nat /\ lastUsedIdx \in Nat
      /\ lastAvailIdx \in Nat /\ posted \in Nat /\ Filled \in {0, 1}
      /\ numFree \in Int /\ MaxPosts \in Nat
      /\ usedRing \in [0 .. Num - 1 -> Heads \cup {NoHead}]
  BY QueueAssumption DEF TypeOK, Filled
<1>1. /\ usedIdx' = usedIdx + 1 /\ usedIdx - lastUsedIdx < Num
      /\ lastUsedIdx <= usedIdx
  <2>1. /\ usedIdx + 1 <= MaxPosts /\ usedIdx - lastUsedIdx < Num
        /\ lastUsedIdx <= usedIdx
    BY <1>0 DEF Cursors
  <2> QED BY <1>0, <2>1, NoWrap DEF ConsumeDescriptor
<1>2. /\ usedRing'[Slot(usedIdx)] = NextHead
      /\ \A i \in lastUsedIdx .. usedIdx - 1 :
           usedRing'[Slot(i)] = usedRing[Slot(i)]
  <2>1. /\ Slot(usedIdx) \in 0 .. Num - 1
        /\ \A i \in lastUsedIdx .. usedIdx - 1 :
             Slot(i) \in 0 .. Num - 1 /\ Slot(i) # Slot(usedIdx)
    BY <1>0, <1>1, SlotAfterWindow
  <2>2. usedRing' = [usedRing EXCEPT ![Slot(usedIdx)] = NextHead]
    BY DEF ConsumeDescriptor
  <2> QED BY <1>0, <2>1, <2>2
<1>3. Tip' = Tip /\ Tip \in Nat /\ lastAvailIdx \in lastAvailIdx .. Tip - 1
  BY <1>0 DEF Tip, Filled
<1>4. /\ \A i \in lastAvailIdx' .. Tip' - 1 : i \in lastAvailIdx + 1 .. Tip - 1
      /\ \A i \in lastUsedIdx' .. usedIdx' - 1 :
           i \in lastUsedIdx .. usedIdx - 1 \/ i = usedIdx
  BY <1>0, <1>1, <1>3
<1>5. /\ NextHead = availRing[Slot(lastAvailIdx)] /\ NextHead \in inflight
      /\ \A i \in lastAvailIdx + 1 .. Tip - 1 :
           /\ availRing[Slot(i)] \in inflight
           /\ availRing[Slot(i)] # NextHead
      /\ \A i \in lastUsedIdx .. usedIdx - 1 :
           usedRing[Slot(i)] \in inflight /\ usedRing[Slot(i)] # NextHead
  BY <1>0, <1>3 DEF Rings, Pairwise, NextHead
<1>6. \A i \in lastAvailIdx' .. Tip' - 1 : availRing'[Slot(i)] \in inflight'
  BY <1>4, <1>5
<1>7. \A i \in lastUsedIdx' .. usedIdx' - 1 : usedRing'[Slot(i)] \in inflight'
  BY <1>2, <1>4, <1>5
<1>8. Pairwise(availRing', lastAvailIdx', Tip')
  BY <1>0, <1>3, <1>4 DEF Rings, Pairwise
<1>9. Pairwise(usedRing', lastUsedIdx', usedIdx')
  BY <1>2, <1>4, <1>5 DEF Rings, Pairwise
<1>10. \A i \in lastAvailIdx' .. Tip' - 1, j \in lastUsedIdx' .. usedIdx' - 1 :
         availRing'[Slot(i)] # usedRing'[Slot(j)]
  BY <1>0, <1>2, <1>3, <1>4, <1>5 DEF Rings
<1> QED BY <1>6, <1>7, <1>8, <1>9, <1>10 DEF Rings

(* A step that only moves the front of the available window, or nothing.   *)
LEMMA RefuseKeepsRings ==
  ASSUME TypeOK, Rings,
         lastAvailIdx' \in {lastAvailIdx, lastAvailIdx + 1}, Tip' = Tip,
         pc # "reset" \/ pc' = "reset",
         UNCHANGED <<availRing, chain, inflight, lastUsedIdx,
                     usedIdx, usedRing>>
  PROVE  Rings'
<1>1. lastAvailIdx \in Nat /\ Tip \in Nat
  BY DEF TypeOK, Tip, Filled
<1>2. \A i \in lastAvailIdx' .. Tip' - 1 : i \in lastAvailIdx .. Tip - 1
  BY <1>1
<1> QED BY <1>2 DEF Rings, Pairwise

LEMMA RingsStep ==
  ASSUME MaxPosts < IdxModulus, TypeOK, Cursors, Rings, [Next]_vars
  PROVE  Rings'
<1>0. /\ Num \in Nat \ {0} /\ MaxPosts \in Nat
      /\ availIdx \in Nat /\ usedIdx \in Nat /\ lastUsedIdx \in Nat
      /\ lastAvailIdx \in Nat /\ posted \in Nat /\ numFree \in Int
      /\ drain \in Int /\ ready \in BOOLEAN /\ Filled \in {0, 1}
      /\ inflight \subseteq Heads
      /\ availRing \in [0 .. Num - 1 -> Heads \cup {NoHead}]
  BY QueueAssumption DEF TypeOK, NotDraining, Filled
<1>1. CASE DrainStep
  <2>1. pc # "reset" /\ lastAvailIdx < posted
    BY <1>0, <1>1 DEF DrainStep, Cursors
  <2>2. /\ lastAvailIdx' = lastAvailIdx + 1
        /\ UNCHANGED <<availRing, chain, pc, posted, inflight, lastUsedIdx>>
    BY <1>1 DEF DrainStep, drvVars
  <2>3. CASE ConsumeDescriptor(NextHead)
    BY <2>1, <2>2, <2>3, AnswerKeepsRings
  <2>4. CASE UNCHANGED <<usedIdx, usedRing, irqVars>>
    BY <2>1, <2>2, <2>4, RefuseKeepsRings DEF Tip, Filled
  <2> QED BY <1>1, <2>3, <2>4 DEF DrainStep
<1>2. CASE HostInput
  <2>1. /\ ready /\ lastAvailIdx # availIdx
        /\ lastAvailIdx' = lastAvailIdx + 1
        /\ UNCHANGED <<availRing, chain, pc, posted, inflight, lastUsedIdx>>
    BY <1>2 DEF HostInput, CanReceivePacket, drvVars
  <2>2. pc # "reset" /\ lastAvailIdx < posted
    BY <1>0, <2>1 DEF Cursors
  <2> QED BY <1>2, <2>1, <2>2, AnswerKeepsRings DEF HostInput
<1>3. ASSUME NEW h \in Heads, NEW k \in Kinds, Fill(h, k) PROVE Rings'
  <2>1. /\ pc = "run" /\ pc' = "filled" /\ h \notin inflight
        /\ posted' = posted /\ numFree > 0
        /\ inflight' = inflight \cup {h}
        /\ availRing' = [availRing EXCEPT ![Slot(availIdx)] = h]
        /\ chain' = [chain EXCEPT ![h] = k]
        /\ UNCHANGED <<usedIdx, usedRing, lastUsedIdx, lastAvailIdx>>
    BY <1>3 DEF Fill, Driver, devVars
  <2>2. /\ availIdx = posted /\ Tip = posted /\ Tip' = posted + 1
        /\ lastAvailIdx <= posted /\ posted - lastAvailIdx < Num
    BY <1>0, <2>1 DEF Cursors, Tip, Filled
  <2>3. /\ availRing'[Slot(posted)] = h
        /\ \A i \in lastAvailIdx .. posted - 1 :
             availRing'[Slot(i)] = availRing[Slot(i)]
    <3>1. /\ Slot(posted) \in 0 .. Num - 1
          /\ \A i \in lastAvailIdx .. posted - 1 :
               Slot(i) \in 0 .. Num - 1 /\ Slot(i) # Slot(posted)
      BY <1>0, <2>2, SlotAfterWindow
    <3>2. availRing' = [availRing EXCEPT ![Slot(posted)] = h]
      BY <2>1, <2>2
    <3> QED BY <1>0, <3>1, <3>2
  <2>4. \A i \in lastAvailIdx' .. Tip' - 1 :
          i \in lastAvailIdx .. posted - 1 \/ i = posted
    BY <1>0, <2>1, <2>2
  <2>5. \A g \in inflight' : chain'[g] \in Kinds
    BY <1>0, <2>1 DEF TypeOK, Rings
  <2>6. \A i \in lastAvailIdx' .. Tip' - 1 : availRing'[Slot(i)] \in inflight'
    BY <2>1, <2>2, <2>3, <2>4 DEF Rings
  <2>7. \A i \in lastUsedIdx' .. usedIdx' - 1 : usedRing'[Slot(i)] \in inflight'
    BY <2>1 DEF Rings
  <2>8. Pairwise(availRing', lastAvailIdx', Tip')
    <3>1. \A i \in lastAvailIdx .. posted - 1 :
            availRing[Slot(i)] \in inflight /\ availRing[Slot(i)] # h
      BY <2>1, <2>2 DEF Rings
    <3> QED BY <2>1, <2>2, <2>3, <2>4, <3>1 DEF Rings, Pairwise
  <2>9. Pairwise(usedRing', lastUsedIdx', usedIdx')
    BY <2>1 DEF Rings, Pairwise
  <2>10. \A i \in lastAvailIdx' .. Tip' - 1, j \in lastUsedIdx' .. usedIdx' - 1 :
           availRing'[Slot(i)] # usedRing'[Slot(j)]
    BY <2>1, <2>2, <2>3, <2>4 DEF Rings
  <2> QED BY <2>5, <2>6, <2>7, <2>8, <2>9, <2>10 DEF Rings
<1>4. CASE Publish
  <2>1. /\ pc = "filled" /\ pc' = "run" /\ posted' = posted + 1
        /\ UNCHANGED <<availRing, chain, inflight, lastUsedIdx, usedIdx,
                       usedRing, lastAvailIdx>>
    BY <1>4 DEF Publish, Driver, devVars
  <2>2. Tip' = Tip
    BY <1>0, <2>1 DEF Tip, Filled
  <2> QED BY <2>1, <2>2, RefuseKeepsRings
<1>5. CASE Reap
  <2> DEFINE gone == usedRing[Slot(lastUsedIdx)]
  <2>1. /\ pc = "reap" /\ lastUsedIdx # usedIdx /\ pc' = pc
        /\ inflight' = inflight \ {gone}
        /\ UNCHANGED <<availRing, chain, usedIdx, usedRing, lastAvailIdx,
                       posted>>
    BY <1>5 DEF Reap, Driver, ringVars, devVars
  <2>2. lastUsedIdx < usedIdx /\ lastUsedIdx' = lastUsedIdx + 1
    <3>1. lastUsedIdx < usedIdx /\ lastUsedIdx + 1 <= MaxPosts
      BY <1>0, <2>1 DEF Cursors
    <3> QED BY <1>0, <1>5, <3>1, NoWrap DEF Reap
  <2>3. Tip' = Tip /\ Tip \in Nat
    BY <1>0, <2>1 DEF Tip, Filled
  <2>4. \A i \in lastUsedIdx' .. usedIdx' - 1 :
          i \in lastUsedIdx .. usedIdx - 1 /\ i # lastUsedIdx
    BY <1>0, <2>1, <2>2
  <2>5. \A i \in lastUsedIdx' .. usedIdx' - 1 : usedRing[Slot(i)] # gone
    BY <1>0, <2>1, <2>2, <2>4 DEF Rings, Pairwise
  <2>6. \A i \in lastAvailIdx .. Tip - 1 : availRing[Slot(i)] # gone
    BY <1>0, <2>1, <2>2 DEF Rings
  <2> HIDE DEF gone
  <2>7. \A i \in lastAvailIdx' .. Tip' - 1 : availRing'[Slot(i)] \in inflight'
    BY <2>1, <2>3, <2>6 DEF Rings
  <2>8. \A i \in lastUsedIdx' .. usedIdx' - 1 : usedRing'[Slot(i)] \in inflight'
    BY <2>1, <2>4, <2>5 DEF Rings
  <2> QED BY <2>1, <2>3, <2>4, <2>7, <2>8 DEF Rings, Pairwise
<1>6. CASE DriverReset
  BY <1>6 DEF DriverReset, Reset, Rings
<1>7. CASE Setup
  <2>1. /\ pc = "reset" /\ pc' = "run" /\ usedIdx' = 0 /\ lastUsedIdx' = 0
        /\ UNCHANGED <<chain, lastAvailIdx, posted, inflight>>
    BY <1>7 DEF Setup, Driver
  <2>2. lastAvailIdx' = 0 /\ Tip' = 0
    BY <2>1 DEF Cursors, Tip, Filled
  <2> QED BY <2>1, <2>2 DEF Rings, Pairwise
<1>8. CASE DrainEnd \/ ConfigChange \/ QueueNotify
  BY <1>0, <1>8, RefuseKeepsRings
  DEF DrainEnd, ConfigChange, QueueNotify, Driver, Tip, Filled, ringVars, drvVars
<1>9. CASE IsrEnter \/ IsrAck \/ IsrConfig \/ IsrExit
  <2>1. /\ pc \notin {"filled", "reset"} /\ pc' \notin {"filled", "reset"}
        /\ UNCHANGED <<availRing, chain, inflight, lastUsedIdx, usedIdx,
                       usedRing, lastAvailIdx, posted>>
    BY <1>9 DEF IsrEnter, IsrAck, IsrConfig, IsrExit, Driver, ringVars, devVars
  <2> QED BY <1>0, <2>1, RefuseKeepsRings DEF Tip, Filled
<1>10. CASE UNCHANGED vars
  BY <1>10 DEF vars, ringVars, devVars, drvVars, Rings, Pairwise, Tip, Filled
<1> QED
  BY <1>1, <1>2, <1>3, <1>4, <1>5, <1>6, <1>7, <1>8, <1>9, <1>10
  DEF Next, DrainLoop, Handler

-----------------------------------------------------------------------------
(* The refinement of RequestQueue.  Below the wrap the two mapped          *)
(* sequences are windows of the rings, read without any modulus but the    *)
(* slot's.                                                                 *)

Request == [head : Heads, kind : Kinds]

Entry(built, ring, i) ==
  [head |-> ring[Slot(i)], kind |-> built[ring[Slot(i)]]]

Window(built, ring, from, to) ==
  [k \in 1 .. to - from |-> Entry(built, ring, from + k - 1)]

(* A window whose slots hold built heads is a sequence of requests.        *)
LEMMA WindowType ==
  ASSUME NEW built, NEW ring, NEW from \in Nat, NEW to \in Nat, from <= to,
         \A i \in from .. to - 1 : Entry(built, ring, i) \in Request
  PROVE  /\ Window(built, ring, from, to) \in Seq(Request)
         /\ Len(Window(built, ring, from, to)) = to - from
         /\ \A k \in 1 .. to - from :
              Window(built, ring, from, to)[k] = Entry(built, ring, from + k - 1)
<1>1. to - from \in Nat
  OBVIOUS
<1>2. \A k \in 1 .. to - from : from + k - 1 \in from .. to - 1
  OBVIOUS
<1>3. Window(built, ring, from, to) \in [1 .. to - from -> Request]
  BY <1>2 DEF Window
<1>4. Window(built, ring, from, to) \in Seq(Request)
  BY <1>1, <1>3
<1> QED BY <1>1, <1>3, <1>4, LenProperties DEF Window

(* Two windows with the same entries are the same sequence.                *)
LEMMA WindowSame ==
  ASSUME NEW b1, NEW r1, NEW b2, NEW r2, NEW from \in Nat, NEW to \in Nat,
         \A i \in from .. to - 1 : Entry(b1, r1, i) = Entry(b2, r2, i)
  PROVE  Window(b1, r1, from, to) = Window(b2, r2, from, to)
<1>1. \A k \in 1 .. to - from : from + k - 1 \in from .. to - 1
  OBVIOUS
<1> QED BY <1>1 DEF Window

(* An empty window.                                                        *)
LEMMA WindowEmpty ==
  ASSUME NEW built, NEW ring, NEW from \in Nat
  PROVE  Window(built, ring, from, from) = <<>>
<1>1. 1 .. from - from = {}
  OBVIOUS
<1> QED BY <1>1 DEF Window

(* Moving a window's end appends the entry it passes.                      *)
LEMMA WindowGrows ==
  ASSUME NEW built, NEW ring, NEW from \in Nat, NEW to \in Nat, from <= to,
         \A i \in from .. to : Entry(built, ring, i) \in Request
  PROVE  Window(built, ring, from, to + 1)
           = Append(Window(built, ring, from, to), Entry(built, ring, to))
<1> DEFINE s == Window(built, ring, from, to)
           t == Window(built, ring, from, to + 1)
           e == Entry(built, ring, to)
<1>1. /\ s \in Seq(Request) /\ Len(s) = to - from
      /\ \A k \in 1 .. to - from : s[k] = Entry(built, ring, from + k - 1)
  BY WindowType
<1>2. /\ t \in Seq(Request) /\ Len(t) = to - from + 1
      /\ \A k \in 1 .. to - from + 1 : t[k] = Entry(built, ring, from + k - 1)
  <2>1. /\ to + 1 \in Nat /\ from <= to + 1 /\ to + 1 - from = to - from + 1
        /\ to + 1 - 1 = to
    OBVIOUS
  <2>2. \A i \in from .. to + 1 - 1 : Entry(built, ring, i) \in Request
    BY <2>1
  <2>3. /\ t \in Seq(Request) /\ Len(t) = to + 1 - from
        /\ \A k \in 1 .. to + 1 - from : t[k] = Entry(built, ring, from + k - 1)
    BY <2>1, <2>2, WindowType
  <2> QED BY <2>1, <2>3
<1>3. e \in Request
  OBVIOUS
<1> HIDE DEF s, t
<1>4. /\ Append(s, e) \in Seq(Request) /\ Len(Append(s, e)) = to - from + 1
      /\ \A k \in 1 .. to - from : Append(s, e)[k] = s[k]
      /\ Append(s, e)[to - from + 1] = e
  BY <1>1, <1>3, AppendProperties
<1>5. \A k \in 1 .. to - from + 1 : t[k] = Append(s, e)[k]
  <2> TAKE k \in 1 .. to - from + 1
  <2>1. CASE k \in 1 .. to - from
    BY <1>1, <1>2, <1>4, <2>1
  <2>2. CASE k = to - from + 1
    <3>1. from + k - 1 = to
      BY <2>2
    <3> QED BY <1>2, <1>4, <2>2, <3>1
  <2>3. k \in 1 .. to - from \/ k = to - from + 1
    OBVIOUS
  <2> QED BY <2>1, <2>2, <2>3
<1>6. t = Append(s, e)
  BY <1>2, <1>4, <1>5, SeqEqual
<1> QED BY <1>6 DEF s, t

(* Moving its front takes the head off.                                    *)
LEMMA WindowShrinks ==
  ASSUME NEW built, NEW ring, NEW from \in Nat, NEW to \in Nat, from < to,
         \A i \in from .. to - 1 : Entry(built, ring, i) \in Request
  PROVE  /\ Window(built, ring, from, to) # <<>>
         /\ Head(Window(built, ring, from, to)) = Entry(built, ring, from)
         /\ Tail(Window(built, ring, from, to))
              = Window(built, ring, from + 1, to)
<1> DEFINE s == Window(built, ring, from, to)
           t == Window(built, ring, from + 1, to)
<1>1. /\ s \in Seq(Request) /\ Len(s) = to - from
      /\ \A k \in 1 .. to - from : s[k] = Entry(built, ring, from + k - 1)
  BY WindowType
<1>2. /\ t \in Seq(Request) /\ Len(t) = to - from - 1
      /\ \A k \in 1 .. to - from - 1 : t[k] = Entry(built, ring, from + k)
  <2>1. /\ from + 1 \in Nat /\ from + 1 <= to /\ to - (from + 1) = to - from - 1
        /\ \A k \in Int : from + 1 + k - 1 = from + k
    OBVIOUS
  <2>2. \A i \in from + 1 .. to - 1 : Entry(built, ring, i) \in Request
    OBVIOUS
  <2>3. /\ t \in Seq(Request) /\ Len(t) = to - (from + 1)
        /\ \A k \in 1 .. to - (from + 1) :
             t[k] = Entry(built, ring, from + 1 + k - 1)
    BY <2>1, <2>2, WindowType
  <2> QED BY <2>1, <2>3
<1> HIDE DEF s, t
<1>3. s # <<>>
  BY <1>1, EmptySeq
<1>4. /\ Tail(s) \in Seq(Request) /\ Len(Tail(s)) = to - from - 1
      /\ \A k \in 1 .. to - from - 1 : Tail(s)[k] = s[k + 1]
  BY <1>1, <1>3, HeadTailProperties
<1>5. \A k \in 1 .. to - from - 1 : Tail(s)[k] = t[k]
  <2> TAKE k \in 1 .. to - from - 1
  <2>1. k + 1 \in 1 .. to - from /\ from + (k + 1) - 1 = from + k
    OBVIOUS
  <2> QED BY <1>1, <1>2, <1>4, <2>1
<1>6. Tail(s) = t
  BY <1>2, <1>4, <1>5, SeqEqual
<1>7. Head(s) = s[1] /\ s[1] = Entry(built, ring, from)
  <2>1. 1 \in 1 .. to - from /\ from + 1 - 1 = from
    OBVIOUS
  <2>2. Head(s) = s[1]
    BY <1>1, <1>3
  <2> QED BY <1>1, <2>1, <2>2
<1> QED BY <1>3, <1>6, <1>7 DEF s, t

(* The mapped sequences are such windows while the queue is set up.        *)
Pending == Buffers(availRing, lastAvailIdx, availIdx)
Done == Buffers(usedRing, lastUsedIdx, usedIdx)

Mapped ==
  /\ ready =>
       /\ Pending = Window(chain, availRing, lastAvailIdx, posted)
       /\ Done = Window(chain, usedRing, lastUsedIdx, usedIdx)
       /\ \A i \in lastAvailIdx .. posted - 1 : Entry(chain, availRing, i) \in Request
       /\ \A i \in lastUsedIdx .. usedIdx - 1 : Entry(chain, usedRing, i) \in Request
  /\ ~ready => Pending = <<>> /\ Done = <<>>

LEMMA MappedWindows ==
  ASSUME MaxPosts < IdxModulus, TypeOK, Cursors, Rings
  PROVE  Mapped
<1>0. /\ Num \in Nat \ {0} /\ IdxModulus \in Nat \ {0} /\ Num < IdxModulus
      /\ availIdx \in Nat /\ usedIdx \in Nat /\ lastUsedIdx \in Nat
      /\ lastAvailIdx \in Nat /\ posted \in Nat /\ numFree \in Int
      /\ ready \in BOOLEAN /\ Filled \in {0, 1} /\ inflight \subseteq Heads
  BY QueueAssumption DEF TypeOK, Filled
<1>1. ASSUME ready
      PROVE  /\ Pending = Window(chain, availRing, lastAvailIdx, posted)
             /\ Done = Window(chain, usedRing, lastUsedIdx, usedIdx)
  <2>1. /\ availIdx = posted
        /\ posted - lastAvailIdx \in 0 .. Num
        /\ usedIdx - lastUsedIdx \in 0 .. Num
    BY <1>0, <1>1 DEF Cursors
  <2>2. \A d \in 0 .. Num : d % IdxModulus = d
    BY <1>0, ModSmall
  <2>3. /\ (availIdx - lastAvailIdx) % IdxModulus = posted - lastAvailIdx
        /\ (usedIdx - lastUsedIdx) % IdxModulus = usedIdx - lastUsedIdx
    BY <2>1, <2>2
  <2> QED BY <1>1, <2>3 DEF Pending, Done, Buffers, Window, Entry
<1>2. ASSUME ready
      PROVE  /\ \A i \in lastAvailIdx .. posted - 1 :
                   Entry(chain, availRing, i) \in Request
             /\ \A i \in lastUsedIdx .. usedIdx - 1 :
                   Entry(chain, usedRing, i) \in Request
  <2>1. \A i \in lastAvailIdx .. posted - 1 : i \in lastAvailIdx .. Tip - 1
    BY <1>0 DEF Tip
  <2>2. /\ \A i \in lastAvailIdx .. posted - 1 : availRing[Slot(i)] \in inflight
        /\ \A i \in lastUsedIdx .. usedIdx - 1 : usedRing[Slot(i)] \in inflight
    BY <1>2, <2>1 DEF Cursors, Rings
  <2>3. \A h \in inflight : [head |-> h, kind |-> chain[h]] \in Request
    BY <1>0 DEF Rings, Request
  <2> QED BY <2>2, <2>3 DEF Entry
<1>3. ~ready => Pending = <<>> /\ Done = <<>>
  BY DEF Pending, Done, Buffers
<1> QED BY <1>1, <1>2, <1>3 DEF Mapped

(* A step that touches neither the rings nor the driver's and the device's *)
(* place in them is a stutter of the promise.                              *)
LEMMA UnmappedStep ==
  ASSUME UNCHANGED <<ready, availIdx, lastAvailIdx, usedIdx, lastUsedIdx,
                     availRing, usedRing, chain>>
  PROVE  UNCHANGED <<Pending, Done>>
BY DEF Pending, Done, Buffers

(* The device answers: the first pending request becomes the last done.    *)
LEMMA AnswerMaps ==
  ASSUME MaxPosts < IdxModulus, TypeOK, Cursors, Rings, Mapped, Mapped',
         ready, ready', lastAvailIdx < posted,
         ConsumeDescriptor(NextHead), lastAvailIdx' = lastAvailIdx + 1,
         UNCHANGED <<availRing, chain, posted, lastUsedIdx>>
  PROVE  Promise!Answer
<1>0. /\ Num \in Nat \ {0} /\ usedIdx \in Nat /\ lastUsedIdx \in Nat
      /\ lastAvailIdx \in Nat /\ posted \in Nat /\ Filled \in {0, 1}
      /\ numFree \in Int /\ MaxPosts \in Nat
      /\ usedRing \in [0 .. Num - 1 -> Heads \cup {NoHead}]
  BY QueueAssumption DEF TypeOK, Filled
<1>1. /\ usedIdx' = usedIdx + 1 /\ usedIdx - lastUsedIdx < Num
      /\ lastUsedIdx <= usedIdx
  <2>1. /\ usedIdx + 1 <= MaxPosts /\ usedIdx - lastUsedIdx < Num
        /\ lastUsedIdx <= usedIdx
    BY <1>0 DEF Cursors
  <2> QED BY <1>0, <2>1, NoWrap DEF ConsumeDescriptor
<1>2. /\ Pending # <<>>
      /\ Head(Pending) = Entry(chain, availRing, lastAvailIdx)
      /\ Pending' = Tail(Pending)
  <2>1. /\ Window(chain, availRing, lastAvailIdx, posted) # <<>>
        /\ Head(Window(chain, availRing, lastAvailIdx, posted))
             = Entry(chain, availRing, lastAvailIdx)
        /\ Tail(Window(chain, availRing, lastAvailIdx, posted))
             = Window(chain, availRing, lastAvailIdx + 1, posted)
    BY <1>0, WindowShrinks DEF Mapped
  <2> QED BY <2>1 DEF Mapped
<1>3. /\ \A i \in lastUsedIdx .. usedIdx - 1 :
           Entry(chain, usedRing', i) = Entry(chain, usedRing, i)
      /\ Entry(chain, usedRing', usedIdx) = Entry(chain, availRing, lastAvailIdx)
  <2>1. /\ Slot(usedIdx) \in 0 .. Num - 1
        /\ \A i \in lastUsedIdx .. usedIdx - 1 :
             Slot(i) \in 0 .. Num - 1 /\ Slot(i) # Slot(usedIdx)
    BY <1>0, <1>1, SlotAfterWindow
  <2>2. usedRing' = [usedRing EXCEPT ![Slot(usedIdx)] = NextHead]
    BY DEF ConsumeDescriptor
  <2>3. /\ usedRing'[Slot(usedIdx)] = availRing[Slot(lastAvailIdx)]
        /\ \A i \in lastUsedIdx .. usedIdx - 1 :
             usedRing'[Slot(i)] = usedRing[Slot(i)]
    BY <1>0, <2>1, <2>2 DEF NextHead
  <2> QED BY <2>3 DEF Entry
<1>4. Done' = Append(Done, Entry(chain, availRing, lastAvailIdx))
  <2>1. /\ Done = Window(chain, usedRing, lastUsedIdx, usedIdx)
        /\ Done' = Window(chain, usedRing', lastUsedIdx, usedIdx + 1)
    BY <1>1 DEF Mapped
  <2>2. \A i \in lastUsedIdx .. usedIdx : Entry(chain, usedRing', i) \in Request
    <3>1. /\ \A i \in lastUsedIdx' .. usedIdx' - 1 :
               Entry(chain', usedRing', i) \in Request
          /\ usedIdx' - 1 = usedIdx
      BY <1>0, <1>1 DEF Mapped
    <3> QED BY <3>1
  <2>3. Window(chain, usedRing', lastUsedIdx, usedIdx + 1)
          = Append(Window(chain, usedRing', lastUsedIdx, usedIdx),
                   Entry(chain, usedRing', usedIdx))
    BY <1>0, <1>1, <2>2, WindowGrows
  <2>4. Window(chain, usedRing', lastUsedIdx, usedIdx)
          = Window(chain, usedRing, lastUsedIdx, usedIdx)
    BY <1>0, <1>3, WindowSame
  <2> QED BY <1>3, <2>1, <2>3, <2>4
<1> QED BY <1>2, <1>4 DEF Promise!Answer, Pending, Done

(* Every step of the queue is a step of the promise or a stutter.          *)
LEMMA PromiseStep ==
  ASSUME MaxPosts < IdxModulus, TypeOK, Cursors, Rings, Mapped,
         Cursors', Mapped', [Next]_vars
  PROVE  [Promise!Next]_<<Pending, Done>>
<1>0. /\ Num \in Nat \ {0} /\ MaxPosts \in Nat
      /\ availIdx \in Nat /\ usedIdx \in Nat /\ lastUsedIdx \in Nat
      /\ lastAvailIdx \in Nat /\ posted \in Nat /\ numFree \in Int
      /\ drain \in Int /\ ready \in BOOLEAN /\ Filled \in {0, 1}
      /\ inflight \subseteq Heads
      /\ availRing \in [0 .. Num - 1 -> Heads \cup {NoHead}]
  BY QueueAssumption DEF TypeOK, NotDraining, Filled
<1>1. CASE DrainStep
  <2>1. /\ lastAvailIdx' = lastAvailIdx + 1
        /\ UNCHANGED <<availIdx, availRing, chain, ready, posted, lastUsedIdx>>
    BY <1>1 DEF DrainStep, drvVars
  <2>2. ready /\ ready' /\ lastAvailIdx < posted
    BY <1>0, <1>1, <2>1 DEF DrainStep, Cursors
  <2>3. CASE ConsumeDescriptor(NextHead)
    BY <2>1, <2>2, <2>3, AnswerMaps DEF Promise!Next
  <2>4. CASE chain[NextHead] = "runt" /\ UNCHANGED <<usedIdx, usedRing, irqVars>>
    <3>1. /\ Window(chain, availRing, lastAvailIdx, posted) # <<>>
          /\ Head(Window(chain, availRing, lastAvailIdx, posted))
               = Entry(chain, availRing, lastAvailIdx)
          /\ Tail(Window(chain, availRing, lastAvailIdx, posted))
               = Window(chain, availRing, lastAvailIdx + 1, posted)
      BY <1>0, <2>2, WindowShrinks DEF Mapped
    <3>2. Pending # <<>> /\ Pending' = Tail(Pending)
      BY <2>1, <2>2, <3>1 DEF Mapped
    <3>3. Head(Pending).kind = "runt"
      BY <2>2, <2>4, <3>1 DEF Mapped, Entry, NextHead
    <3>4. Done' = Done
      BY <2>1, <2>2, <2>4 DEF Mapped
    <3> QED BY <3>2, <3>3, <3>4 DEF Promise!Next, Promise!Refuse, Pending, Done
  <2> QED BY <1>1, <2>3, <2>4 DEF DrainStep
<1>2. CASE HostInput
  <2>1. /\ ready /\ ready' /\ lastAvailIdx # availIdx
        /\ lastAvailIdx' = lastAvailIdx + 1 /\ ConsumeDescriptor(NextHead)
        /\ UNCHANGED <<availRing, chain, posted, lastUsedIdx>>
    BY <1>2 DEF HostInput, CanReceivePacket, drvVars
  <2>2. lastAvailIdx < posted
    BY <1>0, <2>1 DEF Cursors
  <2> QED BY <2>1, <2>2, AnswerMaps DEF Promise!Next
<1>3. ASSUME NEW h \in Heads, NEW k \in Kinds, Fill(h, k)
      PROVE  UNCHANGED <<Pending, Done>>
  <2>1. /\ pc = "run" /\ h \notin inflight /\ numFree > 0
        /\ availRing' = [availRing EXCEPT ![Slot(availIdx)] = h]
        /\ chain' = [chain EXCEPT ![h] = k]
        /\ UNCHANGED <<usedIdx, usedRing, lastUsedIdx, lastAvailIdx, ready, posted>>
    BY <1>3 DEF Fill, Driver, devVars
  <2>2. /\ ready /\ availIdx = posted /\ Tip = posted
        /\ lastAvailIdx <= posted /\ posted - lastAvailIdx < Num
    BY <1>0, <2>1 DEF Cursors, Tip, Filled
  <2>3. \A g \in inflight : chain'[g] = chain[g]
    BY <1>0, <2>1 DEF TypeOK
  <2>4. \A i \in lastAvailIdx .. posted - 1 : availRing'[Slot(i)] = availRing[Slot(i)]
    <3>1. /\ Slot(posted) \in 0 .. Num - 1
          /\ \A i \in lastAvailIdx .. posted - 1 :
               Slot(i) \in 0 .. Num - 1 /\ Slot(i) # Slot(posted)
      BY <1>0, <2>2, SlotAfterWindow
    <3>2. availRing' = [availRing EXCEPT ![Slot(posted)] = h]
      BY <2>1, <2>2
    <3> QED BY <1>0, <3>1, <3>2
  <2>5. /\ \A i \in lastAvailIdx .. posted - 1 : availRing[Slot(i)] \in inflight
        /\ \A i \in lastUsedIdx .. usedIdx - 1 : usedRing[Slot(i)] \in inflight
    BY <2>1, <2>2 DEF Rings
  <2>6. /\ \A i \in lastAvailIdx .. posted - 1 :
             Entry(chain', availRing', i) = Entry(chain, availRing, i)
        /\ \A i \in lastUsedIdx .. usedIdx - 1 :
             Entry(chain', usedRing, i) = Entry(chain, usedRing, i)
    BY <2>3, <2>4, <2>5 DEF Entry
  <2>7. /\ Window(chain', availRing', lastAvailIdx, posted)
             = Window(chain, availRing, lastAvailIdx, posted)
        /\ Window(chain', usedRing, lastUsedIdx, usedIdx)
             = Window(chain, usedRing, lastUsedIdx, usedIdx)
    BY <1>0, <2>6, WindowSame
  <2> QED BY <2>1, <2>2, <2>7 DEF Mapped
<1>4. CASE Publish
  <2>1. /\ pc = "filled" /\ posted' = posted + 1
        /\ UNCHANGED <<availRing, chain, ready, lastUsedIdx, usedIdx,
                       usedRing, lastAvailIdx>>
    BY <1>4 DEF Publish, Driver, devVars
  <2>2. ready /\ ready' /\ lastAvailIdx <= posted
    BY <2>1 DEF Cursors
  <2>3. \A i \in lastAvailIdx .. posted : Entry(chain, availRing, i) \in Request
    <3>1. /\ \A i \in lastAvailIdx' .. posted' - 1 :
               Entry(chain', availRing', i) \in Request
          /\ posted' - 1 = posted
      BY <1>0, <2>1, <2>2 DEF Mapped
    <3> QED BY <2>1, <3>1
  <2>4. Window(chain, availRing, lastAvailIdx, posted + 1)
          = Append(Window(chain, availRing, lastAvailIdx, posted),
                   Entry(chain, availRing, posted))
    BY <1>0, <2>2, <2>3, WindowGrows
  <2>5. /\ Pending' = Append(Pending, Entry(chain, availRing, posted))
        /\ Entry(chain, availRing, posted) \in Request
        /\ Done' = Done
    BY <1>0, <2>1, <2>2, <2>3, <2>4 DEF Mapped
  <2>6. Promise!Submit(Entry(chain, availRing, posted))
    BY <2>5 DEF Promise!Submit, Pending, Done
  <2> QED BY <2>5, <2>6 DEF Promise!Next, Request
<1>5. CASE Reap
  <2>1. /\ pc = "reap" /\ lastUsedIdx # usedIdx
        /\ UNCHANGED <<availRing, chain, usedIdx, usedRing, lastAvailIdx, posted,
                       ready>>
    BY <1>5 DEF Reap, Driver, ringVars, devVars
  <2>2. /\ ready /\ ready' /\ lastUsedIdx < usedIdx
        /\ lastUsedIdx' = lastUsedIdx + 1
    <3>1. ready /\ lastUsedIdx < usedIdx /\ lastUsedIdx + 1 <= MaxPosts
      BY <1>0, <2>1 DEF Cursors
    <3> QED BY <1>0, <1>5, <2>1, <3>1, NoWrap DEF Reap
  <2>3. /\ Window(chain, usedRing, lastUsedIdx, usedIdx) # <<>>
        /\ Tail(Window(chain, usedRing, lastUsedIdx, usedIdx))
             = Window(chain, usedRing, lastUsedIdx + 1, usedIdx)
    BY <1>0, <2>2, WindowShrinks DEF Mapped
  <2>4. Done # <<>> /\ Done' = Tail(Done) /\ Pending' = Pending
    BY <2>1, <2>2, <2>3 DEF Mapped
  <2> QED BY <2>4 DEF Promise!Next, Promise!Take, Pending, Done
<1>6. CASE DriverReset
  <2>1. ~ready'
    BY <1>6 DEF DriverReset, Reset
  <2>2. Pending' = <<>> /\ Done' = <<>>
    BY <2>1 DEF Mapped
  <2> QED BY <2>2 DEF Promise!Next, Promise!Reset, Pending, Done
<1>7. CASE Setup
  <2>1. /\ pc = "reset" /\ ready' /\ usedIdx' = 0 /\ lastUsedIdx' = 0
        /\ UNCHANGED <<chain, lastAvailIdx, posted>>
    BY <1>7 DEF Setup, Driver
  <2>2. ~ready /\ lastAvailIdx' = 0 /\ posted' = 0
    BY <2>1 DEF Cursors
  <2>3. Pending = <<>> /\ Done = <<>> /\ Pending' = <<>> /\ Done' = <<>>
    BY <2>1, <2>2, WindowEmpty DEF Mapped
  <2> QED BY <2>3
<1>8. CASE DrainEnd \/ ConfigChange \/ QueueNotify
  BY <1>8, UnmappedStep DEF DrainEnd, ConfigChange, QueueNotify, ringVars, drvVars
<1>9. CASE IsrEnter \/ IsrAck \/ IsrConfig \/ IsrExit
  BY <1>9, UnmappedStep
  DEF IsrEnter, IsrAck, IsrConfig, IsrExit, ringVars, devVars
<1>10. CASE UNCHANGED vars
  BY <1>10, UnmappedStep DEF vars, ringVars, devVars, drvVars
<1> QED
  BY <1>1, <1>2, <1>3, <1>4, <1>5, <1>6, <1>7, <1>8, <1>9, <1>10
  DEF Next, DrainLoop, Handler

(* Below the wrap of the ring indices the rings, cursors and interrupts    *)
(* implement RequestQueue: buffers come back in the order they were handed *)
(* over, each at most once and unaltered, and one is dropped unanswered    *)
(* only when the device refuses its chain, for every ring size and every   *)
(* interleaving of driver, device loop and host input.                     *)
THEOREM RingsImplementQueue ==
  ASSUME MaxPosts < IdxModulus
  PROVE  Spec => ImplementsRequestQueue
<1>1. Init => Cursors /\ Rings
  BY QueueAssumption DEF Init, Cursors, Rings, Filled, NotDraining
<1>2. TypeOK /\ Cursors /\ [Next]_vars => Cursors'
  BY CursorsStep
<1>3. TypeOK /\ Cursors /\ Rings /\ [Next]_vars => Rings'
  BY RingsStep
<1>4. TypeOK /\ Cursors /\ Rings => Mapped
  BY MappedWindows
<1>5. Init => Promise!Init
  BY DEF Init, Promise!Init, Buffers
<1>6. /\ TypeOK /\ Cursors /\ Rings /\ Mapped
      /\ Cursors' /\ Mapped' /\ [Next]_vars
      => [Promise!Next]_(Promise!vars)
  BY PromiseStep DEF Promise!vars, Pending, Done
<1> QED
  BY <1>1, <1>2, <1>3, <1>4, <1>5, <1>6, TypeCorrect, PTL
  DEF Spec, ImplementsRequestQueue, Promise!Spec
=============================================================================
