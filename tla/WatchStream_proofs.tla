-------------------------- MODULE WatchStream_proofs --------------------------
(***************************************************************************)
(* Proofs about WatchStream for every ring size, packet size, pass limit   *)
(* and time bound.                                                         *)
(***************************************************************************)
EXTENDS WatchStream, FiniteSetTheorems, TLAPS

(* The successor of a ring position wraps to 0 after the last slot.        *)
LEMMA AfterWraps ==
  \A pos \in SlotIds : After(pos) = IF pos = Slots - 1 THEN 0 ELSE pos + 1
BY StreamAssumption, SMTT(60) DEF After, SlotIds

(* The successor of a position is another position, and of no other one.   *)
LEMMA AfterInjective ==
  \A p, q \in SlotIds : After(p) \in SlotIds /\ After(p) # p
                        /\ (After(p) = After(q) => p = q)
BY AfterWraps, StreamAssumption DEF SlotIds

(* A ring is empty exactly when its positions meet.                        *)
LEMMA FirstIsBetween ==
  \A from, to \in SlotIds : from \in SlotsBetween(from, to) <=> from # to
BY StreamAssumption DEF SlotsBetween, SlotIds

(* The slot to read next is queued exactly when something is queued ...    *)
LEMMA ReadIsQueued ==
  TypeOK => (readPos \in QueuedSlots <=> readPos # writePos)
BY FirstIsBetween DEF QueuedSlots, TypeOK

(* ... and so it is after a step.                                          *)
LEMMA ReadIsQueuedNext ==
  TypeOK' => (readPos' \in QueuedSlots' <=> readPos' # writePos')
BY FirstIsBetween DEF QueuedSlots, TypeOK

-----------------------------------------------------------------------------
(* The reservation. Neither half of it stands alone: the sender thread     *)
(* never runs past write_pos because a packet is published only into a     *)
(* ring with room for it, and there is room because read_pos only moves    *)
(* away from the slot reserved.                                            *)
RingInv ==
  /\ TypeOK
  /\ SlotReserved
  /\ NoSlotRace
  /\ Reading => sentCount < PassLimit
  /\ ownerPc = "copy" => sourcePos < end
  /\ ownerPc = "publish" => pending > 0

(* A stream just created has an empty ring and nothing under construction. *)
LEMMA InitRing == Init => RingInv
<1> SUFFICES ASSUME Init PROVE RingInv
  OBVIOUS
<1>1. /\ 0 \in Times /\ 0 \in SlotIds
      /\ 1 .. MaxSamples \subseteq Nat
  BY StreamAssumption DEF SlotIds, Times
<1>2. [sequence |-> 0, count |-> 0, samples |-> [i \in Offsets |-> 0]] \in Packets
  BY <1>1, StreamAssumption DEF Packets
<1>3. slots \in [SlotIds -> Packets]
  BY <1>2 DEF Init
<1>4. /\ pending \in 0 .. publishThreshold /\ sentCount \in 0 .. PassLimit
      /\ droppedSamples \in Nat /\ sourcePos <= end
  BY StreamAssumption DEF Init
<1>5. TypeOK
  BY <1>1, <1>3, <1>4 DEF Init, TypeOK
<1>6. QED
  BY <1>5 DEF Init, RingInv, SlotReserved, NoSlotRace, Filling, Reading

(* Queueing the packet under construction keeps the ring sound, because    *)
(* its successor slot was kept free.                                       *)
LEMMA PublishKeepsRing ==
  ASSUME RingInv, pending > 0, PublishPending, UNCHANGED readPos
  PROVE  /\ slots' \in [SlotIds -> Packets]
         /\ writePos' \in SlotIds
         /\ writePos' # readPos'
         /\ pending' = 0
<1>1. pending \in 0 .. MaxSamples
  BY StreamAssumption DEF RingInv, TypeOK
<1>2. slots' \in [SlotIds -> Packets]
  BY <1>1 DEF RingInv, TypeOK, PublishPending, Packets
<1>3. After(writePos) # readPos
  BY DEF RingInv, SlotReserved, Filling, QueueFull, TypeOK
<1>4. QED
  BY <1>2, <1>3, AfterInjective DEF PublishPending, RingInv, TypeOK

(* Copying samples fills the packet up to the threshold and not beyond, and*)
(* consumes at most what the call was given.                               *)
LEMMA CopyKeepsType ==
  ASSUME RingInv, CopySamples
  PROVE  /\ slots' \in [SlotIds -> Packets]
         /\ pending' \in 1 .. publishThreshold
         /\ sourcePos' \in Times /\ sourcePos' <= end
         /\ ownerPc' = "publish" => pending' > 0
<1>1. /\ Chunk \in Nat
      /\ sourcePos + Chunk <= end
      /\ pending + Chunk <= publishThreshold
  BY StreamAssumption DEF RingInv, TypeOK, Chunk, CopySamples, Times
<1>2. pending + Chunk > 0
  BY StreamAssumption DEF RingInv, TypeOK, Chunk, CopySamples, Times
<1>3. ASSUME NEW i \in pending .. pending + Chunk - 1
      PROVE  sourcePos + (i - pending) \in Times
  BY <1>1, StreamAssumption DEF RingInv, TypeOK, Times
<1>4. slots' \in [SlotIds -> Packets]
  BY <1>3 DEF RingInv, TypeOK, CopySamples, Packets
<1>5. QED
  BY <1>1, <1>2, <1>4, StreamAssumption DEF RingInv, TypeOK, CopySamples, Times

(* Every step of the callback, of the sender thread and of the graph keeps *)
(* the ring sound.                                                         *)
LEMMA NextRing == RingInv /\ [Next]_vars => RingInv'
<1> SUFFICES ASSUME RingInv, [Next]_vars PROVE RingInv'
  OBVIOUS
<1> USE StreamAssumption DEF RingInv
<1>queued. readPos \in QueuedSlots <=> readPos # writePos
  BY ReadIsQueued
<1>begin. ASSUME NEW first \in Nat, NEW last \in Times, end <= first, first < last,
                 BeginCall(first, last)
          PROVE  RingInv'
  <2>1. TypeOK'
    BY <1>begin DEF TypeOK, BeginCall, ringVars, senderVars, graphVars, Times, Packets
  <2>2. SlotReserved' /\ NoSlotRace'
    BY <1>begin, <1>queued DEF BeginCall, SlotReserved, NoSlotRace, Filling, Reading,
       QueueFull, QueuedSlots, After, ringVars, senderVars
  <2>3. QED
    BY <1>begin, <2>1, <2>2 DEF BeginCall, Reading, senderVars, ringVars
<1>1. CASE WatchAddA
  <2>1. PICK first \in end .. MaxTime : \E last \in first + 1 .. MaxTime : BeginCall(first, last)
    BY <1>1 DEF WatchAddA
  <2>2. PICK last \in first + 1 .. MaxTime : BeginCall(first, last)
    BY <2>1
  <2>3. QED
    BY <2>2, <1>begin DEF TypeOK, Times
<1>2. CASE WatchAddK
  <2>1. PICK first \in end .. MaxTime - 1 : BeginCall(first, first + 1)
    BY <1>2 DEF WatchAddK
  <2>2. QED
    BY <2>1, <1>begin DEF TypeOK, Times
<1>3. CASE WatchAddP
  <2>1. PICK first \in end .. MaxTime - 1 : BeginCall(first, first + 1)
    BY <1>3 DEF WatchAddP
  <2>2. QED
    BY <2>1, <1>begin DEF TypeOK, Times
<1>4. CASE PublishAtGap
  <2>1. /\ slots' \in [SlotIds -> Packets] /\ writePos' \in SlotIds
        /\ writePos' # readPos' /\ pending' = 0
    BY <1>4, PublishKeepsRing DEF PublishAtGap
  <2>2. TypeOK'
    BY <1>4, <2>1 DEF PublishAtGap, TypeOK, ownerVars, senderVars, graphVars
  <2>3. SlotReserved' /\ NoSlotRace'
    BY <1>4, <2>1, <2>2, ReadIsQueuedNext DEF PublishAtGap, SlotReserved, NoSlotRace, Filling,
       ownerVars, TypeOK
  <2>4. QED
    BY <1>4, <2>1, <2>2, <2>3 DEF PublishAtGap, Reading, ownerVars, senderVars
<1>5. CASE DropRest
  BY <1>5, <1>queued DEF DropRest, TypeOK, SlotReserved, NoSlotRace, Filling, Reading,
     QueueFull, QueuedSlots, ringVars, senderVars, graphVars, Times
<1>6. CASE StartPacket
  <2>1. TypeOK'
    BY <1>6 DEF StartPacket, TypeOK, Packets, senderVars, graphVars
  <2>2. QED
    BY <1>6, <2>1 DEF StartPacket, SlotReserved, NoSlotRace, Filling, Reading,
       QueueFull, QueuedSlots, senderVars, TypeOK
<1>7. CASE ContinuePacket
  <2>1. TypeOK'
    BY <1>7 DEF ContinuePacket, TypeOK, ringVars, senderVars, graphVars
  <2>2. QED
    BY <1>7, <2>1 DEF ContinuePacket, SlotReserved, NoSlotRace, Filling, Reading,
       QueueFull, QueuedSlots, ringVars, senderVars
<1>8. CASE CopySamples
  <2>1. TypeOK'
    BY <1>8, CopyKeepsType DEF CopySamples, TypeOK, senderVars, graphVars
  <2>2. SlotReserved' /\ NoSlotRace'
    BY <1>8, <2>1 DEF CopySamples, SlotReserved, NoSlotRace, Filling, Reading,
       QueueFull, QueuedSlots, senderVars, TypeOK
  <2>3. QED
    BY <1>8, <2>1, <2>2, CopyKeepsType DEF CopySamples, Reading, senderVars
<1>9. CASE PublishFull
  <2>1. /\ slots' \in [SlotIds -> Packets] /\ writePos' \in SlotIds
        /\ writePos' # readPos' /\ pending' = 0
    BY <1>9, PublishKeepsRing DEF PublishFull
  <2>2. TypeOK'
    BY <1>9, <2>1 DEF PublishFull, TypeOK, senderVars, graphVars
  <2>3. SlotReserved' /\ NoSlotRace'
    BY <1>9, <2>1, <2>2, ReadIsQueuedNext DEF PublishFull, SlotReserved, NoSlotRace, Filling, TypeOK
  <2>4. QED
    BY <1>9, <2>1, <2>2, <2>3 DEF PublishFull, Reading, senderVars
<1>10. CASE EndCall
  BY <1>10 DEF EndCall, TypeOK, SlotReserved, NoSlotRace, Filling, Reading,
     QueueFull, QueuedSlots, ringVars, senderVars, graphVars
<1>11. CASE ReleaseStream
  <2>1. CASE pending > 0
    <3>1. /\ slots' \in [SlotIds -> Packets] /\ writePos' \in SlotIds
          /\ writePos' # readPos' /\ pending' = 0
      BY <1>11, <2>1, PublishKeepsRing DEF ReleaseStream
    <3>2. TypeOK'
      BY <1>11, <3>1 DEF ReleaseStream, TypeOK, senderVars, graphVars
    <3>3. QED
      BY <1>11, <3>1, <3>2 DEF ReleaseStream, SlotReserved, NoSlotRace, Filling, Reading,
         MutexFree, senderVars
  <2>2. CASE ~(pending > 0)
    <3>1. TypeOK'
      BY <1>11, <2>2 DEF ReleaseStream, TypeOK, ringVars, senderVars, graphVars
    <3>2. QED
      BY <1>11, <2>2, <3>1 DEF ReleaseStream, SlotReserved, NoSlotRace, Filling, Reading,
         MutexFree, ringVars, senderVars
  <2>3. QED
    BY <2>1, <2>2
<1>12. CASE BeginPass
  BY <1>12 DEF BeginPass, TypeOK, SlotReserved, NoSlotRace, Filling, Reading,
     QueueFull, ringVars, ownerVars, graphVars
<1>13. CASE TakePacket
  <2>1. TypeOK'
    BY <1>13 DEF TakePacket, TypeOK, ringVars, ownerVars, graphVars
  <2>2. QED
    BY <1>13, <2>1, <1>queued DEF TakePacket, SlotReserved, NoSlotRace, Filling, Reading,
       QueueFull, QueuedSlots, ringVars, ownerVars
<1>14. CASE EndDrain
  BY <1>14 DEF EndDrain, TypeOK, SlotReserved, NoSlotRace, Filling, Reading,
     QueueFull, ringVars, ownerVars, graphVars
<1>15. CASE SendPacket
  <2>1. slots[readPos].count \in 0 .. MaxSamples
        /\ slots[readPos].samples \in [Offsets -> Times]
    BY DEF TypeOK, Packets
  <2>2. PayloadTimes(slots[readPos]) \subseteq Times
    BY <2>1 DEF PayloadTimes, Offsets
  <2>3. TypeOK'
    BY <1>15, <2>2 DEF SendPacket, TypeOK, ringVars, ownerVars, graphVars
  <2>4. QED
    BY <1>15, <2>3 DEF SendPacket, SlotReserved, NoSlotRace, Filling, Reading,
       QueueFull, QueuedSlots, ringVars, ownerVars
<1>16. CASE AdvanceRead
  <2>1. readPos # writePos
    BY <1>16, <1>queued DEF AdvanceRead, NoSlotRace, Reading
  <2>2. TypeOK'
    BY <1>16, AfterInjective DEF AdvanceRead, TypeOK, Reading, ringVars, ownerVars, graphVars
  <2>3. After(writePos) # After(readPos)
    BY <2>1, AfterInjective DEF TypeOK
  <2>4. QED
    BY <1>16, <2>2, <2>3 DEF AdvanceRead, SlotReserved, NoSlotRace, Filling, Reading,
       QueueFull, After, ringVars, ownerVars
<1>17. CASE ReleaseFinished
  <2>1. TypeOK'
    BY <1>17 DEF ReleaseFinished, TypeOK, ringVars, ownerVars, graphVars
  <2>2. QED
    BY <1>17, <2>1 DEF ReleaseFinished, SlotReserved, NoSlotRace, Filling, Reading,
       QueueFull, ringVars, ownerVars
<1>18. CASE SendFails
  BY <1>18 DEF SendFails, TypeOK, SlotReserved, NoSlotRace, Filling, Reading,
     QueueFull, ringVars, ownerVars, graphVars
<1>19. CASE GraphStep
  <2>1. TypeOK'
    BY <1>19 DEF GraphStep, ReceiveAck, ChangeTheme, RequestGraphClose, TypeOK,
       ringVars, ownerVars, senderVars
  <2>2. UNCHANGED <<ringVars, readPos, ownerVars, senderVars>>
    BY <1>19 DEF GraphStep, ReceiveAck, ChangeTheme, RequestGraphClose
  <2>3. SlotReserved' /\ NoSlotRace'
    BY <2>2 DEF SlotReserved, NoSlotRace, Filling, Reading, QueueFull, QueuedSlots,
       ringVars, ownerVars, senderVars
  <2>4. QED
    BY <2>1, <2>2, <2>3 DEF Reading, ringVars, ownerVars, senderVars
<1>20. CASE UNCHANGED vars
  BY <1>20 DEF vars, TypeOK, SlotReserved, NoSlotRace, Filling, Reading, QueueFull,
     QueuedSlots, ringVars, ownerVars, senderVars, graphVars
<1>21. QED
  BY <1>1, <1>2, <1>3, <1>4, <1>5, <1>6, <1>7, <1>8, <1>9, <1>10, <1>11, <1>12, <1>13,
     <1>14, <1>15, <1>16, <1>17, <1>18, <1>19, <1>20
  DEF Next, OwnerStep, PerfStep, PassStep, Gone

(* The ring is sound in every behaviour.                                   *)
THEOREM RingSafe == Spec => []RingInv
BY InitRing, NextRing, PTL DEF Spec

(* Type correctness, for every value of the constants.                     *)
THEOREM TypeCorrect == Spec => []TypeOK
BY RingSafe, PTL DEF RingInv

(* The slot a publication will need is always kept free, although only the *)
(* start of a packet looks for room.                                       *)
THEOREM ReservationHolds == Spec => []SlotReserved
BY RingSafe, PTL DEF RingInv

(* The callback and the sender thread never work on the same slot.         *)
THEOREM NoRace == Spec => []NoSlotRace
BY RingSafe, PTL DEF RingInv

-----------------------------------------------------------------------------
(* Consecutive samples. A queued packet is never written to again, so what *)
(* matters is the packet under construction: while samples are copied to   *)
(* it, the next one continues it.                                          *)

(* The first n samples of a packet are consecutive from its sequence on.   *)
Consecutive(packet, n) == \A i \in 0 .. n - 1 : packet.samples[i] = packet.sequence + i

ConsecutiveInv ==
  /\ RingInv
  /\ \A s \in QueuedSlots : slots[s].count \in 1 .. publishThreshold
                            /\ Consecutive(slots[s], slots[s].count)
  /\ pending > 0 \/ ownerPc = "copy" => slots[writePos].sequence = pendingSequence
  /\ Consecutive(slots[writePos], pending)
  /\ ownerPc = "copy" => Continues

(* The position to write to is not queued; queueing it adds no other, and  *)
(* reading on adds none.                                                   *)
LEMMA BetweenSteps ==
  ASSUME NEW from \in SlotIds, NEW to \in SlotIds
  PROVE  /\ to \notin SlotsBetween(from, to)
         /\ SlotsBetween(from, After(to)) \subseteq SlotsBetween(from, to) \union {to}
         /\ from # to => SlotsBetween(After(from), to) \subseteq SlotsBetween(from, to)
         /\ SlotsBetween(from, to) \subseteq SlotIds
BY AfterWraps, StreamAssumption DEF SlotsBetween, SlotIds

(* What the invariant says about the ring alone.                           *)
LEMMA ConsecutiveMeans == ConsecutiveInv => ConsecutiveSamples
BY DEF ConsecutiveInv, ConsecutiveSamples, Consecutive

LEMMA InitConsecutive == Init => ConsecutiveInv
BY InitRing, StreamAssumption
   DEF Init, ConsecutiveInv, Consecutive, QueuedSlots, SlotsBetween, Continues

(* A packet that is queued as it stands keeps the invariant.               *)
LEMMA PublishKeepsConsecutive ==
  ASSUME ConsecutiveInv, RingInv', pending > 0, PublishPending,
         UNCHANGED <<readPos, publishThreshold>>, ownerPc' # "copy"
  PROVE  ConsecutiveInv'
<1>1. writePos \in SlotIds /\ readPos \in SlotIds /\ pending \in 1 .. publishThreshold
  BY StreamAssumption DEF ConsecutiveInv, RingInv, TypeOK
<1>2. QueuedSlots' \subseteq QueuedSlots \union {writePos}
  BY <1>1, BetweenSteps DEF QueuedSlots, PublishPending
<1>3. slots \in [SlotIds -> Packets]
  BY DEF ConsecutiveInv, RingInv, TypeOK
<1>4. \A s \in SlotIds : /\ slots'[s].sequence = slots[s].sequence
                          /\ slots'[s].samples = slots[s].samples
                          /\ slots'[s].count = IF s = writePos THEN pending ELSE slots[s].count
  BY <1>1, <1>3 DEF PublishPending, Packets
<1>5. QueuedSlots \subseteq SlotIds
  BY <1>1, BetweenSteps DEF QueuedSlots
<1>6. ASSUME NEW s \in QueuedSlots'
      PROVE  slots'[s].count \in 1 .. publishThreshold /\ Consecutive(slots'[s], slots'[s].count)
  <2>1. s \in SlotIds
    BY <1>1, <1>2, <1>5, <1>6
  <2>2. CASE s = writePos
    BY <2>1, <2>2, <1>1, <1>4 DEF ConsecutiveInv, Consecutive
  <2>3. CASE s # writePos
    <3>1. s \in QueuedSlots
      BY <2>3, <1>2, <1>6
    <3>2. QED
      BY <3>1, <2>1, <2>3, <1>4 DEF ConsecutiveInv, Consecutive
  <2>4. QED
    BY <2>2, <2>3
<1>7. pending' = 0
  BY DEF PublishPending
<1>8. QED
  BY <1>6, <1>7 DEF ConsecutiveInv, Consecutive

(* Copying goes on where the packet ends.                                  *)
LEMMA CopyKeepsConsecutive ==
  ASSUME ConsecutiveInv, RingInv', CopySamples
  PROVE  ConsecutiveInv'
<1>1. /\ writePos \in SlotIds /\ readPos \in SlotIds /\ pending \in 0 .. publishThreshold
      /\ slots \in [SlotIds -> Packets] /\ pendingSequence \in Times /\ sourcePos \in Times
      /\ sourcePos = pendingSequence + pending /\ publishThreshold \in 1 .. MaxSamples
  BY DEF ConsecutiveInv, RingInv, TypeOK, CopySamples, Continues
<1>2. Chunk \in Nat /\ pending + Chunk <= MaxSamples
  BY <1>1, StreamAssumption DEF ConsecutiveInv, RingInv, TypeOK, Chunk, CopySamples, Times
<1>3. /\ QueuedSlots' = QueuedSlots /\ writePos \notin QueuedSlots
      /\ QueuedSlots \subseteq SlotIds
  BY <1>1, BetweenSteps DEF QueuedSlots, CopySamples
<1>4. /\ \A s \in SlotIds : s # writePos => slots'[s] = slots[s]
      /\ slots'[writePos].sequence = slots[writePos].sequence
  BY <1>1 DEF CopySamples, Packets
<1>5. ASSUME NEW i \in 0 .. pending + Chunk - 1
      PROVE  slots'[writePos].samples[i] = slots[writePos].sequence + i
  <2>1. i \in Offsets
    BY <1>2, <1>1, StreamAssumption DEF Offsets
  <2>2. slots'[writePos].samples[i] =
          IF i \in pending .. pending + Chunk - 1 THEN sourcePos + (i - pending)
          ELSE slots[writePos].samples[i]
    BY <2>1, <1>1 DEF CopySamples, Packets
  <2>3. slots[writePos].sequence = pendingSequence
    BY DEF ConsecutiveInv, CopySamples
  <2>4. CASE i \in pending .. pending + Chunk - 1
    BY <2>2, <2>3, <2>4, <1>1, StreamAssumption DEF Times
  <2>5. CASE i \in 0 .. pending - 1
    BY <2>2, <2>5, <1>1 DEF ConsecutiveInv, Consecutive
  <2>6. QED
    BY <2>4, <2>5, <1>1, <1>2
<1>6. pending' = pending + Chunk /\ ownerPc' # "copy" /\ UNCHANGED <<writePos, pendingSequence, publishThreshold>>
  BY DEF CopySamples
<1>7. ASSUME NEW i \in 0 .. pending' - 1
      PROVE  slots'[writePos'].samples[i] = slots'[writePos'].sequence + i
  <2>1. slots'[writePos].samples[i] = slots[writePos].sequence + i
    <3>1. i \in 0 .. pending + Chunk - 1
      BY <1>1, <1>2, <1>6, <1>7
    <3>2. QED
      BY <1>5, <3>1
  <2>2. slots'[writePos].samples[i] = slots'[writePos].sequence + i
    BY <2>1, <1>4
  <2>3. writePos' = writePos
    BY <1>6
  <2>4. QED
    BY <2>2, <2>3
<1>8. \A s \in QueuedSlots' : slots'[s].count \in 1 .. publishThreshold'
                             /\ Consecutive(slots'[s], slots'[s].count)
  BY <1>3, <1>4, <1>6 DEF ConsecutiveInv, Consecutive
<1>9. slots'[writePos'].sequence = pendingSequence'
  BY <1>4, <1>6 DEF ConsecutiveInv, CopySamples
<1>10. QED
  <2>1. Consecutive(slots[writePos], pending)'
    BY <1>7 DEF Consecutive
  <2>2. QED
    BY <1>6, <1>8, <1>9, <2>1 DEF ConsecutiveInv

(* Every step keeps the samples of a packet consecutive.                   *)
LEMMA NextConsecutive == ConsecutiveInv /\ [Next]_vars => ConsecutiveInv'
<1> SUFFICES ASSUME ConsecutiveInv, [Next]_vars PROVE ConsecutiveInv'
  OBVIOUS
<1>ring. RingInv'
  BY NextRing DEF ConsecutiveInv
<1>type. /\ writePos \in SlotIds /\ readPos \in SlotIds /\ slots \in [SlotIds -> Packets]
         /\ pending \in Nat /\ publishThreshold \in Nat
  BY StreamAssumption DEF ConsecutiveInv, RingInv, TypeOK
<1>same. ASSUME UNCHANGED <<ringVars, readPos, pendingSequence, publishThreshold>>,
                ownerPc' = "copy" => UNCHANGED <<ownerPc, sourcePos>>
         PROVE  ConsecutiveInv'
  BY <1>ring, <1>same DEF ConsecutiveInv, ringVars, QueuedSlots, Continues
<1>begin. ASSUME NEW first, NEW last, BeginCall(first, last) PROVE ConsecutiveInv'
  BY <1>begin, <1>same DEF BeginCall
<1>1. CASE WatchAddA \/ WatchAddK \/ WatchAddP
  BY <1>1, <1>begin DEF WatchAddA, WatchAddK, WatchAddP
<1>2. CASE PublishAtGap
  BY <1>2, <1>ring, PublishKeepsConsecutive DEF PublishAtGap, ownerVars
<1>3. CASE DropRest
  BY <1>3, <1>same DEF DropRest
<1>4. CASE StartPacket
  <2>1. /\ \A s \in SlotIds : s # writePos => slots'[s] = slots[s]
        /\ slots'[writePos].sequence = sourcePos
    BY <1>4, <1>type DEF StartPacket, Packets
  <2>2. /\ QueuedSlots' = QueuedSlots /\ writePos \notin QueuedSlots
        /\ QueuedSlots \subseteq SlotIds
    BY <1>4, <1>type, BetweenSteps DEF QueuedSlots, StartPacket
  <2>3. \A s \in QueuedSlots' : slots'[s].count \in 1 .. publishThreshold'
                               /\ Consecutive(slots'[s], slots'[s].count)
    BY <1>4, <2>1, <2>2 DEF ConsecutiveInv, Consecutive, StartPacket
  <2>4. sourcePos = sourcePos + pending /\ pending = 0
    BY <1>4 DEF StartPacket, ConsecutiveInv, RingInv, TypeOK, Times
  <2>5. QED
    BY <1>ring, <1>4, <2>1, <2>3, <2>4 DEF ConsecutiveInv, Consecutive, StartPacket, Continues
<1>5. CASE ContinuePacket
  BY <1>5, <1>ring DEF ContinuePacket, ConsecutiveInv, ringVars, QueuedSlots, Continues
<1>6. CASE CopySamples
  BY <1>6, <1>ring, CopyKeepsConsecutive
<1>7. CASE PublishFull
  BY <1>7, <1>ring, PublishKeepsConsecutive DEF PublishFull, ConsecutiveInv, RingInv
<1>8. CASE EndCall
  BY <1>8, <1>same DEF EndCall
<1>9. CASE ReleaseStream
  <2>1. CASE pending > 0
    BY <1>9, <2>1, <1>ring, PublishKeepsConsecutive DEF ReleaseStream
  <2>2. CASE ~(pending > 0)
    BY <1>9, <2>2, <1>same DEF ReleaseStream
  <2>3. QED
    BY <2>1, <2>2
<1>10. CASE AdvanceRead
  <2>1. readPos # writePos
    BY <1>10, ReadIsQueued DEF AdvanceRead, ConsecutiveInv, RingInv, NoSlotRace, Reading
  <2>2. QueuedSlots' \subseteq QueuedSlots
    BY <1>10, <2>1, <1>type, BetweenSteps DEF QueuedSlots, AdvanceRead, ringVars
  <2>3. QED
    BY <1>10, <2>2, <1>ring DEF AdvanceRead, ConsecutiveInv, ringVars, ownerVars, Continues
<1>11. CASE BeginPass \/ TakePacket \/ EndDrain \/ SendPacket \/ ReleaseFinished \/ SendFails
  BY <1>11, <1>same DEF BeginPass, TakePacket, EndDrain, SendPacket, ReleaseFinished, SendFails, ownerVars
<1>12. CASE GraphStep
  BY <1>12, <1>same DEF GraphStep, ReceiveAck, ChangeTheme, RequestGraphClose, ownerVars
<1>13. CASE UNCHANGED vars
  BY <1>13, <1>same DEF vars, ownerVars
<1>14. QED
  BY <1>1, <1>2, <1>3, <1>4, <1>5, <1>6, <1>7, <1>8, <1>9, <1>10, <1>11, <1>12, <1>13
  DEF Next, OwnerStep, PerfStep, PassStep, Gone

(* Every sample is at the time the viewer will take it for.                *)
THEOREM SamplesAreConsecutive == Spec => []ConsecutiveSamples
BY InitConsecutive, NextConsecutive, ConsecutiveMeans, PTL DEF Spec

-----------------------------------------------------------------------------
(* Order. Times grow along the queue, from what was sent over the packets  *)
(* queued and the packet under construction to what the call still has to  *)
(* read.                                                                   *)

First(s) == slots[s].sequence
Past(s) == slots[s].sequence + slots[s].count

(* Where the times begin that are in no queued packet.                     *)
Frontier == IF pending > 0 THEN pendingSequence ELSE sourcePos

(* The queued packets the sender thread has not sent.                      *)
Unread == IF senderPc = "advance" THEN QueuedSlots \ {readPos} ELSE QueuedSlots

QueueOrder ==
  /\ \A s, t \in QueuedSlots : s \in SlotsBetween(readPos, t) => Past(s) <= First(t)
  /\ \A s \in QueuedSlots : Past(s) <= Frontier
  /\ pending > 0 => pendingSequence + pending <= sourcePos

SentOrder ==
  /\ \A x \in sent : x < Frontier /\ \A s \in Unread : x < First(s)
  /\ senderPc = "advance" => PayloadTimes(slots[readPos]) \subseteq sent

LifeInv ==
  /\ released <=> ownerPc = "gone"
  /\ ownerPc = "gone" => pending = 0
  /\ freed => released /\ senderPc = "idle"

OrderInv == ConsecutiveInv /\ QueueOrder /\ SentOrder /\ LifeInv

(* Publishing appends a slot to those queued, reading on takes the first   *)
(* away, and the slots before one of them are among them.                  *)
LEMMA BetweenGrows ==
  ASSUME NEW from \in SlotIds, NEW to \in SlotIds, After(to) # from
  PROVE  SlotsBetween(from, After(to)) = SlotsBetween(from, to) \union {to}
BY AfterWraps, StreamAssumption DEF SlotsBetween, SlotIds

LEMMA BetweenShrinks ==
  ASSUME NEW from \in SlotIds, NEW to \in SlotIds, from # to
  PROVE  SlotsBetween(After(from), to) = SlotsBetween(from, to) \ {from}
BY AfterWraps, StreamAssumption DEF SlotsBetween, SlotIds

LEMMA BetweenNests ==
  ASSUME NEW from \in SlotIds, NEW to \in SlotIds, NEW s \in SlotsBetween(from, to)
  PROVE  to \notin SlotsBetween(from, s)
BY StreamAssumption DEF SlotsBetween, SlotIds

LEMMA StreamTypes ==
  RingInv => /\ writePos \in SlotIds /\ readPos \in SlotIds
             /\ slots \in [SlotIds -> Packets]
             /\ pending \in Nat /\ pending <= MaxSamples /\ pendingSequence \in Nat
             /\ sourcePos \in Nat /\ end \in Nat /\ sourcePos <= end
             /\ sent \subseteq Nat /\ QueuedSlots \subseteq SlotIds
             /\ \A s \in SlotIds : First(s) \in Nat /\ slots[s].count \in Nat /\ Past(s) \in Nat
<1> SUFFICES ASSUME RingInv
             PROVE  /\ writePos \in SlotIds /\ readPos \in SlotIds
                    /\ slots \in [SlotIds -> Packets]
                    /\ pending \in Nat /\ pending <= MaxSamples /\ pendingSequence \in Nat
                    /\ sourcePos \in Nat /\ end \in Nat /\ sourcePos <= end
                    /\ sent \subseteq Nat /\ QueuedSlots \subseteq SlotIds
                    /\ \A s \in SlotIds : First(s) \in Nat /\ slots[s].count \in Nat
                                          /\ Past(s) \in Nat
  OBVIOUS
<1>1. /\ writePos \in SlotIds /\ readPos \in SlotIds /\ slots \in [SlotIds -> Packets]
      /\ pendingSequence \in Nat /\ sourcePos \in Nat /\ end \in Nat /\ sourcePos <= end
      /\ sent \subseteq Nat
  BY StreamAssumption DEF RingInv, TypeOK, Times
<1>2. pending \in Nat /\ pending <= MaxSamples
  BY StreamAssumption DEF RingInv, TypeOK
<1>3. QueuedSlots \subseteq SlotIds
  BY <1>1, BetweenSteps DEF QueuedSlots
<1>4. \A s \in SlotIds : slots[s].sequence \in Nat /\ slots[s].count \in Nat
  BY <1>1, StreamAssumption DEF Packets, Times
<1>5. QED
  BY <1>1, <1>2, <1>3, <1>4 DEF First, Past

LEMMA InitOrder == Init => OrderInv
<1> SUFFICES ASSUME Init PROVE OrderInv
  OBVIOUS
<1>1. QueuedSlots = {} /\ sent = {} /\ pending = 0 /\ senderPc = "idle"
  BY StreamAssumption DEF Init, QueuedSlots, SlotsBetween
<1>2. QED
  BY <1>1, InitConsecutive DEF Init, OrderInv, QueueOrder, SentOrder, LifeInv, Unread

(* A step that leaves the ring and what was sent alone, and moves at most  *)
(* forwards in time.                                                       *)
LEMMA SameOrder ==
  ASSUME RingInv, QueueOrder, SentOrder, UNCHANGED <<ringVars, readPos, pendingSequence, sent>>,
         sourcePos' \in Nat, sourcePos' >= sourcePos,
         UNCHANGED senderPc \/ (senderPc # "advance" /\ senderPc' # "advance")
  PROVE  QueueOrder' /\ SentOrder'
<1>1. /\ sourcePos \in Nat /\ pending \in Nat /\ pendingSequence \in Nat /\ sent \subseteq Nat
      /\ \A s \in QueuedSlots : First(s) \in Nat /\ Past(s) \in Nat
  BY StreamTypes
<1>2. /\ QueuedSlots' = QueuedSlots /\ Unread' = Unread
      /\ slots' = slots /\ pending' = pending /\ readPos' = readPos
      /\ pendingSequence' = pendingSequence
  BY DEF ringVars, QueuedSlots, Unread
<1>3. Frontier \in Nat /\ Frontier' \in Nat /\ Frontier <= Frontier'
  BY <1>1, <1>2 DEF Frontier
<1>4. QueueOrder'
  <2>1. \A s \in QueuedSlots : Past(s) <= Frontier'
    BY <1>1, <1>3 DEF QueueOrder
  <2>2. pending > 0 => pendingSequence + pending <= sourcePos'
    BY <1>1 DEF QueueOrder
  <2>3. QED
    BY <1>2, <2>1, <2>2 DEF QueueOrder, Past, First
<1>5. SentOrder'
  <2>1. \A x \in sent : x < Frontier'
    BY <1>1, <1>3 DEF SentOrder
  <2>2. QED
    BY <1>2, <2>1 DEF SentOrder, First
<1>6. QED
  BY <1>4, <1>5

LEMMA PublishKeepsOrder ==
  ASSUME ConsecutiveInv, QueueOrder, SentOrder, pending > 0, PublishPending,
         UNCHANGED <<readPos, sourcePos, senderPc, sent>>
  PROVE  QueueOrder' /\ SentOrder'
<1>1. /\ writePos \in SlotIds /\ readPos \in SlotIds /\ slots \in [SlotIds -> Packets]
      /\ pending \in Nat /\ pendingSequence \in Nat /\ sourcePos \in Nat /\ sent \subseteq Nat
      /\ QueuedSlots \subseteq SlotIds
      /\ \A s \in SlotIds : First(s) \in Nat /\ Past(s) \in Nat
      /\ First(writePos) = pendingSequence /\ After(writePos) # readPos
  BY StreamTypes DEF ConsecutiveInv, RingInv, SlotReserved, Filling, QueueFull, First
<1>2. QueuedSlots' = QueuedSlots \union {writePos} /\ writePos \notin QueuedSlots
  BY <1>1, BetweenGrows, BetweenSteps DEF QueuedSlots, PublishPending
<1>3. /\ \A s \in SlotIds : slots'[s].sequence = slots[s].sequence
      /\ \A s \in SlotIds \ {writePos} : slots'[s] = slots[s]
      /\ slots'[writePos].count = pending
  BY <1>1 DEF PublishPending, Packets
<1>4. Frontier = pendingSequence /\ Frontier' = sourcePos /\ pending' = 0
      /\ pendingSequence + pending <= sourcePos
  BY DEF Frontier, PublishPending, QueueOrder
<1>5. ASSUME NEW s \in QueuedSlots', NEW t \in QueuedSlots', s \in SlotsBetween(readPos, t)
      PROVE  Past(s)' <= First(t)'
  <2>1. s \in QueuedSlots
    <3> SUFFICES ASSUME s = writePos PROVE FALSE
      BY <1>2
    <3>1. CASE t = writePos
      BY <1>1, <1>5, <3>1, BetweenSteps
    <3>2. CASE t \in SlotsBetween(readPos, writePos)
      BY <1>1, <1>5, <3>2, BetweenNests
    <3>3. QED
      BY <1>2, <1>5, <3>1, <3>2 DEF QueuedSlots
  <2>2. Past(s)' = Past(s) /\ First(t)' = First(t)
    BY <1>1, <1>2, <1>3, <1>5, <2>1 DEF Past, First
  <2>3. CASE t = writePos
    BY <1>1, <1>4, <2>1, <2>2, <2>3 DEF QueueOrder
  <2>4. CASE t # writePos
    BY <1>2, <1>5, <2>1, <2>2, <2>4 DEF QueueOrder
  <2>5. QED
    BY <2>3, <2>4
<1>6. ASSUME NEW s \in QueuedSlots' PROVE Past(s)' <= Frontier'
  <2>1. CASE s = writePos
    BY <1>1, <1>3, <1>4, <2>1 DEF Past, First
  <2>2. CASE s # writePos
    <3>1. Past(s)' = Past(s) /\ Past(s) <= pendingSequence /\ Past(s) \in Nat
      BY <1>1, <1>2, <1>3, <1>4, <1>6, <2>2 DEF Past, QueueOrder
    <3>2. QED
      BY <1>1, <1>4, <3>1
  <2>3. QED
    BY <2>1, <2>2
<1>7. QueueOrder'
  BY <1>4, <1>5, <1>6 DEF QueueOrder
<1>8. ASSUME NEW x \in sent PROVE x < Frontier' /\ \A s \in Unread' : x < First(s)'
  <2>1. x \in Nat /\ x < pendingSequence
    BY <1>1, <1>4 DEF SentOrder
  <2>2. ASSUME NEW s \in Unread' PROVE x < First(s)'
    <3>1. CASE s = writePos
      BY <1>1, <1>3, <2>1, <3>1 DEF First
    <3>2. CASE s # writePos
      BY <1>1, <1>2, <1>3, <2>2, <3>2 DEF Unread, SentOrder, First
    <3>3. QED
      BY <3>1, <3>2
  <2>3. QED
    BY <1>1, <1>4, <2>1, <2>2
<1>9. senderPc = "advance" => PayloadTimes(slots'[readPos]) \subseteq sent
  <2> SUFFICES ASSUME senderPc = "advance" PROVE PayloadTimes(slots'[readPos]) \subseteq sent
    OBVIOUS
  <2>1. readPos # writePos
    BY <1>2 DEF ConsecutiveInv, RingInv, NoSlotRace, Reading
  <2>2. QED
    BY <1>1, <1>3, <2>1 DEF SentOrder
<1>10. QED
  BY <1>7, <1>8, <1>9 DEF SentOrder

(* The times of a queued packet.                                            *)
LEMMA PayloadIs ==
  ASSUME ConsecutiveInv, NEW s \in QueuedSlots
  PROVE  /\ PayloadTimes(slots[s]) = {x \in Nat : First(s) <= x /\ x < Past(s)}
         /\ First(s) \in Nat /\ Past(s) \in Nat /\ First(s) < Past(s)
<1>1. /\ slots[s].sequence \in Nat /\ slots[s].count \in Nat \ {0}
      /\ \A i \in 0 .. slots[s].count - 1 : slots[s].samples[i] = slots[s].sequence + i
  BY StreamTypes, StreamAssumption DEF ConsecutiveInv, Consecutive, RingInv, TypeOK, First
<1>2. ASSUME NEW x \in PayloadTimes(slots[s])
      PROVE  x \in Nat /\ First(s) <= x /\ x < Past(s)
  BY <1>1, <1>2 DEF PayloadTimes, First, Past
<1>3. ASSUME NEW x \in Nat, First(s) <= x, x < Past(s)
      PROVE  x \in PayloadTimes(slots[s])
  <2>1. x - slots[s].sequence \in 0 .. slots[s].count - 1
    BY <1>1, <1>3 DEF First, Past
  <2>2. x = slots[s].samples[x - slots[s].sequence]
    BY <1>1, <2>1
  <2>3. QED
    BY <2>1, <2>2 DEF PayloadTimes
<1>4. QED
  BY <1>1, <1>2, <1>3 DEF First, Past

(* A packet whose samples are n consecutive times holds exactly those times. *)
LEMMA RunOfTimes ==
  ASSUME NEW n \in Nat, NEW first \in Nat, NEW f,
         n > 0 => \A i \in 0 .. n - 1 : f[i] = first + i
  PROVE  {f[i] : i \in 0 .. n - 1} = {x \in Nat : n > 0 /\ first <= x /\ x < first + n}
<1>1. ASSUME NEW x \in {f[i] : i \in 0 .. n - 1}
      PROVE  x \in Nat /\ n > 0 /\ first <= x /\ x < first + n
  <2>1. PICK i \in 0 .. n - 1 : x = f[i]
    OBVIOUS
  <2>2. i \in Nat /\ i < n /\ n > 0
    OBVIOUS
  <2>3. x = first + i
    BY <2>1, <2>2
  <2>4. QED
    BY <2>2, <2>3
<1>2. ASSUME NEW x \in Nat, n > 0, first <= x, x < first + n
      PROVE  x \in {f[i] : i \in 0 .. n - 1}
  <2>1. x - first \in 0 .. n - 1
    BY <1>2
  <2>2. x = f[x - first]
    BY <1>2, <2>1
  <2>3. QED
    BY <2>1, <2>2
<1>3. QED
  BY <1>1, <1>2

(* The times under construction, before a step and after it.                *)
LEMMA PendingIs ==
  ASSUME ConsecutiveInv
  PROVE  PendingTimes = {x \in Nat : pending > 0 /\ pendingSequence <= x
                                                 /\ x < pendingSequence + pending}
<1>1. /\ pending \in Nat /\ pendingSequence \in Nat
      /\ pending > 0 => \A i \in 0 .. pending - 1 :
                          slots[writePos].samples[i] = pendingSequence + i
  BY StreamTypes DEF ConsecutiveInv, Consecutive
<1>2. QED
  BY <1>1, RunOfTimes DEF PendingTimes

LEMMA PendingIsNext ==
  ASSUME ConsecutiveInv', pending' \in Nat, pendingSequence' \in Nat
  PROVE  PendingTimes' = {x \in Nat : pending' > 0 /\ pendingSequence' <= x
                                                  /\ x < pendingSequence' + pending'}
<1>1. pending' > 0 => \A i \in 0 .. pending' - 1 :
                        slots'[writePos'].samples[i] = pendingSequence' + i
  BY DEF ConsecutiveInv, Consecutive
<1>2. QED
  BY <1>1, RunOfTimes DEF PendingTimes

LEMMA StartKeepsOrder ==
  ASSUME ConsecutiveInv, QueueOrder, SentOrder, StartPacket
  PROVE  QueueOrder' /\ SentOrder'
<1>1. /\ writePos \in SlotIds /\ readPos \in SlotIds /\ slots \in [SlotIds -> Packets]
      /\ pending = 0 /\ QueuedSlots \subseteq SlotIds /\ writePos \notin QueuedSlots
  BY StreamTypes, BetweenSteps DEF ConsecutiveInv, StartPacket, QueuedSlots
<1>2. /\ QueuedSlots' = QueuedSlots /\ Unread' = Unread /\ Frontier' = Frontier
      /\ pending' = 0 /\ readPos' = readPos /\ sent' = sent /\ senderPc' = senderPc
  BY <1>1 DEF StartPacket, QueuedSlots, Unread, Frontier, senderVars
<1>3. \A s \in QueuedSlots : slots'[s] = slots[s]
  BY <1>1 DEF StartPacket
<1>4. \A s \in QueuedSlots : First(s)' = First(s) /\ Past(s)' = Past(s)
  BY <1>3 DEF First, Past
<1>5. QueueOrder'
  BY <1>2, <1>4 DEF QueueOrder
<1>6. senderPc = "advance" => readPos \in QueuedSlots
  BY DEF ConsecutiveInv, RingInv, NoSlotRace, Reading
<1>7. SentOrder'
  BY <1>2, <1>3, <1>4, <1>6 DEF SentOrder, Unread
<1>8. QED
  BY <1>5, <1>7

LEMMA CopyKeepsOrder ==
  ASSUME ConsecutiveInv, QueueOrder, SentOrder, CopySamples
  PROVE  QueueOrder' /\ SentOrder'
<1>1. /\ writePos \in SlotIds /\ readPos \in SlotIds /\ slots \in [SlotIds -> Packets]
      /\ pending \in Nat /\ pendingSequence \in Nat /\ sourcePos \in Nat
      /\ QueuedSlots \subseteq SlotIds /\ writePos \notin QueuedSlots
  BY StreamTypes, BetweenSteps DEF ConsecutiveInv, QueuedSlots
<1>2. Chunk \in Nat /\ pending + Chunk > 0
  <2>1. RingInv /\ pending' = pending + Chunk /\ sourcePos < end
    BY DEF ConsecutiveInv, RingInv, CopySamples
  <2>2. Chunk \in Nat
    BY <1>1, <2>1, StreamAssumption DEF RingInv, TypeOK, Chunk, Times
  <2>3. pending' \in 1 .. publishThreshold
    BY <2>1, CopyKeepsType
  <2>4. QED
    BY <2>1, <2>2, <2>3
<1>3. sourcePos = pendingSequence + pending
  BY DEF ConsecutiveInv, CopySamples, Continues
<1>4. /\ QueuedSlots' = QueuedSlots /\ Unread' = Unread
      /\ pending' = pending + Chunk /\ sourcePos' = sourcePos + Chunk
      /\ readPos' = readPos /\ sent' = sent /\ senderPc' = senderPc
      /\ pendingSequence' = pendingSequence
  BY DEF CopySamples, QueuedSlots, Unread, senderVars
<1>5. Frontier' = Frontier /\ pendingSequence' + pending' = sourcePos'
  BY <1>1, <1>2, <1>3, <1>4 DEF Frontier
<1>6. \A s \in QueuedSlots : slots'[s] = slots[s]
  BY <1>1 DEF CopySamples
<1>7. \A s \in QueuedSlots : First(s)' = First(s) /\ Past(s)' = Past(s)
  BY <1>6 DEF First, Past
<1>8. QueueOrder'
  <2>1. sourcePos' \in Nat
    BY <1>1, <1>2, <1>4
  <2>2. QED
    BY <1>4, <1>5, <1>7, <2>1 DEF QueueOrder
<1>9. senderPc = "advance" => readPos \in QueuedSlots
  BY DEF ConsecutiveInv, RingInv, NoSlotRace, Reading
<1>10. SentOrder'
  BY <1>4, <1>5, <1>6, <1>7, <1>9 DEF SentOrder, Unread
<1>11. QED
  BY <1>8, <1>10

LEMMA SendKeepsOrder ==
  ASSUME ConsecutiveInv, QueueOrder, SentOrder, SendPacket
  PROVE  QueueOrder' /\ SentOrder'
<1>1. /\ readPos \in QueuedSlots /\ readPos \in SlotIds /\ QueuedSlots \subseteq SlotIds
      /\ senderPc = "send" /\ senderPc' = "advance"
      /\ sent' = sent \union PayloadTimes(slots[readPos])
      /\ UNCHANGED <<slots, writePos, pending, readPos, pendingSequence, sourcePos>>
  BY StreamTypes DEF ConsecutiveInv, RingInv, NoSlotRace, Reading, SendPacket, ringVars, ownerVars
<1>2. QueuedSlots' = QueuedSlots /\ Unread' = QueuedSlots \ {readPos} /\ Unread = QueuedSlots
      /\ Frontier' = Frontier
  BY <1>1 DEF QueuedSlots, Unread, Frontier
<1>3. QueueOrder'
  BY <1>1, <1>2 DEF QueueOrder, First, Past
<1>4. ASSUME NEW x \in PayloadTimes(slots[readPos])
      PROVE  x < Frontier /\ \A s \in QueuedSlots \ {readPos} : x < First(s)
  <2>1. x \in Nat /\ x < Past(readPos) /\ Past(readPos) \in Nat /\ Past(readPos) <= Frontier
    BY <1>1, <1>4, PayloadIs DEF QueueOrder
  <2>2. Frontier \in Nat
    BY StreamTypes DEF ConsecutiveInv, Frontier
  <2>3. ASSUME NEW s \in QueuedSlots \ {readPos} PROVE x < First(s)
    <3>1. readPos \in SlotsBetween(readPos, s)
      BY <1>1, FirstIsBetween
    <3>2. Past(readPos) <= First(s) /\ First(s) \in Nat
      BY <1>1, <3>1, PayloadIs DEF QueueOrder
    <3>3. QED
      BY <2>1, <3>2
  <2>4. QED
    BY <2>1, <2>2, <2>3
<1>5. SentOrder'
  BY <1>1, <1>2, <1>4 DEF SentOrder, First
<1>6. QED
  BY <1>3, <1>5

LEMMA AdvanceKeepsOrder ==
  ASSUME ConsecutiveInv, QueueOrder, SentOrder, AdvanceRead
  PROVE  QueueOrder' /\ SentOrder' /\ QueuedSlots' = QueuedSlots \ {readPos}
<1>1. /\ writePos \in SlotIds /\ readPos \in SlotIds /\ QueuedSlots \subseteq SlotIds
      /\ readPos # writePos /\ readPos' = After(readPos)
      /\ senderPc = "advance" /\ senderPc' = "drain"
      /\ UNCHANGED <<slots, writePos, pending, pendingSequence, sourcePos, sent>>
  BY StreamTypes, ReadIsQueued
     DEF ConsecutiveInv, RingInv, NoSlotRace, Reading, AdvanceRead, ringVars, ownerVars
<1>2. QueuedSlots' = QueuedSlots \ {readPos} /\ Frontier' = Frontier
      /\ Unread' = QueuedSlots \ {readPos} /\ Unread = QueuedSlots \ {readPos}
  BY <1>1, BetweenShrinks DEF QueuedSlots, Unread, Frontier
<1>3. ASSUME NEW t \in QueuedSlots'
      PROVE  SlotsBetween(readPos', t) \subseteq SlotsBetween(readPos, t)
  BY <1>1, <1>2, <1>3, BetweenShrinks
<1>4. QueueOrder'
  BY <1>1, <1>2, <1>3 DEF QueueOrder, First, Past
<1>5. SentOrder'
  BY <1>1, <1>2 DEF SentOrder, First
<1>6. QED
  BY <1>2, <1>4, <1>5

LEMMA NextLife == RingInv /\ LifeInv /\ [Next]_vars => LifeInv'
<1> SUFFICES ASSUME RingInv, LifeInv, [Next]_vars PROVE LifeInv'
  OBVIOUS
<1>1. CASE OwnerStep
  <2>1. CASE ReleaseStream
    BY <2>1 DEF ReleaseStream, LifeInv, MutexFree, PublishPending, ringVars, senderVars, RingInv, TypeOK
  <2>2. CASE WatchAddA \/ WatchAddK \/ WatchAddP
    BY <2>2 DEF WatchAddA, WatchAddK, WatchAddP, BeginCall, LifeInv, ringVars, senderVars
  <2>3. CASE PerfStep
    BY <2>3 DEF PerfStep, PublishAtGap, DropRest, StartPacket, ContinuePacket, CopySamples,
       PublishFull, EndCall, LifeInv, ringVars, senderVars, ownerVars
  <2>4. QED
    BY <1>1, <2>1, <2>2, <2>3 DEF OwnerStep
<1>2. CASE PassStep \/ SendFails \/ GraphStep
  <2>1. UNCHANGED <<released, ownerPc, pending>>
    BY <1>2 DEF PassStep, BeginPass, TakePacket, EndDrain, SendPacket, AdvanceRead,
       ReleaseFinished, SendFails, GraphStep, ReceiveAck, ChangeTheme, RequestGraphClose,
       ringVars, ownerVars
  <2>2. CASE ReleaseFinished
    <3>1. senderPc' = "idle" /\ freed' = (released /\ (Abandoned \/ TransferComplete))
      BY <2>2 DEF ReleaseFinished
    <3>2. freed' => released
      BY <3>1, Zenon
    <3>3. QED
      BY <2>1, <3>1, <3>2 DEF LifeInv
  <2>3. CASE GraphStep
    BY <2>1, <2>3 DEF GraphStep, ReceiveAck, ChangeTheme, RequestGraphClose, LifeInv, senderVars
  <2>4. CASE BeginPass
    BY <2>1, <2>4 DEF BeginPass, LifeInv
  <2>5. CASE TakePacket \/ EndDrain \/ SendPacket \/ AdvanceRead \/ SendFails
    <3>1. senderPc # "idle" /\ UNCHANGED freed
      BY <2>5 DEF TakePacket, EndDrain, SendPacket, AdvanceRead, SendFails
    <3>2. QED
      BY <2>1, <3>1 DEF LifeInv
  <2>6. QED
    BY <1>2, <2>2, <2>3, <2>4, <2>5 DEF PassStep
<1>3. CASE UNCHANGED vars
  BY <1>3 DEF vars, LifeInv, ringVars, ownerVars, senderVars
<1>4. QED
  BY <1>1, <1>2, <1>3 DEF Next, Gone

LEMMA NextOrder == OrderInv /\ [Next]_vars => OrderInv'
<1> SUFFICES ASSUME OrderInv, [Next]_vars PROVE OrderInv'
  OBVIOUS
<1>1. ConsecutiveInv /\ RingInv /\ QueueOrder /\ SentOrder /\ LifeInv
  BY DEF OrderInv, ConsecutiveInv
<1>2. ConsecutiveInv' /\ LifeInv'
  BY <1>1, NextConsecutive, NextLife
<1>3. sourcePos \in Nat /\ end \in Nat /\ sourcePos <= end
  BY <1>1, StreamTypes
<1>4. QueueOrder' /\ SentOrder'
  <2>1. ASSUME NEW first, NEW last, first \in Nat, end <= first, BeginCall(first, last)
        PROVE  QueueOrder' /\ SentOrder'
    BY <1>1, <1>3, <2>1, SameOrder DEF BeginCall, senderVars
  <2>2. CASE WatchAddA
    BY <1>3, <2>1, <2>2 DEF WatchAddA
  <2>3. CASE WatchAddK
    BY <1>3, <2>1, <2>3 DEF WatchAddK
  <2>4. CASE WatchAddP
    BY <1>3, <2>1, <2>4 DEF WatchAddP
  <2>5. CASE PublishAtGap
    BY <1>1, <2>5, PublishKeepsOrder DEF PublishAtGap, ownerVars, senderVars
  <2>6. CASE DropRest
    BY <1>1, <1>3, <2>6, SameOrder DEF DropRest, senderVars
  <2>7. CASE StartPacket
    BY <1>1, <2>7, StartKeepsOrder
  <2>8. CASE ContinuePacket \/ EndCall
    BY <1>1, <1>3, <2>8, SameOrder DEF ContinuePacket, EndCall, senderVars
  <2>9. CASE CopySamples
    BY <1>1, <2>9, CopyKeepsOrder
  <2>10. CASE PublishFull
    BY <1>1, <2>10, PublishKeepsOrder DEF PublishFull, RingInv, senderVars
  <2>11. CASE ReleaseStream
    <3>1. CASE pending > 0
      BY <1>1, <2>11, <3>1, PublishKeepsOrder DEF ReleaseStream, senderVars
    <3>2. CASE ~(pending > 0)
      BY <1>1, <1>3, <2>11, <3>2, SameOrder DEF ReleaseStream, senderVars
    <3>3. QED
      BY <3>1, <3>2
  <2>12. CASE BeginPass \/ TakePacket \/ EndDrain \/ ReleaseFinished \/ SendFails
    BY <1>1, <1>3, <2>12, SameOrder
       DEF BeginPass, TakePacket, EndDrain, ReleaseFinished, SendFails, ownerVars, MutexFree
  <2>13. CASE SendPacket
    BY <1>1, <2>13, SendKeepsOrder
  <2>14. CASE AdvanceRead
    BY <1>1, <2>14, AdvanceKeepsOrder
  <2>15. CASE GraphStep
    BY <1>1, <1>3, <2>15, SameOrder
       DEF GraphStep, ReceiveAck, ChangeTheme, RequestGraphClose, ownerVars, senderVars
  <2>16. CASE UNCHANGED vars
    BY <1>1, <1>3, <2>16, SameOrder DEF vars, ownerVars, senderVars
  <2>17. QED
    BY <2>2, <2>3, <2>4, <2>5, <2>6, <2>7, <2>8, <2>9, <2>10, <2>11, <2>12, <2>13, <2>14,
       <2>15, <2>16 DEF Next, OwnerStep, PerfStep, PassStep, Gone
<1>5. QED
  BY <1>2, <1>4 DEF OrderInv

LEMMA OrderInvariant == Spec => []OrderInv
BY InitOrder, NextOrder, PTL DEF Spec

(* A stream is freed only when its instance has released it and, unless    *)
(* its graph is abandoned, everything taken from the signal was sent.      *)
THEOREM FreedWhenDrained == Spec => FreedOnlyWhenDrained
<1> DEFINE Drained == freed' /\ ~freed => ownerPc = "gone" /\ (UnsentTimes = {} \/ Abandoned)
<1>1. ASSUME OrderInv, [Next]_vars PROVE Drained
  <2> SUFFICES ASSUME freed', ~freed
               PROVE  ownerPc = "gone" /\ (UnsentTimes = {} \/ Abandoned)
    OBVIOUS
  <2>1. ReleaseFinished
    BY <1>1 DEF Next, OwnerStep, WatchAddA, WatchAddK, WatchAddP, BeginCall, PerfStep,
       PublishAtGap, DropRest, StartPacket, ContinuePacket, CopySamples, PublishFull, EndCall,
       ReleaseStream, PassStep, BeginPass, TakePacket, EndDrain, SendPacket, AdvanceRead,
       SendFails, GraphStep, ReceiveAck, ChangeTheme, RequestGraphClose, Gone, vars
  <2>2. ownerPc = "gone" /\ (Abandoned \/ TransferComplete)
    BY <1>1, <2>1 DEF ReleaseFinished, OrderInv, LifeInv
  <2>3. ASSUME TransferComplete PROVE UnsentTimes = {}
    <3>1. QueuedSlots = {} /\ pending = 0
      BY <1>1, <2>3, StreamTypes
         DEF TransferComplete, QueuedSlots, SlotsBetween, OrderInv, ConsecutiveInv, SlotIds
    <3>2. PendingTimes = {}
      BY <1>1, <3>1, PendingIs DEF OrderInv
    <3>3. QED
      BY <3>1, <3>2 DEF UnsentTimes
  <2>4. QED
    BY <2>2, <2>3
<1>2. OrderInv /\ [Next]_vars => [Drained]_vars
  BY <1>1
<1>3. QED
  BY <1>2, OrderInvariant, PTL DEF Spec, FreedOnlyWhenDrained

-----------------------------------------------------------------------------
(* The stream implements the channel.                                      *)

(* Whatever is taken is either sent, or before everything left.            *)
LEMMA TakenIs ==
  ASSUME OrderInv
  PROVE  /\ Taken \subseteq Nat /\ sent \subseteq Taken
         /\ \A x \in Taken : x < sourcePos
<1>1. /\ ConsecutiveInv /\ QueueOrder /\ SentOrder /\ sourcePos \in Nat /\ pending \in Nat
      /\ pendingSequence \in Nat /\ sent \subseteq Nat
  BY StreamTypes DEF OrderInv, ConsecutiveInv
<1>2. Frontier \in Nat /\ Frontier <= sourcePos
  BY <1>1 DEF QueueOrder, Frontier
<1>3. ASSUME NEW x \in sent PROVE x \in Nat /\ x < sourcePos
  BY <1>1, <1>2 DEF SentOrder
<1>4. ASSUME NEW x \in QueuedTimes PROVE x \in Nat /\ x < sourcePos
  <2>1. PICK s \in QueuedSlots : x \in PayloadTimes(slots[s])
    BY <1>4 DEF QueuedTimes
  <2>2. x \in Nat /\ x < Past(s) /\ Past(s) <= Frontier /\ Past(s) \in Nat
    BY <1>1, <2>1, PayloadIs DEF QueueOrder
  <2>3. QED
    BY <1>1, <1>2, <2>2
<1>5. ASSUME NEW x \in PendingTimes PROVE x \in Nat /\ x < sourcePos
  <2>1. x \in Nat /\ pending > 0 /\ x < pendingSequence + pending
    BY <1>1, <1>5, PendingIs
  <2>2. QED
    BY <1>1, <2>1 DEF QueueOrder
<1>6. QED
  BY <1>3, <1>4, <1>5 DEF Taken

(* A step that takes nothing, sends nothing and frees nothing is a stutter *)
(* of the channel.                                                         *)
LEMMA Stutters ==
  ASSUME Taken' = Taken, UNCHANGED <<sent, closeRequested, freed>>
  PROVE  UNCHANGED Channel!vars
BY DEF Channel!vars, Ended

LEMMA PublishTakesNothing ==
  ASSUME OrderInv, pending > 0, PublishPending, UNCHANGED <<readPos, sent>>
  PROVE  Taken' = Taken
<1>1. /\ writePos \in SlotIds /\ readPos \in SlotIds /\ slots \in [SlotIds -> Packets]
      /\ QueuedSlots \subseteq SlotIds /\ After(writePos) # readPos
  BY StreamTypes DEF OrderInv, ConsecutiveInv, RingInv, SlotReserved, Filling, QueueFull
<1>2. QueuedSlots' = QueuedSlots \union {writePos} /\ writePos \notin QueuedSlots
  BY <1>1, BetweenGrows, BetweenSteps DEF QueuedSlots, PublishPending
<1>3. /\ \A s \in QueuedSlots : slots'[s] = slots[s]
      /\ slots'[writePos].count = pending
      /\ slots'[writePos].samples = slots[writePos].samples
  BY <1>1, <1>2 DEF PublishPending, Packets
<1>4. PayloadTimes(slots'[writePos]) = PendingTimes
  BY <1>3 DEF PayloadTimes, PendingTimes
<1>5. QueuedTimes' = QueuedTimes \union PendingTimes
  BY <1>2, <1>3, <1>4 DEF QueuedTimes
<1>6. PendingTimes' = {}
  BY DEF PendingTimes, PublishPending
<1>7. QED
  BY <1>5, <1>6 DEF Taken

(* Copying takes the samples the call has next.                            *)
LEMMA CopyAdds ==
  ASSUME OrderInv, OrderInv', CopySamples
  PROVE  /\ Taken' = Taken \union (sourcePos .. sourcePos' - 1)
         /\ sourcePos \in Nat /\ sourcePos' \in Nat /\ sourcePos <= sourcePos'
<1>1. /\ ConsecutiveInv /\ QueueOrder /\ SentOrder /\ LifeInv /\ RingInv
      /\ ConsecutiveInv' /\ QueueOrder' /\ RingInv'
  BY DEF OrderInv, ConsecutiveInv
<1>2. /\ writePos \in SlotIds /\ readPos \in SlotIds /\ slots \in [SlotIds -> Packets]
      /\ pending \in Nat /\ pendingSequence \in Nat /\ sourcePos \in Nat
      /\ QueuedSlots \subseteq SlotIds /\ writePos \notin QueuedSlots
  BY <1>1, StreamTypes, BetweenSteps DEF QueuedSlots
<1>3. /\ sourcePos = pendingSequence + pending /\ pendingSequence' = pendingSequence
      /\ pending' = pending + Chunk /\ Chunk \in Nat /\ sourcePos' = sourcePos + Chunk
      /\ UNCHANGED sent
  BY <1>1, StreamAssumption
     DEF ConsecutiveInv, CopySamples, Continues, RingInv, TypeOK, Chunk, Times
<1>4. QueuedTimes' = QueuedTimes
  BY <1>2 DEF CopySamples, QueuedTimes, QueuedSlots
<1>5. /\ PendingTimes = {x \in Nat : pending > 0 /\ pendingSequence <= x
                                                 /\ x < pendingSequence + pending}
      /\ PendingTimes' = {x \in Nat : pending' > 0 /\ pendingSequence' <= x
                                                   /\ x < pendingSequence' + pending'}
  <2>1. pending' \in Nat /\ pendingSequence' \in Nat
    BY <1>2, <1>3
  <2>2. QED
    BY <1>1, <2>1, PendingIs, PendingIsNext
<1>6. PendingTimes' = PendingTimes \union (sourcePos .. sourcePos' - 1)
  <2>1. ASSUME NEW x \in PendingTimes'
        PROVE  x \in PendingTimes \/ x \in sourcePos .. sourcePos' - 1
    BY <1>2, <1>3, <1>5, <2>1
  <2>2. ASSUME NEW x, x \in PendingTimes \/ x \in sourcePos .. sourcePos' - 1
        PROVE  x \in PendingTimes'
    BY <1>2, <1>3, <1>5, <2>2
  <2>3. QED
    BY <2>1, <2>2
<1>7. QED
  BY <1>2, <1>3, <1>4, <1>6 DEF Taken

LEMMA CopyTakes ==
  ASSUME OrderInv, OrderInv', CopySamples
  PROVE  Channel!Take
<1>1. /\ Taken' = Taken \union (sourcePos .. sourcePos' - 1)
      /\ sourcePos \in Nat /\ sourcePos' \in Nat
  BY CopyAdds
<1>2. LifeInv /\ ownerPc = "copy" /\ UNCHANGED <<sent, closeRequested, freed>>
  BY DEF CopySamples, graphVars, OrderInv
<1>3. \A new \in Taken' \ Taken, old \in Taken : old < new
  BY <1>1, TakenIs
<1>4. Taken \subseteq Taken' /\ Taken' \subseteq Nat
  BY <1>1, TakenIs
<1>5. Ended = "open" /\ Ended' = "open"
  BY <1>2 DEF LifeInv, Ended
<1>6. QED
  BY <1>2, <1>3, <1>4, <1>5 DEF Channel!Take

LEMMA SendSends ==
  ASSUME OrderInv, SendPacket
  PROVE  Channel!Send
<1>1. /\ ConsecutiveInv /\ QueueOrder /\ SentOrder /\ LifeInv
      /\ readPos \in QueuedSlots /\ readPos \in SlotIds /\ QueuedSlots \subseteq SlotIds
      /\ sent \subseteq Nat /\ pendingSequence \in Nat /\ sourcePos \in Nat /\ pending \in Nat
      /\ senderPc = "send" /\ sent' = sent \union PayloadTimes(slots[readPos])
      /\ UNCHANGED <<slots, writePos, pending, readPos, closeRequested, freed>>
  BY StreamTypes DEF OrderInv, ConsecutiveInv, RingInv, NoSlotRace, Reading, SendPacket,
     ringVars, graphVars
<1>2. PayloadTimes(slots[readPos]) \subseteq QueuedTimes
  BY <1>1 DEF QueuedTimes
<1>3. QueuedTimes' = QueuedTimes /\ PendingTimes' = PendingTimes
  BY <1>1 DEF QueuedTimes, QueuedSlots, PendingTimes
<1>4. Taken' = Taken /\ sent \subseteq sent' /\ sent' \subseteq Taken
  BY <1>1, <1>2, <1>3 DEF Taken
<1>5. Ended = "open" /\ Ended' = "open"
  BY <1>1 DEF LifeInv, Ended
<1>6. ASSUME NEW gone \in sent', NEW left \in Taken \ sent'
      PROVE  gone < left
  <2>1. Frontier \in Nat
    BY <1>1 DEF Frontier
  <2>2. gone \in Nat /\ gone < Frontier
        /\ \A s \in QueuedSlots \ {readPos} : gone < First(s)
    <3>1. CASE gone \in sent
      BY <1>1, <3>1 DEF SentOrder, Unread
    <3>2. CASE gone \in PayloadTimes(slots[readPos])
      <4>1. gone \in Nat /\ gone < Past(readPos) /\ Past(readPos) \in Nat
            /\ Past(readPos) <= Frontier
        BY <1>1, <3>2, PayloadIs DEF QueueOrder
      <4>2. ASSUME NEW s \in QueuedSlots \ {readPos} PROVE gone < First(s)
        <5>1. readPos \in SlotsBetween(readPos, s)
          BY <1>1, FirstIsBetween
        <5>2. Past(readPos) <= First(s) /\ First(s) \in Nat
          BY <1>1, <5>1, PayloadIs DEF QueueOrder
        <5>3. QED
          BY <4>1, <5>2
      <4>3. QED
        BY <2>1, <4>1, <4>2
    <3>3. QED
      BY <1>1, <1>6, <3>1, <3>2
  <2>3. CASE left \in PendingTimes
    <3>1. left \in Nat /\ pending > 0 /\ pendingSequence <= left
      BY <1>1, <2>3, PendingIs
    <3>2. QED
      BY <1>1, <2>2, <3>1 DEF Frontier
  <2>4. CASE left \in QueuedTimes
    <3>1. PICK s \in QueuedSlots : left \in PayloadTimes(slots[s])
      BY <2>4 DEF QueuedTimes
    <3>2. s # readPos
      BY <1>1, <1>6, <3>1
    <3>3. left \in Nat /\ First(s) <= left /\ First(s) \in Nat
      BY <1>1, <3>1, PayloadIs
    <3>4. QED
      BY <2>2, <3>1, <3>2, <3>3
  <2>5. QED
    BY <1>1, <1>6, <2>3, <2>4 DEF Taken
<1>7. QED
  BY <1>1, <1>4, <1>5, <1>6 DEF Channel!Send

(* Only copying takes samples.                                             *)
LEMMA TakenStays ==
  ASSUME OrderInv, [Next]_vars, ~CopySamples
  PROVE  Taken' = Taken
<1>1. ConsecutiveInv /\ RingInv /\ QueueOrder /\ SentOrder /\ LifeInv
  BY DEF OrderInv, ConsecutiveInv
<1>same. ASSUME UNCHANGED <<slots, writePos, pending, readPos, sent>>
         PROVE  Taken' = Taken
  BY <1>same DEF Taken, QueuedTimes, QueuedSlots, PendingTimes
<1>2. CASE WatchAddA \/ WatchAddK \/ WatchAddP \/ DropRest \/ ContinuePacket \/ EndCall
  BY <1>2, <1>same DEF WatchAddA, WatchAddK, WatchAddP, BeginCall, DropRest, ContinuePacket,
     EndCall, ringVars
<1>3. CASE PublishAtGap \/ PublishFull
  BY <1>1, <1>3, PublishTakesNothing DEF PublishAtGap, PublishFull, RingInv
<1>4. CASE StartPacket
  <2>1. /\ writePos \in SlotIds /\ readPos \in SlotIds /\ slots \in [SlotIds -> Packets]
        /\ pending = 0 /\ QueuedSlots \subseteq SlotIds /\ writePos \notin QueuedSlots
    BY <1>1, <1>4, StreamTypes, BetweenSteps DEF StartPacket, QueuedSlots
  <2>2. QueuedTimes' = QueuedTimes
    BY <1>4, <2>1 DEF StartPacket, QueuedTimes, QueuedSlots
  <2>3. PendingTimes' = {} /\ PendingTimes = {}
    BY <1>4, <2>1 DEF StartPacket, PendingTimes
  <2>4. QED
    BY <1>4, <2>2, <2>3 DEF Taken, StartPacket
<1>5. CASE ReleaseStream
  <2>1. CASE pending > 0
    BY <1>1, <1>5, <2>1, PublishTakesNothing DEF ReleaseStream
  <2>2. CASE ~(pending > 0)
    BY <1>5, <2>2, <1>same DEF ReleaseStream, ringVars
  <2>3. QED
    BY <2>1, <2>2
<1>6. CASE BeginPass \/ TakePacket \/ EndDrain \/ SendFails \/ ReleaseFinished
  BY <1>6, <1>same DEF BeginPass, TakePacket, EndDrain, SendFails, ReleaseFinished, ringVars
<1>7. CASE SendPacket
  <2>1. /\ readPos \in QueuedSlots /\ sent' = sent \union PayloadTimes(slots[readPos])
        /\ UNCHANGED <<slots, writePos, pending, readPos>>
    BY <1>1, <1>7 DEF RingInv, NoSlotRace, Reading, SendPacket, ringVars
  <2>2. PayloadTimes(slots[readPos]) \subseteq QueuedTimes
    BY <2>1 DEF QueuedTimes
  <2>3. QueuedTimes' = QueuedTimes /\ PendingTimes' = PendingTimes
    BY <2>1 DEF QueuedTimes, QueuedSlots, PendingTimes
  <2>4. QED
    BY <2>1, <2>2, <2>3 DEF Taken
<1>8. CASE AdvanceRead
  <2>1. /\ QueuedSlots' = QueuedSlots \ {readPos}
        /\ PayloadTimes(slots[readPos]) \subseteq sent
        /\ UNCHANGED <<slots, writePos, pending, sent>>
    BY <1>1, <1>8, AdvanceKeepsOrder DEF AdvanceRead, SentOrder, ringVars
  <2>2. QueuedTimes' \subseteq QueuedTimes /\ QueuedTimes \subseteq QueuedTimes' \union sent
    BY <2>1 DEF QueuedTimes
  <2>3. PendingTimes' = PendingTimes
    BY <2>1 DEF PendingTimes
  <2>4. QED
    BY <2>1, <2>2, <2>3 DEF Taken
<1>9. CASE GraphStep
  BY <1>9, <1>same DEF GraphStep, ReceiveAck, ChangeTheme, RequestGraphClose, ringVars
<1>10. CASE UNCHANGED vars
  BY <1>10, <1>same DEF vars, ringVars
<1>11. QED
  BY <1>2, <1>3, <1>4, <1>5, <1>6, <1>7, <1>8, <1>9, <1>10
     DEF Next, OwnerStep, PerfStep, PassStep, Gone

LEMMA StepImplements ==
  OrderInv /\ OrderInv' /\ [Next]_vars => [Channel!Next]_(Channel!vars)
<1> SUFFICES ASSUME OrderInv, OrderInv', [Next]_vars
             PROVE  Channel!Next \/ UNCHANGED Channel!vars
  OBVIOUS
<1>1. RingInv /\ LifeInv
  BY DEF OrderInv, ConsecutiveInv
<1>2. CASE CopySamples
  BY <1>2, CopyTakes DEF Channel!Next
<1>3. CASE ~CopySamples
  <2>1. Taken' = Taken
    BY <1>3, TakenStays
  <2>2. CASE SendPacket
    BY <2>2, SendSends DEF Channel!Next
  <2>3. CASE ReleaseFinished
    <3>1. /\ UNCHANGED <<slots, writePos, pending, readPos, sent, closeRequested>>
          /\ ~freed /\ freed' = (released /\ (Abandoned \/ TransferComplete))
      BY <1>1, <2>3 DEF ReleaseFinished, LifeInv, ringVars, graphVars
    <3>2. CASE ~freed'
      <4>1. freed' = freed
        BY <1>1, <3>1, <3>2 DEF RingInv, TypeOK
      <4>2. QED
        BY <2>1, <3>1, <4>1, Stutters
    <3>3. CASE freed' /\ sent = Taken
      <4>1. Ended = "open" /\ Ended' = "complete"
        BY <2>1, <3>1, <3>3 DEF Ended
      <4>2. Channel!Complete
        BY <2>1, <3>1, <3>3, <4>1 DEF Channel!Complete
      <4>3. QED
        BY <4>2 DEF Channel!Next
    <3>4. CASE freed' /\ sent # Taken
      <4>1. Ended = "open" /\ Ended' = "discarded"
        BY <2>1, <3>1, <3>4 DEF Ended
      <4>2. ~TransferComplete
        <5> SUFFICES ASSUME TransferComplete PROVE FALSE
          OBVIOUS
        <5>1. QueuedSlots = {} /\ pending = 0
          BY <1>1, StreamTypes DEF TransferComplete, QueuedSlots, SlotsBetween, SlotIds
        <5>2. QueuedTimes = {} /\ PendingTimes = {}
          BY <5>1, PendingIs DEF QueuedTimes, OrderInv
        <5>3. QED
          BY <3>4, <5>2 DEF Taken
      <4>3. Channel!Discard
        BY <2>1, <3>1, <3>4, <4>1, <4>2 DEF Channel!Discard, Abandoned
      <4>4. QED
        BY <4>3 DEF Channel!Next
    <3>5. QED
      BY <3>2, <3>3, <3>4
  <2>4. CASE RequestGraphClose
    <3>1. UNCHANGED <<sent, freed>> /\ ~freed /\ closeRequested'
      BY <2>4 DEF RequestGraphClose
    <3>2. Channel!Replace
      BY <2>1, <3>1 DEF Channel!Replace, Ended
    <3>3. QED
      BY <3>2 DEF Channel!Next
  <2>5. CASE ~SendPacket /\ ~ReleaseFinished /\ ~RequestGraphClose
    <3>1. UNCHANGED <<sent, closeRequested, freed>>
      BY <1>3, <2>5
         DEF Next, OwnerStep, WatchAddA, WatchAddK, WatchAddP, BeginCall, PerfStep,
             PublishAtGap, DropRest, StartPacket, ContinuePacket, PublishFull, EndCall,
             ReleaseStream, PassStep, BeginPass, TakePacket, EndDrain, AdvanceRead, SendFails,
             GraphStep, ReceiveAck, ChangeTheme, Gone, vars, graphVars
    <3>2. QED
      BY <2>1, <3>1, Stutters
  <2>6. QED
    BY <2>2, <2>3, <2>4, <2>5
<1>4. QED
  BY <1>2, <1>3

(* Samples reach the socket in order, each once, and a stream ends         *)
(* complete unless its graph is replaced: every behaviour of the ring, the *)
(* callback and the sender thread is one of the channel.                   *)
THEOREM StreamImplementsChannel == Spec => ChannelSpec
<1>1. Init => Channel!Init
  <2> SUFFICES ASSUME Init PROVE Channel!Init
    OBVIOUS
  <2>1. QueuedSlots = {} /\ sent = {} /\ pending = 0 /\ ~freed /\ ~closeRequested
    BY StreamAssumption DEF Init, QueuedSlots, SlotsBetween
  <2>2. Taken = {}
    BY <2>1 DEF Taken, QueuedTimes, PendingTimes
  <2>3. QED
    BY <2>1, <2>2 DEF Channel!Init, Ended, Init
<1>2. QED
  BY <1>1, StepImplements, OrderInvariant, PTL DEF Spec, ChannelSpec, Channel!Spec

-----------------------------------------------------------------------------
(* Accounts. What was offered has been taken or dropped, or is still to be *)
(* read by the call; between two calls nothing is.                         *)
AccountInv ==
  /\ offered = Taken \union lost \union RemainingTimes
  /\ lost \intersect Taken = {}
  /\ \A x \in lost : x < sourcePos
  /\ droppedSamples = Cardinality(lost)
  /\ ownerPc \in {"idle", "gone"} => sourcePos = end

LEMMA InitAccount == Init => AccountInv
<1> SUFFICES ASSUME Init PROVE AccountInv
  OBVIOUS
<1>1. QueuedSlots = {} /\ sent = {} /\ pending = 0 /\ lost = {} /\ offered = {}
  BY StreamAssumption DEF Init, QueuedSlots, SlotsBetween
<1>2. Taken = {} /\ RemainingTimes = {}
  BY <1>1 DEF Taken, QueuedTimes, PendingTimes, RemainingTimes, Init
<1>3. QED
  BY <1>1, <1>2, FS_EmptySet DEF AccountInv, Init

LEMMA AccountKept ==
  ASSUME AccountInv, Taken' = Taken,
         UNCHANGED <<offered, lost, droppedSamples, sourcePos, end>>,
         ownerPc' \in {"idle", "gone"} => sourcePos = end
  PROVE  AccountInv'
BY DEF AccountInv, RemainingTimes

(* A call offers the samples it is to read.                                *)
LEMMA CallKeepsAccount ==
  ASSUME OrderInv, AccountInv, Taken' = Taken,
         NEW first \in Nat, NEW last \in Nat, end <= first, BeginCall(first, last)
  PROVE  AccountInv'
<1>1. sourcePos \in Nat /\ end \in Nat /\ lost \subseteq Nat /\ sourcePos = end
  BY StreamTypes DEF OrderInv, ConsecutiveInv, RingInv, TypeOK, Times, AccountInv, BeginCall
<1>2. RemainingTimes = {} /\ RemainingTimes' = first .. last - 1
  BY <1>1 DEF RemainingTimes, BeginCall
<1>3. /\ offered' = offered \union (first .. last - 1) /\ sourcePos' = first
      /\ ownerPc' = "loop" /\ UNCHANGED <<lost, droppedSamples>>
  BY DEF BeginCall
<1>4. \A x \in lost' : x < sourcePos'
  BY <1>1, <1>3 DEF AccountInv
<1>5. QED
  BY <1>2, <1>3, <1>4 DEF AccountInv

(* The rest of a call is dropped and counted; nothing of it was taken.     *)
LEMMA DropKeepsAccount ==
  ASSUME OrderInv, AccountInv, Taken' = Taken, DropRest
  PROVE  AccountInv'
<1>1. /\ sourcePos \in Nat /\ end \in Nat /\ sourcePos < end
      /\ lost \subseteq 0 .. MaxTime /\ MaxTime \in Nat
  BY StreamTypes, StreamAssumption
     DEF OrderInv, ConsecutiveInv, RingInv, TypeOK, Times, DropRest
<1>2. /\ lost' = lost \union RemainingTimes /\ UNCHANGED <<offered, end>>
      /\ droppedSamples' = droppedSamples + (end - sourcePos) /\ sourcePos' = end
  BY DEF DropRest, RemainingTimes
<1>3. RemainingTimes' = {}
  BY <1>1, <1>2 DEF RemainingTimes
<1>4. lost' \intersect Taken' = {}
  BY <1>1, <1>2, TakenIs DEF AccountInv, RemainingTimes
<1>5. \A x \in lost' : x < sourcePos'
  BY <1>1, <1>2 DEF AccountInv, RemainingTimes
<1>6. droppedSamples' = Cardinality(lost')
  <2>1. IsFiniteSet(lost) /\ Cardinality(lost) \in Nat
    <3>1. IsFiniteSet(0 .. MaxTime)
      BY <1>1, FS_Interval
    <3>2. IsFiniteSet(lost)
      BY <1>1, <3>1, FS_Subset
    <3>3. QED
      BY <3>2, FS_CardinalityType
  <2>2. IsFiniteSet(RemainingTimes) /\ Cardinality(RemainingTimes) = end - sourcePos
    BY <1>1, FS_Interval DEF RemainingTimes
  <2>3. Cardinality(lost \intersect RemainingTimes) = 0
    <3>1. lost \intersect RemainingTimes = {}
      BY <1>1 DEF AccountInv, RemainingTimes
    <3>2. QED
      BY <3>1, FS_EmptySet
  <2>4. Cardinality(lost') = Cardinality(lost) + (end - sourcePos)
    <3>1. Cardinality(lost \union RemainingTimes)
            = Cardinality(lost) + Cardinality(RemainingTimes)
                - Cardinality(lost \intersect RemainingTimes)
      BY <2>1, <2>2, FS_Union
    <3>2. QED
      BY <1>1, <1>2, <2>1, <2>2, <2>3, <3>1
  <2>5. QED
    BY <1>2, <2>4 DEF AccountInv
<1>7. QED
  BY <1>2, <1>3, <1>4, <1>5, <1>6 DEF AccountInv

(* What is copied passes from the samples to be read to those taken.       *)
LEMMA CopyKeepsAccount ==
  ASSUME OrderInv, OrderInv', AccountInv, CopySamples
  PROVE  AccountInv'
<1>1. /\ Taken' = Taken \union (sourcePos .. sourcePos' - 1)
      /\ sourcePos \in Nat /\ sourcePos' \in Nat /\ sourcePos <= sourcePos'
  BY CopyAdds
<1>2. sourcePos' <= end /\ end \in Nat /\ end' = end /\ lost \subseteq Nat
  <2>1. RingInv /\ RingInv'
    BY DEF OrderInv, ConsecutiveInv
  <2>2. QED
    BY <2>1, StreamTypes DEF RingInv, TypeOK, CopySamples, Times
<1>3. UNCHANGED <<offered, lost, droppedSamples>> /\ ownerPc' \in {"loop", "publish"}
  BY DEF CopySamples
<1>4. RemainingTimes = (sourcePos .. sourcePos' - 1) \union RemainingTimes'
  BY <1>1, <1>2 DEF RemainingTimes
<1>5. offered' = Taken' \union lost' \union RemainingTimes'
  BY <1>1, <1>3, <1>4 DEF AccountInv
<1>6. lost' \intersect Taken' = {} /\ \A x \in lost' : x < sourcePos'
  BY <1>1, <1>2, <1>3 DEF AccountInv
<1>7. QED
  BY <1>3, <1>5, <1>6 DEF AccountInv

LEMMA NextAccount == OrderInv /\ OrderInv' /\ AccountInv /\ [Next]_vars => AccountInv'
<1> SUFFICES ASSUME OrderInv, OrderInv', AccountInv, [Next]_vars PROVE AccountInv'
  OBVIOUS
<1>1. /\ sourcePos \in Nat /\ end \in Nat /\ MaxTime \in Nat /\ LifeInv
      /\ ownerPc \in {"idle", "gone"} => sourcePos = end
  BY StreamTypes, StreamAssumption DEF OrderInv, ConsecutiveInv, AccountInv
<1>2. CASE CopySamples
  BY <1>2, CopyKeepsAccount
<1>3. CASE ~CopySamples
  <2>1. Taken' = Taken
    BY <1>3, TakenStays
  <2>2. CASE WatchAddA
    <3>1. PICK first \in end .. MaxTime : \E last \in first + 1 .. MaxTime : BeginCall(first, last)
      BY <2>2 DEF WatchAddA
    <3>2. PICK last \in first + 1 .. MaxTime : BeginCall(first, last)
      BY <3>1
    <3>3. QED
      BY <1>1, <2>1, <3>2, CallKeepsAccount
  <2>3. CASE WatchAddK \/ WatchAddP
    <3>1. PICK first \in end .. MaxTime - 1 : BeginCall(first, first + 1)
      BY <2>3 DEF WatchAddK, WatchAddP
    <3>2. first \in Nat /\ first + 1 \in Nat /\ end <= first
      BY <1>1
    <3>3. QED
      BY <2>1, <3>1, <3>2, CallKeepsAccount
  <2>4. CASE DropRest
    BY <2>1, <2>4, DropKeepsAccount
  <2>5. CASE EndCall \/ ReleaseStream
    <3>1. sourcePos = end /\ UNCHANGED <<offered, lost, droppedSamples, sourcePos, end>>
      BY <1>1, <2>5 DEF EndCall, ReleaseStream
    <3>2. QED
      BY <2>1, <3>1, AccountKept
  <2>6. CASE PublishAtGap \/ StartPacket \/ ContinuePacket \/ PublishFull
    <3>1. /\ UNCHANGED <<offered, lost, droppedSamples, sourcePos, end>>
          /\ ownerPc' \in {"loop", "copy"}
      BY <2>6 DEF PublishAtGap, StartPacket, ContinuePacket, PublishFull, ownerVars
    <3>2. QED
      BY <2>1, <3>1, AccountKept
  <2>7. CASE PassStep \/ SendFails \/ GraphStep \/ UNCHANGED vars
    <3>1. UNCHANGED <<offered, lost, droppedSamples, sourcePos, end, ownerPc>>
      BY <2>7 DEF PassStep, BeginPass, TakePacket, EndDrain, SendPacket, AdvanceRead,
         ReleaseFinished, SendFails, GraphStep, ReceiveAck, ChangeTheme, RequestGraphClose,
         vars, ownerVars
    <3>2. QED
      BY <1>1, <2>1, <3>1, AccountKept
  <2>8. QED
    BY <1>3, <2>2, <2>3, <2>4, <2>5, <2>6, <2>7 DEF Next, OwnerStep, PerfStep, Gone
<1>4. QED
  BY <1>2, <1>3

(* What is sent and what is not are what was taken, with nothing in common.*)
LEMMA SentAndUnsent ==
  ASSUME OrderInv
  PROVE  /\ Taken = sent \union UnsentTimes
         /\ sent \intersect UnsentTimes = {}
<1>1. /\ ConsecutiveInv /\ QueueOrder /\ SentOrder /\ sent \subseteq Nat /\ pending \in Nat
      /\ pendingSequence \in Nat /\ sourcePos \in Nat
  BY StreamTypes DEF OrderInv, ConsecutiveInv
<1>2. UnsentTimes = (UNION {PayloadTimes(slots[s]) : s \in Unread}) \union PendingTimes
  BY DEF UnsentTimes, Unread
<1>3. Unread \subseteq QueuedSlots
  BY DEF Unread
<1>4. UnsentTimes \subseteq Taken
  BY <1>2, <1>3 DEF Taken, QueuedTimes
<1>5. ASSUME NEW x \in QueuedTimes PROVE x \in sent \union UnsentTimes
  <2>1. PICK s \in QueuedSlots : x \in PayloadTimes(slots[s])
    BY <1>5 DEF QueuedTimes
  <2>2. CASE s \in Unread
    BY <1>2, <2>1, <2>2
  <2>3. CASE s \notin Unread
    BY <1>1, <2>1, <2>3 DEF Unread, SentOrder
  <2>4. QED
    BY <2>2, <2>3
<1>6. ASSUME NEW x \in sent, x \in UnsentTimes PROVE FALSE
  <2>1. x \in Nat /\ x < Frontier /\ \A s \in Unread : x < First(s)
    BY <1>1, <1>6 DEF SentOrder
  <2>2. CASE x \in PendingTimes
    BY <1>1, <2>1, <2>2, PendingIs DEF Frontier
  <2>3. CASE x \notin PendingTimes
    <3>1. PICK s \in Unread : x \in PayloadTimes(slots[s])
      BY <1>2, <1>6, <2>3
    <3>2. First(s) \in Nat /\ First(s) <= x
      BY <1>1, <1>3, <3>1, PayloadIs
    <3>3. QED
      BY <2>1, <3>1, <3>2
  <2>4. QED
    BY <2>2, <2>3
<1>7. QED
  BY <1>2, <1>4, <1>5, <1>6 DEF Taken

(* Every sample given to a perf call is in exactly one place - sent, still *)
(* to send, counted as dropped, or still to be read - and droppedSamples   *)
(* counts those dropped.                                                   *)
THEOREM SamplesAreAccounted == Spec => []EverySampleAccounted
<1>1. OrderInv /\ AccountInv => EverySampleAccounted
  <2> SUFFICES ASSUME OrderInv, AccountInv PROVE EverySampleAccounted
    OBVIOUS
  <2>1. /\ Taken = sent \union UnsentTimes /\ sent \intersect UnsentTimes = {}
        /\ \A x \in Taken : x < sourcePos /\ x \in Nat
        /\ sourcePos \in Nat /\ lost \subseteq Nat
    BY SentAndUnsent, TakenIs, StreamTypes DEF OrderInv, ConsecutiveInv, RingInv, TypeOK, Times
  <2>2. \A x \in RemainingTimes : x \in Int /\ sourcePos <= x
    BY <2>1 DEF RemainingTimes
  <2>3. (Taken \union lost) \intersect RemainingTimes = {}
    BY <2>1, <2>2 DEF AccountInv
  <2>4. QED
    BY <2>1, <2>3 DEF AccountInv, EverySampleAccounted
<1>2. QED
  BY <1>1, InitAccount, NextAccount, OrderInvariant, PTL DEF Spec

==============================================================================
