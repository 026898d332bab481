----------------------------- MODULE WatchStream -----------------------------
(***************************************************************************)
(* One stream of watch.c: the single-producer single-consumer ring between *)
(* a watchadd instance, which runs in the audio callback without a lock,   *)
(* and the sender thread, which drains the ring while it holds the         *)
(* registry mutex; and the release of the stream when the instance ends.   *)
(*                                                                         *)
(* A sample is named by its time, the sequence number the code gives it.   *)
(* Each action touches at most one location the other thread touches.      *)
(***************************************************************************)
EXTENDS Integers, FiniteSets

CONSTANTS
  Slots,       \* MAX_QUEUE_SIZE
  MaxSamples,  \* what a data packet holds, MAX_STREAM_SAMPLES / float_per_sample
  PassLimit,   \* WATCH_PACKETS_PER_STREAM_PASS
  MaxTime      \* bound: the last sample time of a behaviour

ASSUME StreamAssumption ==
  /\ Slots \in Nat /\ Slots >= 2
  /\ MaxSamples \in Nat \ {0}
  /\ PassLimit \in Nat \ {0}
  /\ MaxTime \in Nat

VARIABLES
  kind,             \* the signal added: "a" (audio), "k" (control), "p" (point)
  publishThreshold, \* samples accumulated before a packet is queued
  slots, writePos, readPos, pending, pendingSequence,
  droppedSamples,
  ownerPc, sourcePos, end,  \* the perf call: the samples sourcePos .. end - 1 remain
  senderPc, sentCount,
  acked, closeRequested,    \* of the graph of the stream
  released,                 \* release_requested
  freed,
  offered, sent, lost       \* history: times given to perf calls, sent, dropped

ringVars == <<slots, writePos, pending>>
ownerVars == <<ownerPc, sourcePos, end>>
senderVars == <<senderPc, sentCount>>
graphVars == <<acked, closeRequested>>
vars == <<kind, publishThreshold, ringVars, readPos, pendingSequence,
          droppedSamples, ownerVars, senderVars, graphVars, released, freed,
          offered, sent, lost>>

Times == 0 .. MaxTime
SlotIds == 0 .. Slots - 1
Offsets == 0 .. MaxSamples - 1

Packets == [sequence : Times, count : 0 .. MaxSamples, samples : [Offsets -> Times]]

TypeOK ==
  /\ kind \in {"a", "k", "p"}
  /\ publishThreshold \in 1 .. MaxSamples
  /\ slots \in [SlotIds -> Packets]
  /\ writePos \in SlotIds
  /\ readPos \in SlotIds
  /\ pending \in 0 .. publishThreshold
  /\ pendingSequence \in Times
  /\ droppedSamples \in Nat
  /\ ownerPc \in {"idle", "loop", "copy", "publish", "gone"}
  /\ sourcePos \in Times /\ end \in Times /\ sourcePos <= end
  /\ senderPc \in {"idle", "drain", "send", "advance", "release"}
  /\ sentCount \in 0 .. PassLimit
  /\ acked \in BOOLEAN /\ closeRequested \in BOOLEAN
  /\ released \in BOOLEAN /\ freed \in BOOLEAN
  /\ offered \subseteq Times /\ sent \subseteq Times /\ lost \subseteq Times

After(pos) == (pos + 1) % Slots

(* create_stream: an empty ring; the threshold is a full packet for a      *)
(* scrolling display and one viewer frame of points for a point graph.     *)
Init ==
  /\ kind \in {"a", "k", "p"}
  /\ publishThreshold \in 1 .. MaxSamples
  /\ kind # "p" => publishThreshold = MaxSamples
  /\ slots = [s \in SlotIds |->
                [sequence |-> 0, count |-> 0, samples |-> [i \in Offsets |-> 0]]]
  /\ writePos = 0 /\ readPos = 0
  /\ pending = 0 /\ pendingSequence = 0
  /\ droppedSamples = 0
  /\ ownerPc = "idle" /\ sourcePos = 0 /\ end = 0
  /\ senderPc = "idle" /\ sentCount = 0
  /\ acked \in BOOLEAN /\ closeRequested = FALSE
  /\ released = FALSE /\ freed = FALSE
  /\ offered = {} /\ sent = {} /\ lost = {}

-----------------------------------------------------------------------------
(* The perf callback.                                                      *)

(* A perf call is given the samples first .. last - 1. Time may have       *)
(* passed since the previous call: the opcode was skipped for some cycles. *)
BeginCall(first, last) ==
  /\ ownerPc = "idle"
  /\ ownerPc' = "loop"
  /\ sourcePos' = first
  /\ end' = last
  /\ offered' = offered \union (first .. last - 1)
  /\ UNCHANGED <<kind, publishThreshold, ringVars, readPos, pendingSequence,
                 droppedSamples, senderVars, graphVars, released, freed, sent, lost>>

WatchAddA ==
  /\ kind = "a"
  /\ \E first \in end .. MaxTime : \E last \in first + 1 .. MaxTime :
       BeginCall(first, last)

(* watch_add_k and watch_add_p add one sample, numbered by kcounter.       *)
WatchAddK ==
  /\ kind = "k"
  /\ \E first \in end .. MaxTime - 1 : BeginCall(first, first + 1)

WatchAddP ==
  /\ kind = "p"
  /\ \E first \in end .. MaxTime - 1 : BeginCall(first, first + 1)

(* publish_time_packet: close the packet under construction and queue it.  *)
PublishPending ==
  /\ slots' = [slots EXCEPT ![writePos].count = pending]
  /\ pending' = 0
  /\ writePos' = After(writePos)

(* Mutant: time is taken to be contiguous.                                 *)
ContinuesAlways == TRUE

Continues == sourcePos = pendingSequence + pending

(* Time has been skipped since the packet under construction was started.  *)
PublishAtGap ==
  /\ ownerPc = "loop" /\ sourcePos < end
  /\ pending > 0 /\ ~Continues
  /\ PublishPending
  /\ UNCHANGED <<kind, publishThreshold, readPos, pendingSequence, droppedSamples,
                 ownerVars, senderVars, graphVars, released, freed, offered, sent, lost>>

QueueFull == After(writePos) = readPos

(* Mutant: one drop is counted, whatever the length of the rest.           *)
DropRestAsOne ==
  /\ ownerPc = "loop" /\ sourcePos < end
  /\ pending = 0 /\ QueueFull
  /\ droppedSamples' = droppedSamples + 1
  /\ lost' = lost \union (sourcePos .. end - 1)
  /\ sourcePos' = end
  /\ ownerPc' = "idle"
  /\ UNCHANGED <<kind, publishThreshold, ringVars, readPos, pendingSequence, end,
                 senderVars, graphVars, released, freed, offered, sent>>

(* No slot to start a packet in: the rest of the call is counted and lost. *)
DropRest ==
  /\ ownerPc = "loop" /\ sourcePos < end
  /\ pending = 0 /\ QueueFull
  /\ droppedSamples' = droppedSamples + (end - sourcePos)
  /\ lost' = lost \union (sourcePos .. end - 1)
  /\ sourcePos' = end
  /\ ownerPc' = "idle"
  /\ UNCHANGED <<kind, publishThreshold, ringVars, readPos, pendingSequence, end,
                 senderVars, graphVars, released, freed, offered, sent>>

(* Mutant: a packet is started without looking for room.                   *)
StartPacketBlind ==
  /\ ownerPc = "loop" /\ sourcePos < end
  /\ pending = 0
  /\ slots' = [slots EXCEPT ![writePos].sequence = sourcePos]
  /\ pendingSequence' = sourcePos
  /\ ownerPc' = "copy"
  /\ UNCHANGED <<kind, publishThreshold, writePos, readPos, pending, droppedSamples,
                 sourcePos, end, senderVars, graphVars, released, freed,
                 offered, sent, lost>>

StartPacket ==
  /\ ownerPc = "loop" /\ sourcePos < end
  /\ pending = 0 /\ ~QueueFull
  /\ slots' = [slots EXCEPT ![writePos].sequence = sourcePos]
  /\ pendingSequence' = sourcePos
  /\ ownerPc' = "copy"
  /\ UNCHANGED <<kind, publishThreshold, writePos, readPos, pending, droppedSamples,
                 sourcePos, end, senderVars, graphVars, released, freed,
                 offered, sent, lost>>

ContinuePacket ==
  /\ ownerPc = "loop" /\ sourcePos < end
  /\ pending > 0 /\ Continues
  /\ ownerPc' = "copy"
  /\ UNCHANGED <<kind, publishThreshold, ringVars, readPos, pendingSequence,
                 droppedSamples, sourcePos, end, senderVars, graphVars, released,
                 freed, offered, sent, lost>>

(* Mutant: the room left in the packet is forgotten.                       *)
ChunkUnbounded == IF end - sourcePos < MaxSamples THEN end - sourcePos ELSE MaxSamples

Chunk ==
  IF end - sourcePos < publishThreshold - pending
  THEN end - sourcePos ELSE publishThreshold - pending

CopySamples ==
  /\ ownerPc = "copy"
  /\ slots' = [slots EXCEPT ![writePos].samples =
       [i \in Offsets |-> IF i \in pending .. pending + Chunk - 1
                          THEN sourcePos + (i - pending) ELSE @[i]]]
  /\ pending' = pending + Chunk
  /\ sourcePos' = sourcePos + Chunk
  /\ ownerPc' = IF pending + Chunk = publishThreshold THEN "publish" ELSE "loop"
  /\ UNCHANGED <<kind, publishThreshold, writePos, readPos, pendingSequence,
                 droppedSamples, end, senderVars, graphVars, released, freed,
                 offered, sent, lost>>

PublishFull ==
  /\ ownerPc = "publish"
  /\ PublishPending
  /\ ownerPc' = "loop"
  /\ UNCHANGED <<kind, publishThreshold, readPos, pendingSequence, droppedSamples,
                 sourcePos, end, senderVars, graphVars, released, freed,
                 offered, sent, lost>>

EndCall ==
  /\ ownerPc = "loop" /\ sourcePos = end
  /\ ownerPc' = "idle"
  /\ UNCHANGED <<kind, publishThreshold, ringVars, readPos, pendingSequence,
                 droppedSamples, sourcePos, end, senderVars, graphVars, released,
                 freed, offered, sent, lost>>

-----------------------------------------------------------------------------
(* What happens under the registry mutex. The sender thread holds it from  *)
(* the beginning to the end of a pass.                                     *)

MutexFree == senderPc = "idle"

(* Mutant: the residual packet is left under construction.                 *)
ReleaseStreamUnpublished ==
  /\ ownerPc = "idle" /\ ~released
  /\ MutexFree
  /\ released' = TRUE
  /\ ownerPc' = "gone"
  /\ UNCHANGED <<kind, publishThreshold, ringVars, readPos, pendingSequence, droppedSamples,
                 sourcePos, end, senderVars, graphVars, freed, offered, sent, lost>>

(* release_stream, at deinit or reinit: the residual packet is queued      *)
(* without looking for room.                                               *)
ReleaseStream ==
  /\ ownerPc = "idle" /\ ~released
  /\ MutexFree
  /\ IF pending > 0 THEN PublishPending ELSE UNCHANGED ringVars
  /\ released' = TRUE
  /\ ownerPc' = "gone"
  /\ UNCHANGED <<kind, publishThreshold, readPos, pendingSequence, droppedSamples,
                 sourcePos, end, senderVars, graphVars, freed, offered, sent, lost>>

(* The viewer answers the configuration; watch_theme changes it; the       *)
(* instance that created the graph is reinitialized.                       *)
ReceiveAck ==
  /\ MutexFree /\ ~freed /\ ~acked
  /\ acked' = TRUE
  /\ UNCHANGED <<kind, publishThreshold, ringVars, readPos, pendingSequence,
                 droppedSamples, ownerVars, senderVars, closeRequested, released,
                 freed, offered, sent, lost>>

ChangeTheme ==
  /\ MutexFree /\ ~freed /\ acked
  /\ acked' = FALSE
  /\ UNCHANGED <<kind, publishThreshold, ringVars, readPos, pendingSequence,
                 droppedSamples, ownerVars, senderVars, closeRequested, released,
                 freed, offered, sent, lost>>

RequestGraphClose ==
  /\ MutexFree /\ ~freed /\ ~closeRequested
  /\ closeRequested' = TRUE
  /\ UNCHANGED <<kind, publishThreshold, ringVars, readPos, pendingSequence,
                 droppedSamples, ownerVars, senderVars, acked, released,
                 freed, offered, sent, lost>>

Abandoned == ~acked /\ closeRequested

(* A pass over a graph the viewer has not answered does nothing for its    *)
(* streams, unless the graph is abandoned.                                 *)
BeginPass ==
  /\ MutexFree /\ ~freed
  /\ \/ acked /\ senderPc' = "drain"
     \/ Abandoned /\ senderPc' = "release"
  /\ sentCount' = 0
  /\ UNCHANGED <<kind, publishThreshold, ringVars, readPos, pendingSequence,
                 droppedSamples, ownerVars, graphVars, released, freed,
                 offered, sent, lost>>

(* Mutant: the sender thread does not look whether the ring is empty.      *)
TakePacketUnchecked ==
  /\ senderPc = "drain"
  /\ sentCount < PassLimit
  /\ senderPc' = "send"
  /\ UNCHANGED <<kind, publishThreshold, ringVars, readPos, pendingSequence,
                 droppedSamples, ownerVars, sentCount, graphVars, released, freed,
                 offered, sent, lost>>

TakePacket ==
  /\ senderPc = "drain"
  /\ sentCount < PassLimit /\ readPos # writePos
  /\ senderPc' = "send"
  /\ UNCHANGED <<kind, publishThreshold, ringVars, readPos, pendingSequence,
                 droppedSamples, ownerVars, sentCount, graphVars, released, freed,
                 offered, sent, lost>>

EndDrain ==
  /\ senderPc = "drain"
  /\ sentCount = PassLimit \/ readPos = writePos
  /\ senderPc' = "release"
  /\ UNCHANGED <<kind, publishThreshold, ringVars, readPos, pendingSequence,
                 droppedSamples, ownerVars, sentCount, graphVars, released, freed,
                 offered, sent, lost>>

PayloadTimes(packet) == {packet.samples[i] : i \in 0 .. packet.count - 1}

(* A packet larger than its type allows would be skipped: publication      *)
(* bounds the count by publish_threshold, so no such packet is queued.     *)
SendPacket ==
  /\ senderPc = "send"
  /\ sent' = sent \union PayloadTimes(slots[readPos])
  /\ senderPc' = "advance"
  /\ UNCHANGED <<kind, publishThreshold, ringVars, readPos, pendingSequence,
                 droppedSamples, ownerVars, sentCount, graphVars, released, freed,
                 offered, lost>>

(* Mutant: a packet the socket refused leaves the queue.                   *)
SendFailsConsuming ==
  /\ senderPc = "send"
  /\ senderPc' = "release"
  /\ readPos' = After(readPos)
  /\ UNCHANGED <<kind, publishThreshold, ringVars, pendingSequence,
                 droppedSamples, ownerVars, sentCount, graphVars, released, freed,
                 offered, sent, lost>>

SendFails ==
  /\ senderPc = "send"
  /\ senderPc' = "release"
  /\ UNCHANGED <<kind, publishThreshold, ringVars, readPos, pendingSequence,
                 droppedSamples, ownerVars, sentCount, graphVars, released, freed,
                 offered, sent, lost>>

AdvanceRead ==
  /\ senderPc = "advance"
  /\ readPos' = After(readPos)
  /\ sentCount' = sentCount + 1
  /\ senderPc' = "drain"
  /\ UNCHANGED <<kind, publishThreshold, ringVars, pendingSequence,
                 droppedSamples, ownerVars, graphVars, released, freed,
                 offered, sent, lost>>

TransferComplete == readPos = writePos /\ pending = 0

(* Mutant: a drained stream goes although its instance still plays.        *)
ReleaseFinishedEarly ==
  /\ senderPc = "release"
  /\ freed' = (Abandoned \/ TransferComplete)
  /\ senderPc' = "idle"
  /\ UNCHANGED <<kind, publishThreshold, ringVars, readPos, pendingSequence,
                 droppedSamples, ownerVars, sentCount, graphVars, released,
                 offered, sent, lost>>

(* release_finished_streams, which ends what a pass does with a stream.    *)
ReleaseFinished ==
  /\ senderPc = "release"
  /\ freed' = (released /\ (Abandoned \/ TransferComplete))
  /\ senderPc' = "idle"
  /\ UNCHANGED <<kind, publishThreshold, ringVars, readPos, pendingSequence,
                 droppedSamples, ownerVars, sentCount, graphVars, released,
                 offered, sent, lost>>

-----------------------------------------------------------------------------
PerfStep ==
  \/ PublishAtGap \/ DropRest \/ StartPacket \/ ContinuePacket
  \/ CopySamples \/ PublishFull \/ EndCall

OwnerStep == WatchAddA \/ WatchAddK \/ WatchAddP \/ PerfStep \/ ReleaseStream

PassStep ==
  BeginPass \/ TakePacket \/ EndDrain \/ SendPacket \/ AdvanceRead \/ ReleaseFinished

GraphStep == ReceiveAck \/ ChangeTheme \/ RequestGraphClose

(* A freed stream is gone for good.                                        *)
Gone == freed /\ UNCHANGED vars

Next == OwnerStep \/ PassStep \/ SendFails \/ GraphStep \/ Gone

Spec == Init /\ [][Next]_vars

(* The operating system runs the sender thread, and a socket that goes on  *)
(* being written to accepts a packet sooner or later.                      *)
Fairness ==
  /\ WF_vars(BeginPass) /\ WF_vars(TakePacket) /\ WF_vars(EndDrain)
  /\ WF_vars(AdvanceRead) /\ WF_vars(ReleaseFinished)
  /\ SF_vars(SendPacket)
  /\ WF_vars(SendPacket \/ SendFails)

LiveSpec == Spec /\ Fairness

-----------------------------------------------------------------------------
(* Properties.                                                             *)

(* The slots between read_pos and write_pos, and how far behind read_pos.  *)
SlotsBetween(from, to) ==
  IF from <= to THEN from .. to - 1 ELSE (from .. Slots - 1) \union (0 .. to - 1)

QueuedSlots == SlotsBetween(readPos, writePos)

Filling == pending > 0 \/ ownerPc \in {"copy", "publish"}
Reading == senderPc \in {"send", "advance"}

(* While a packet is under construction the slot after it stays free, so   *)
(* that it can be queued without looking again: publish_time_packet never  *)
(* looks, at a gap in time, at the threshold or in release_stream.         *)
SlotReserved == Filling => ~QueueFull

(* The audio callback never writes into the slot the sender thread is      *)
(* copying to the socket.                                                  *)
NoSlotRace == Reading => readPos \in QueuedSlots

(* The viewer places sample i of a packet at time sequence + i, so the     *)
(* samples of a packet queued are consecutive, and so are those of the     *)
(* packet under construction, whose time release_stream may publish.       *)
ConsecutiveSamples ==
  /\ \A s \in QueuedSlots :
       /\ slots[s].count \in 1 .. publishThreshold
       /\ \A i \in 0 .. slots[s].count - 1 : slots[s].samples[i] = slots[s].sequence + i
  /\ pending > 0 =>
       /\ slots[writePos].sequence = pendingSequence
       /\ \A i \in 0 .. pending - 1 : slots[writePos].samples[i] = pendingSequence + i

QueuedTimes == UNION {PayloadTimes(slots[s]) : s \in QueuedSlots}
PendingTimes == {slots[writePos].samples[i] : i \in 0 .. pending - 1}
RemainingTimes == sourcePos .. end - 1

(* Between SendPacket and AdvanceRead the packet is both sent and queued.  *)
UnsentTimes ==
  (UNION {PayloadTimes(slots[s]) : s \in
            IF senderPc = "advance" THEN QueuedSlots \ {readPos} ELSE QueuedSlots})
    \union PendingTimes

(* Every sample given to a perf call is in exactly one place: sent, still  *)
(* to send, counted as dropped, or still to be read by the call; and the   *)
(* counter of dropped samples tells the truth.                             *)
EverySampleAccounted ==
  /\ offered = sent \union UnsentTimes \union lost \union RemainingTimes
  /\ sent \intersect (UnsentTimes \union lost \union RemainingTimes) = {}
  /\ UnsentTimes \intersect (lost \union RemainingTimes) = {}
  /\ lost \intersect RemainingTimes = {}
  /\ droppedSamples = Cardinality(lost)

(* A stream is freed only when it has been released, so that the callback  *)
(* no longer uses it, and, unless its graph is abandoned, when everything  *)
(* taken from the signal has been sent.                                    *)
FreedOnlyWhenDrained ==
  [][freed' /\ ~freed => ownerPc = "gone" /\ (UnsentTimes = {} \/ Abandoned)]_vars

(* The stream implements the channel: in order, once each, complete.       *)
Taken == sent \union QueuedTimes \union PendingTimes
Ended == IF ~freed THEN "open" ELSE IF sent = Taken THEN "complete" ELSE "discarded"
Channel == INSTANCE SampleChannel
  WITH taken <- Taken, sent <- sent, replaced <- closeRequested, ended <- Ended
ChannelSpec == Channel!Spec

(* A released stream returns its slot to the graph, provided the graph     *)
(* stays answered or is abandoned for good.                                *)
ReleasedIsFreed == (<>[](acked \/ closeRequested) /\ <>released) => <>freed

=============================================================================
