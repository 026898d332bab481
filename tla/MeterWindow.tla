----------------------------- MODULE MeterWindow -----------------------------
(***************************************************************************)
(* The way of the levels of a meter: watch_meter reduces the control       *)
(* cycles of one viewer frame to their loudest level and puts it into the  *)
(* ring of its stream, the sender thread sends it, process_meter_packet    *)
(* shows it, and render_meter lets the peak marks fall. The rate of the    *)
(* frames is not tied to that of the packets.                              *)
(*                                                                         *)
(* A level is an integer that keeps the order of the floats; the ring is a *)
(* queue, which is what WatchStream shows it to be. Local packets keep     *)
(* their order, but may get lost. render_meter only asks how long ago      *)
(* something was, so times are kept as ages, as far as they matter.        *)
(***************************************************************************)
EXTENDS Integers, Sequences, FiniteSets, FiniteSetsExt

CONSTANTS
  Channels,        \* nchnls bars
  CycleLevels,     \* what an element of the levels array may hold
  NotANumber,      \* a level that is not finite
  Lowest,          \* -FLT_MAX
  AxisMin,         \* ymin, the bottom of the axis
  FramesPerPacket, \* frames_per_packet
  MeterQueue,      \* MAX_QUEUE_SIZE
  PeakHold,        \* METER_PEAK_HOLD_SECONDS, in units of the clock
  LongestFrame     \* one second, in units of the clock

ASSUME MeterAssumption ==
  /\ IsFiniteSet(Channels) /\ Channels # {}
  /\ IsFiniteSet(CycleLevels) /\ CycleLevels \subseteq Int /\ NotANumber \notin CycleLevels
  /\ Lowest \in Int /\ \A level \in CycleLevels : level > Lowest
  /\ AxisMin \in Int /\ AxisMin > Lowest
  /\ FramesPerPacket \in Nat \ {0} /\ MeterQueue \in Nat \ {0, 1}
  /\ PeakHold \in Nat /\ LongestFrame \in Nat

VARIABLES
  peaks,        \* peak[] of the opcode
  cycles,       \* cycles since the last packet was due
  meterQueue,   \* packets in the ring, oldest first
  onTheWay,     \* the packet that was sent last, if it has not arrived
  meter,        \* meter_stream of the graph
  heard,        \* history: of each channel, the levels since the last packet
  recent        \* history: levels that reached their mark within PeakHold

opcodeVars == <<peaks, cycles, heard>>
displayVars == <<meter, recent>>
meterVars == <<opcodeVars, meterQueue, onTheWay, displayVars>>

PeakLevels == CycleLevels \union {Lowest}
MeterPackets == [levels : [Channels -> PeakLevels], heard : [Channels -> SUBSET CycleLevels]]
Nothing == [levels |-> <<>>]

(* The largest ages that are told apart.                                   *)
LongHeld == PeakHold + 1
LongSince == LongestFrame + 1

(* calloc *)
BlankMeter ==
  [hasFrame |-> FALSE, level |-> [c \in Channels |-> 0], peak |-> [c \in Channels |-> 0],
   held |-> [c \in Channels |-> LongHeld], elapsed |-> LongSince]

MeterTypeOK ==
  /\ peaks \in [Channels -> PeakLevels] /\ cycles \in 0 .. FramesPerPacket - 1
  /\ heard \in [Channels -> SUBSET CycleLevels]
  /\ meterQueue \in Seq(MeterPackets) /\ Len(meterQueue) < MeterQueue
  /\ onTheWay \in MeterPackets \union {Nothing}
  /\ meter \in [hasFrame : BOOLEAN, level : [Channels -> Int], peak : [Channels -> Int],
                held : [Channels -> 0 .. LongHeld], elapsed : 0 .. LongSince]
  /\ recent \subseteq [age : 0 .. PeakHold, channel : Channels, level : PeakLevels]

MeterInit ==
  /\ peaks = [c \in Channels |-> Lowest] /\ cycles = 0
  /\ heard = [c \in Channels |-> {}]
  /\ meterQueue = <<>> /\ onTheWay = Nothing
  /\ meter = BlankMeter /\ recent = {}

-----------------------------------------------------------------------------
(* The opcode, in the audio callback                                       *)

SilentPeaks == [c \in Channels |-> Lowest]

Louder(levels, c) ==
  IF levels[c] # NotANumber /\ levels[c] > peaks[c] THEN levels[c] ELSE peaks[c]

Heard(levels) ==
  [c \in Channels |-> heard[c] \union ({levels[c]} \ {NotANumber})]

(* Mutant: the ring has no spare slot.                                     *)
NoSpareSlot == Len(meterQueue) = MeterQueue
MeterQueueFull == Len(meterQueue) = MeterQueue - 1

(* Mutant: the peaks of a packet that finds the queue full are forgotten.  *)
ForgetWhenFull(levels) ==
  /\ cycles' = (cycles + 1) % FramesPerPacket
  /\ IF cycles' # 0 THEN /\ peaks' = [c \in Channels |-> Louder(levels, c)]
                         /\ heard' = Heard(levels) /\ UNCHANGED meterQueue
     ELSE IF MeterQueueFull THEN peaks' = SilentPeaks /\ heard' = Heard(levels) /\ UNCHANGED meterQueue
     ELSE /\ meterQueue' = Append(meterQueue, [levels |-> [c \in Channels |-> Louder(levels, c)],
                                               heard |-> Heard(levels)])
          /\ peaks' = SilentPeaks /\ heard' = [c \in Channels |-> {}]
  /\ UNCHANGED <<onTheWay, displayVars>>

(* watch_meter, a control cycle: one in FramesPerPacket publishes the      *)
(* loudest levels, or keeps them for the next if the queue is full.        *)
WatchMeter(levels) ==
  LET loudest == [c \in Channels |-> Louder(levels, c)]
      publishes == cycles + 1 = FramesPerPacket /\ ~MeterQueueFull
  IN /\ cycles' = (cycles + 1) % FramesPerPacket
     /\ IF publishes
        THEN /\ meterQueue' = Append(meterQueue, [levels |-> loudest, heard |-> Heard(levels)])
             /\ peaks' = SilentPeaks /\ heard' = [c \in Channels |-> {}]
        ELSE peaks' = loudest /\ heard' = Heard(levels) /\ UNCHANGED meterQueue
     /\ UNCHANGED <<onTheWay, displayVars>>

-----------------------------------------------------------------------------
(* The sender thread and the network                                       *)

(* send_stream_packets takes a packet out of the ring, sent or lost.       *)
SendMeterPacket ==
  /\ meterQueue # <<>> /\ onTheWay = Nothing
  /\ onTheWay' = Head(meterQueue)
  /\ meterQueue' = Tail(meterQueue)
  /\ UNCHANGED <<opcodeVars, displayVars>>

LoseMeterPacket ==
  /\ onTheWay # Nothing
  /\ onTheWay' = Nothing
  /\ UNCHANGED <<opcodeVars, meterQueue, displayVars>>

-----------------------------------------------------------------------------
(* The viewer                                                              *)

Older(age, oldest) == IF age < oldest THEN age + 1 ELSE oldest

MeterTick ==
  /\ meter.hasFrame
  /\ meter' = [meter EXCEPT !.elapsed = Older(@, LongSince),
                            !.held = [c \in Channels |-> Older(meter.held[c], LongHeld)]]
  /\ recent' = {[r EXCEPT !.age = @ + 1] : r \in {r \in recent : r.age < PeakHold}}
  /\ UNCHANGED <<opcodeVars, meterQueue, onTheWay>>

(* Mutant: the first packet finds the levels calloc left.                  *)
FromZero ==
  [meter EXCEPT !.hasFrame = TRUE, !.elapsed = IF meter.hasFrame THEN @ ELSE 0]

(* Before the first packet everything is silent.                           *)
FromSilence ==
  IF meter.hasFrame THEN meter
  ELSE [meter EXCEPT !.hasFrame = TRUE, !.elapsed = 0,
                     !.level = [c \in Channels |-> AxisMin],
                     !.peak = [c \in Channels |-> AxisMin]]

(* Mutant: a level that only reaches the mark does not renew it.           *)
RaisesAbove(level, peak) == level > peak
Raises(level, peak) == level >= peak

(* process_meter_packet *)
ReceiveMeterPacket ==
  /\ onTheWay # Nothing
  /\ LET shown == FromSilence
         levels == onTheWay.levels
         Renewed(c) == Raises(levels[c], shown.peak[c])
     IN meter' = [shown EXCEPT
          !.level = levels,
          !.peak = [c \in Channels |-> IF Renewed(c) THEN levels[c] ELSE shown.peak[c]],
          !.held = [c \in Channels |-> IF Renewed(c) THEN 0 ELSE shown.held[c]]]
  /\ recent' = recent \union
       {[age |-> 0, channel |-> c, level |-> onTheWay.levels[c]] :
          c \in {c \in Channels : onTheWay.levels[c] >= FromSilence.peak[c]}}
  /\ onTheWay' = Nothing
  /\ UNCHANGED <<opcodeVars, meterQueue>>

(* A mark falls when it has been held, unless a second went by without a   *)
(* frame.                                                                  *)
Falls(c) == meter.held[c] > PeakHold /\ meter.elapsed \in 1 .. LongestFrame

Fallen(c, fallen) == IF fallen < meter.level[c] THEN meter.level[c] ELSE fallen

(* Where the decay towards the bottom of the axis may leave the mark.      *)
Release(c) == IF Falls(c) THEN AxisMin .. meter.peak[c] ELSE {meter.peak[c]}

(* render_meter. What it draws is the levels and the marks it leaves.      *)
RenderMeter ==
  /\ meter.hasFrame
  /\ \E released \in [Channels -> UNION {Release(c) : c \in Channels}] :
       /\ \A c \in Channels : released[c] \in Release(c)
       /\ meter' = [meter EXCEPT !.elapsed = 0,
                                 !.peak = [c \in Channels |-> Fallen(c, released[c])]]
  /\ UNCHANGED <<opcodeVars, meterQueue, onTheWay, recent>>

MeterNext ==
  \/ \E levels \in [Channels -> CycleLevels \union {NotANumber}] : WatchMeter(levels)
  \/ SendMeterPacket \/ LoseMeterPacket
  \/ MeterTick \/ ReceiveMeterPacket \/ RenderMeter

MeterSpec == MeterInit /\ [][MeterNext]_meterVars

-----------------------------------------------------------------------------
(* Properties                                                              *)

Reports(packet) ==
  \A c \in Channels : packet.levels[c] = Max(packet.heard[c] \union {Lowest})

(* Every level is in exactly one packet, or waits for the next: a packet   *)
(* carries the loudest level since the packet before it, also when packets *)
(* that were due in between found the queue full, and no older one.        *)
EveryPeakReportedOnce ==
  /\ \A i \in 1 .. Len(meterQueue) : Reports(meterQueue[i])
  /\ onTheWay # Nothing => Reports(onTheWay)
  /\ Reports([levels |-> peaks, heard |-> heard])

(* A mark is on its bar or above it ("a peak left above a steady level     *)
(* would sink through it and end up as a mark drawn across the middle of a *)
(* bar"), and no higher than what was received: a meter in decibels, whose *)
(* zero is full scale, starts silent ("a freshly allocated buffer would    *)
(* show every bar pinned to the top").                                     *)
MarkIsInPlace ==
  meter.hasFrame =>
    \A c \in Channels : /\ meter.peak[c] >= meter.level[c]
                        /\ \E level \in {AxisMin} \union CycleLevels : meter.peak[c] <= level

(* A mark is held: for METER_PEAK_HOLD_SECONDS it does not sink below a    *)
(* level that reached it, however often it is drawn. (A level that stayed  *)
(* below the mark is not held, not even when the mark comes down on it.)   *)
MarkIsHeld == \A r \in recent : meter.peak[r.channel] >= r.level
==============================================================================
