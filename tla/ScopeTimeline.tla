---------------------------- MODULE ScopeTimeline ----------------------------
(***************************************************************************)
(* A scope or control graph in the viewer: a ring of samples per stream    *)
(* (append_scope_samples), one display clock for all streams of the graph  *)
(* (advance_scope_timeline), and the part of each ring that a frame draws  *)
(* (draw_scope_stream). The streams are fed by instances that start and    *)
(* end at any time; their packets may get lost or be late.                 *)
(*                                                                         *)
(* A sample is named by its time, and all streams have the same sample     *)
(* rate, the one of Csound. The clock of the viewer is counted in samples. *)
(***************************************************************************)
EXTENDS Integers, Sequences, FiniteSets, FiniteSetsExt

CONSTANTS
  StreamIds,      \* stream slots of the graph
  WindowSamples,  \* window_samples: what the window shows
  Latency,        \* scope_latency_samples
  MaxSamples,     \* MAX_STREAM_SAMPLES, what a packet holds
  Faulty,         \* whether packets get lost or late, and memory runs out
  RealTime,       \* whether Csound and the viewer agree on how time passes
  MaxElapsed,     \* bound, if they do not: samples of time between two frames
  MaxNow          \* bound: the time at which Csound stops

ASSUME ScopeAssumption ==
  /\ WindowSamples \in Nat \ {0}
  /\ Latency \in Nat
  /\ MaxSamples \in Nat \ {0}
  /\ Faulty \in BOOLEAN /\ RealTime \in BOOLEAN
  /\ MaxElapsed \in Nat /\ MaxNow \in Nat

VARIABLES
  csoundTime,  \* time in Csound
  playing,     \* the streams an instance adds samples to
  source,      \* the first sample of a stream not sent yet
  scope,       \* scope_streams
  displayEnd,  \* scope_display_end_sample
  started,     \* scope_display_started
  lastRender,  \* scope_last_render_ns, if time is real
  rendered     \* the last step was a frame

csoundVars == <<csoundTime, playing, source>>
clockVars == <<displayEnd, started, lastRender>>
scopeVars == <<csoundVars, scope, clockVars, rendered>>

LeastIn(a, b) == IF a < b THEN a ELSE b

(* ensure_scope_buffer: what is shown, what is held back, and one packet.  *)
(* Mutant: no room for what is held back.                                  *)
TightCapacity == WindowSamples + MaxSamples
Capacity == WindowSamples + Latency + MaxSamples

RingIndices == 0 .. Capacity - 1

(* append_scope_gap and calloc write this.                                 *)
Zero == -1

Unallocated ==
  [state |-> "none", buffer |-> [i \in RingIndices |-> Zero], writeIndex |-> 0,
   total |-> 0, valid |-> 0, hasSequence |-> FALSE, next |-> 0]

ScopeTypeOK ==
  /\ csoundTime \in 0 .. MaxNow
  /\ playing \subseteq StreamIds
  /\ source \in [StreamIds -> 0 .. MaxNow]
  /\ scope \in [StreamIds ->
       [state : {"none", "ready", "unsupported"},
        buffer : [RingIndices -> 0 .. MaxNow \cup {Zero}], writeIndex : RingIndices,
        total : 0 .. MaxNow, valid : 0 .. Capacity,
        hasSequence : BOOLEAN, next : 0 .. MaxNow]]
  /\ displayEnd \in -Latency .. MaxNow
  /\ started \in BOOLEAN /\ lastRender \in 0 .. MaxNow /\ rendered \in BOOLEAN

ScopeInit ==
  /\ csoundTime = 0 /\ playing = {} /\ source = [i \in StreamIds |-> 0]
  /\ scope = [i \in StreamIds |-> Unallocated]
  /\ displayEnd = 0 /\ started = FALSE /\ lastRender = 0 /\ rendered = FALSE

-----------------------------------------------------------------------------
(* Csound: instances come and go; a sample of every playing stream per step *)

StartStream(i) ==
  /\ i \notin playing
  /\ playing' = playing \cup {i}
  /\ source' = [source EXCEPT ![i] = csoundTime]
  /\ rendered' = FALSE
  /\ UNCHANGED <<csoundTime, scope, clockVars>>

(* The residual packet has been sent when the slot is free again.          *)
EndStream(i) ==
  /\ i \in playing /\ source[i] = csoundTime
  /\ playing' = playing \ {i}
  /\ rendered' = FALSE
  /\ UNCHANGED <<csoundTime, source, scope, clockVars>>

(* A packet is sent before it holds more than it can.                      *)
PassTime ==
  /\ csoundTime < MaxNow
  /\ \A i \in playing : csoundTime - source[i] < MaxSamples
  /\ csoundTime' = csoundTime + 1
  /\ rendered' = FALSE
  /\ UNCHANGED <<playing, source, scope, clockVars>>

-----------------------------------------------------------------------------
(* The ring of a stream *)

(* append_scope_value for one sample after the other: they are put at the  *)
(* write position, and later ones overwrite earlier ones.                  *)
AppendedValue(s, samples) ==
  LET count == Len(samples)
      At(k) == {n \in 1 .. count : (s.writeIndex + n - 1) % Capacity = k}
  IN [s EXCEPT
        !.buffer = [k \in RingIndices |-> IF At(k) = {} THEN s.buffer[k] ELSE samples[Max(At(k))]],
        !.writeIndex = (@ + count) % Capacity,
        !.total = @ + count,
        !.valid = LeastIn(@ + count, Capacity)]

(* append_scope_gap: a gap longer than the ring clears it.                 *)
WithGap(s, gap) ==
  IF gap >= Capacity
  THEN [s EXCEPT !.buffer = [k \in RingIndices |-> Zero],
                 !.total = @ + gap,
                 !.writeIndex = (s.total + gap) % Capacity,
                 !.valid = Capacity]
  ELSE AppendedValue(s, [n \in 1 .. gap |-> Zero])

(* Mutants: a gap is not filled; samples that came already come again.     *)
NotFilled(s, sequence) == s
NothingSkipped(s, sequence) == sequence

(* The samples between the end of the ring and the packet are zero.        *)
FilledGap(s, sequence) ==
  IF sequence > s.next THEN WithGap(s, sequence - s.next) ELSE s

(* The samples of the packet that the ring has already are skipped.        *)
FirstNew(s, sequence) == IF sequence < s.next THEN s.next ELSE sequence

(* append_scope_samples *)
WithSamples(s, sequence, count) ==
  LET seen == IF s.hasSequence THEN s ELSE [s EXCEPT !.next = sequence, !.hasSequence = TRUE]
      first == FirstNew(seen, sequence)
  IN IF first >= sequence + count THEN seen
     ELSE [AppendedValue(FilledGap(seen, sequence), [n \in 1 .. sequence + count - first |-> first + n - 1])
             EXCEPT !.next = sequence + count]

(* process_data_packet; the buffer is allocated with the first packet.     *)
ReceivedPacket(s, sequence, count) ==
  IF s.state = "unsupported" THEN s
  ELSE WithSamples([s EXCEPT !.state = "ready"], sequence, count)

Due(i) == csoundTime - source[i]

SendScopePacket(i) ==
  /\ i \in playing /\ Due(i) > 0
  /\ scope' = [scope EXCEPT ![i] = ReceivedPacket(@, source[i], Due(i))]
  /\ source' = [source EXCEPT ![i] = csoundTime]
  /\ rendered' = FALSE
  /\ UNCHANGED <<csoundTime, playing, clockVars>>

(* There is no memory for the buffer of a stream.                          *)
RejectScopeStream(i) ==
  /\ i \in playing /\ Due(i) > 0 /\ scope[i].state = "none" /\ Faulty
  /\ scope' = [scope EXCEPT ![i].state = "unsupported"]
  /\ source' = [source EXCEPT ![i] = csoundTime]
  /\ rendered' = FALSE
  /\ UNCHANGED <<csoundTime, playing, clockVars>>

LoseScopePacket(i) ==
  /\ Faulty /\ i \in playing /\ Due(i) > 0
  /\ source' = [source EXCEPT ![i] = csoundTime]
  /\ rendered' = FALSE
  /\ UNCHANGED <<csoundTime, playing, scope, clockVars>>

(* A packet from before comes late or again.                               *)
LateScopePacket(i) ==
  /\ Faulty
  /\ \E sequence \in 0 .. source[i] - 1, count \in 1 .. MaxSamples :
       /\ sequence + count <= source[i]
       /\ scope' = [scope EXCEPT ![i] = ReceivedPacket(@, sequence, count)]
  /\ rendered' = FALSE
  /\ UNCHANGED <<csoundVars, clockVars>>

-----------------------------------------------------------------------------
(* The display clock *)

Found == {i \in StreamIds : scope[i].state = "ready" /\ scope[i].valid > 0}
LatestSafe == Min({scope[i].next - Latency : i \in Found})
(* Mutant: the display may run ahead of all streams but the fastest.       *)
LatestOfAny == Max({scope[i].next : i \in Found})
LatestReceived == Min({scope[i].next : i \in Found})
FullWindowEnds ==
  {scope[i].next - scope[i].valid + WindowSamples :
     i \in {j \in Found : scope[j].valid >= WindowSamples}}

(* The display jumps to the oldest complete window the rings still hold.   *)
Jumped(end) ==
  IF FullWindowEnds # {} /\ Max(FullWindowEnds) <= LatestSafe
  THEN IF end < Max(FullWindowEnds) THEN Max(FullWindowEnds) ELSE end
  ELSE end

Elapsed == IF RealTime THEN {csoundTime - lastRender} ELSE 0 .. MaxElapsed

(* advance_scope_timeline, as a frame is drawn                             *)
RenderFrame ==
  /\ Found # {}
  /\ \E elapsed \in Elapsed :
       displayEnd' = LeastIn(Jumped(IF started THEN displayEnd + elapsed ELSE LatestSafe),
                           LatestReceived)
  /\ started' = TRUE /\ rendered' = TRUE
  /\ lastRender' = IF RealTime THEN csoundTime ELSE lastRender
  /\ UNCHANGED <<csoundVars, scope>>

ScopeNext ==
  \/ PassTime \/ RenderFrame
  \/ \E i \in StreamIds :
       \/ StartStream(i) \/ EndStream(i)
       \/ SendScopePacket(i) \/ RejectScopeStream(i)
       \/ LoseScopePacket(i) \/ LateScopePacket(i)

ScopeSpec == ScopeInit /\ [][ScopeNext]_scopeVars

-----------------------------------------------------------------------------
(* draw_scope_stream *)

Oldest(s) == s.next - s.valid
DrawnEnd(s) == LeastIn(displayEnd, s.next)
PointCount(s) ==
  IF s.state # "ready" \/ s.valid = 0 \/ DrawnEnd(s) <= Oldest(s) THEN 0
  ELSE LeastIn(DrawnEnd(s) - Oldest(s), WindowSamples)

(* scope_buffer_index *)
BufferIndex(s, sequence) ==
  (s.writeIndex + Capacity - ((s.next - sequence) % Capacity)) % Capacity

(* The point drawn for sample t: scope_display_sample                      *)
DrawnPoint(s, t) ==
  LET first == DrawnEnd(s) - PointCount(s)
  IN s.buffer[(BufferIndex(s, first) + t - first) % Capacity]
DrawnTimes(s) == DrawnEnd(s) - PointCount(s) .. DrawnEnd(s) - 1

(* Every point a frame draws stands where its sample belongs: it is the    *)
(* sample of that time or, where a packet is missing, zero, however the    *)
(* ring wrapped and whatever gaps and repetitions it saw.                  *)
PointsAreInPlace ==
  rendered => \A i \in StreamIds : \A t \in DrawnTimes(scope[i]) :
                DrawnPoint(scope[i], t) \in {t, Zero}

(* Streams are drawn in phase: what one frame draws of them ends at one    *)
(* time (doc/watchadd.md 40-41).                                           *)
StreamsInPhase ==
  rendered => \A i, j \in StreamIds :
    PointCount(scope[i]) > 0 /\ PointCount(scope[j]) > 0
      => DrawnEnd(scope[i]) = DrawnEnd(scope[j])

(* The ring is long enough: as long as the streams of a graph keep up with *)
(* each other to a packet, and their rings are full, each frame draws a    *)
(* full window of every one of them (lines 1280, 1496-1503).               *)
KeepUp ==
  \A i, j \in Found : /\ scope[i].valid = Capacity
                      /\ scope[i].next - scope[j].next <= MaxSamples
FullWindowIsDrawn ==
  rendered /\ KeepUp => \A i \in Found : PointCount(scope[i]) = WindowSamples

(* A stream that plays, with a full ring and its newest packet received,   *)
(* is drawn: "the newest samples are placed at the right edge of the graph *)
(* and the signal scrolls" (doc/watchscope.md 14-16), in a graph that      *)
(* serves "an unlimited number of notes over time" (doc/watchadd.md 26).   *)
PlayingStreamIsDrawn ==
  rendered => \A i \in playing :
    scope[i].valid = Capacity /\ scope[i].next = csoundTime => PointCount(scope[i]) > 0
=============================================================================
