---------------------------- MODULE SpectralFrame ----------------------------
(***************************************************************************)
(* The way of a spectral frame: watch_add_f cuts it into chunks that fit a *)
(* packet, the sender thread drains the ring, and process_spectral_packet  *)
(* puts the chunks together again and shows the frame, as a spectrum or as *)
(* a column of a spectrogram. The instance may end and another one, with   *)
(* frames of another size, may take over its stream slot.                  *)
(*                                                                         *)
(* A frame is named by its sequence, the time of the call that saw it, and *)
(* a bin carries the name of the frame it belongs to. The format stands    *)
(* for fft_size, hop_size and sample_rate together. The ring is the one of *)
(* WatchStream, here a queue. A packet that was sent may be received at    *)
(* any time, more than once, after later ones, or never.                   *)
(***************************************************************************)
EXTENDS Integers, Sequences, FiniteSets, FiniteSetsExt

CONSTANTS
  Formats,          \* the numbers of bins a frame may have
  MaxSpectralBins,  \* MAX_SPECTRAL_BINS, what a packet holds
  QueueSize,        \* MAX_QUEUE_SIZE, one slot stays empty
  HistoryCapacity,  \* columns of a spectrogram
  MaxFrameTime      \* bound: the last time watch_add_f is called

ASSUME SpectralAssumption ==
  /\ Formats \subseteq Nat \ {0}
  /\ MaxSpectralBins \in Nat \ {0}
  /\ QueueSize \in Nat /\ QueueSize >= 2
  /\ HistoryCapacity \in Nat \ {0}
  /\ MaxFrameTime \in Nat

VARIABLES
  domain,       \* of the graph: "spectrum" or "spectrogram"
  now,          \* csound->GetCurrentTimeSamples
  framecount,   \* of the f-signal
  adder,        \* the watchadd instance
  queued,       \* packets in the ring of the stream
  dropped,      \* dropped_samples of the stream
  arriving,     \* packets sent, which may yet arrive, again or for the first time
  view,         \* the spectral buffer of the stream in the viewer
  frames        \* history: the frames watch_add_f saw

pluginVars == <<now, framecount, adder, queued, dropped, frames>>
spectralVars == <<domain, pluginVars, arriving, view>>

Smaller(a, b) == IF a < b THEN a ELSE b

FrameTimes == 1 .. MaxFrameTime
FrameIds == 0 .. MaxFrameTime
Bins(format) == 0 .. format - 1

SpectralPackets ==
  [sequence : FrameTimes, frameId : FrameIds, total : Formats,
   offset : Nat, count : Nat]

Frames == [sequence : FrameTimes, frameId : FrameIds, total : Formats]

(* calloc: a bin of no frame *)
NoFrame == 0
Silent(format) == [bin \in Bins(format) |-> NoFrame]
Column == UNION {[Bins(f) -> FrameTimes \cup {NoFrame}] : f \in Formats}
Blank == <<>>

ClearedView ==
  [total |-> 0, allocated |-> FALSE, unsupported |-> FALSE,
   hasFrame |-> FALSE, assembling |-> FALSE, sequence |-> 0, frameId |-> 0,
   assembly |-> Blank, received |-> {}, receivedCount |-> 0,
   displayReady |-> FALSE, display |-> Blank,
   history |-> [c \in 0 .. HistoryCapacity - 1 |-> Blank],
   writeIndex |-> 0, validFrames |-> 0]

Views ==
  [total : Formats \cup {0}, allocated : BOOLEAN, unsupported : BOOLEAN,
   hasFrame : BOOLEAN, assembling : BOOLEAN,
   sequence : FrameTimes \cup {0}, frameId : FrameIds,
   assembly : Column \cup {Blank}, received : SUBSET Nat, receivedCount : Nat,
   displayReady : BOOLEAN, display : Column \cup {Blank},
   history : [0 .. HistoryCapacity - 1 -> Column \cup {Blank}],
   writeIndex : 0 .. HistoryCapacity - 1, validFrames : 0 .. HistoryCapacity]

SpectralTypeOK ==
  /\ domain \in {"spectrum", "spectrogram"}
  /\ now \in 0 .. MaxFrameTime
  /\ framecount \in FrameIds
  /\ adder \in [playing : BOOLEAN, total : Formats, lastFrameId : FrameIds,
                inFrame : BOOLEAN, sourceBin : Nat]
  /\ queued \in Seq(SpectralPackets) /\ Len(queued) < QueueSize
  /\ dropped \in Nat
  /\ arriving \subseteq SpectralPackets
  /\ view \in Views
  /\ frames \subseteq Frames

NewAdder(format, count) ==
  [playing |-> TRUE, total |-> format, lastFrameId |-> count,
   inFrame |-> FALSE, sourceBin |-> 0]

SpectralInit ==
  /\ domain \in {"spectrum", "spectrogram"}
  /\ now = 0 /\ framecount = 0
  /\ adder \in {NewAdder(f, 0) : f \in Formats}
  /\ queued = <<>> /\ dropped = 0 /\ arriving = {} /\ frames = {}
  /\ view = ClearedView

-----------------------------------------------------------------------------
(* The plugin *)

(* The instance ends; its slot is given out again only when it is drained. *)
EndInstance ==
  /\ adder.playing /\ ~adder.inFrame
  /\ adder' = [adder EXCEPT !.playing = FALSE]
  /\ UNCHANGED <<domain, now, framecount, queued, dropped, arriving, view, frames>>

(* watch_add_f_init on an f-signal of its own, which counts its frames     *)
(* from zero, or on one that has been running.                             *)
StartInstance ==
  /\ ~adder.playing /\ queued = <<>>
  /\ \E f \in Formats, count \in {0, framecount} :
       /\ adder' = NewAdder(f, count)
       /\ framecount' = count
  /\ UNCHANGED <<domain, now, queued, dropped, arriving, view, frames>>

(* A call of watch_add_f, one per control cycle: with a new frame, the     *)
(* loop over its chunks begins.                                            *)
AddFrame ==
  /\ adder.playing /\ ~adder.inFrame /\ now < MaxFrameTime
  /\ now' = now + 1
  /\ framecount' \in {framecount, framecount + 1}
  /\ IF framecount' = adder.lastFrameId THEN UNCHANGED <<adder, frames>>
     ELSE /\ adder' = [adder EXCEPT !.inFrame = TRUE, !.sourceBin = 0]
          /\ frames' = frames \cup {[sequence |-> now', frameId |-> framecount',
                                     total |-> adder.total]}
  /\ UNCHANGED <<domain, queued, dropped, arriving, view>>

Remaining == adder.total - adder.sourceBin
Room == Len(queued) < QueueSize - 1
Chunk == Smaller(Remaining, MaxSpectralBins)

ChunkPacket ==
  [sequence |-> now, frameId |-> framecount, total |-> adder.total,
   offset |-> adder.sourceBin, count |-> Chunk]

PublishChunk ==
  /\ adder.inFrame /\ Room
  /\ queued' = Append(queued, ChunkPacket)
  /\ adder' = IF Chunk = Remaining
              THEN [adder EXCEPT !.inFrame = FALSE, !.lastFrameId = framecount]
              ELSE [adder EXCEPT !.sourceBin = @ + Chunk]
  /\ UNCHANGED <<domain, now, framecount, dropped, arriving, view, frames>>

(* Mutant: only the chunk that found no room is counted as dropped.        *)
DropChunk ==
  /\ adder.inFrame /\ ~Room
  /\ dropped' = dropped + Chunk
  /\ adder' = [adder EXCEPT !.inFrame = FALSE, !.lastFrameId = framecount]
  /\ UNCHANGED <<domain, now, framecount, queued, arriving, view, frames>>

(* The ring is full: the rest of the frame is dropped.                     *)
DropFrameRest ==
  /\ adder.inFrame /\ ~Room
  /\ dropped' = dropped + Remaining
  /\ adder' = [adder EXCEPT !.inFrame = FALSE, !.lastFrameId = framecount]
  /\ UNCHANGED <<domain, now, framecount, queued, arriving, view, frames>>

(* send_stream_packets hands the oldest packet to the socket.              *)
SendChunk ==
  /\ queued # <<>>
  /\ arriving' = arriving \cup {Head(queued)}
  /\ queued' = Tail(queued)
  /\ UNCHANGED <<domain, now, framecount, adder, dropped, view, frames>>

-----------------------------------------------------------------------------
(* The viewer *)

(* validate_spectral_data_packet, on the fields the model keeps *)
ValidChunk(p) ==
  /\ p.count > 0 /\ p.count <= MaxSpectralBins
  /\ p.offset < p.total /\ p.count <= p.total - p.offset

(* Mutant: a packet of an older frame is put into the one being assembled. *)
NeverLate(p) == FALSE

(* The two early returns on the frame at hand *)
Late(p) == view.hasFrame /\ p.sequence < view.sequence
Foreign(p) ==
  /\ view.hasFrame /\ p.sequence = view.sequence
  /\ p.frameId # view.frameId \/ p.total # view.total

(* ensure_spectral_stream: the buffers fit the packet, or the packet is of *)
(* a format that could not be served, or new buffers are needed.           *)
Fits(p) == view.allocated /\ view.total = p.total
KnownBad(p) == view.unsupported /\ view.total = p.total

Allocated(p) ==
  [ClearedView EXCEPT !.total = p.total, !.allocated = TRUE,
                      !.assembly = Silent(p.total),
                      !.display = IF domain = "spectrum" THEN Silent(p.total) ELSE Blank]

RejectedFor(p) == [ClearedView EXCEPT !.total = p.total, !.unsupported = TRUE]

(* Mutant: what was received of the previous frame still counts.           *)
BegunOverOld(v, p) ==
  [v EXCEPT !.sequence = p.sequence, !.frameId = p.frameId,
            !.hasFrame = TRUE, !.assembling = TRUE]

(* begin_spectral_frame *)
Begun(v, p) ==
  [v EXCEPT !.received = {}, !.receivedCount = 0,
            !.sequence = p.sequence, !.frameId = p.frameId,
            !.hasFrame = TRUE, !.assembling = TRUE]

NewFrame(v, p) == ~v.hasFrame \/ p.sequence > v.sequence
Continued(v, p) ==
  v.assembling /\ p.sequence = v.sequence /\ p.frameId = v.frameId

Covered(p) == p.offset .. p.offset + p.count - 1

(* Mutant: a bin received twice is counted twice.                          *)
FilledCountingAll(v, p) ==
  [v EXCEPT !.assembly = [bin \in DOMAIN @ |->
                            IF bin \in Covered(p) THEN p.sequence ELSE @[bin]],
            !.received = @ \cup Covered(p),
            !.receivedCount = @ + p.count]

(* The bins of the packet; a bin is counted the first time it comes.       *)
Filled(v, p) ==
  [v EXCEPT !.assembly = [bin \in DOMAIN @ |->
                            IF bin \in Covered(p) THEN p.sequence ELSE @[bin]],
            !.received = @ \cup Covered(p),
            !.receivedCount = @ + Cardinality(Covered(p) \ v.received)]

(* Mutant: a full spectrogram keeps its write position.                    *)
AppendedAtEnd(v) ==
  [v EXCEPT !.history[v.writeIndex] = v.assembly,
            !.writeIndex = IF @ + 1 = HistoryCapacity THEN @ ELSE @ + 1,
            !.validFrames = Smaller(@ + 1, HistoryCapacity)]

(* append_spectrogram_frame *)
Appended(v) ==
  [v EXCEPT !.history[v.writeIndex] = v.assembly,
            !.writeIndex = (@ + 1) % HistoryCapacity,
            !.validFrames = Smaller(@ + 1, HistoryCapacity)]

(* A complete frame is shown and no longer assembled.                      *)
Shown(v) ==
  IF domain = "spectrum"
  THEN [v EXCEPT !.assembling = FALSE, !.display = v.assembly, !.displayReady = TRUE]
  ELSE Appended([v EXCEPT !.assembling = FALSE])

Accepted(p) == ValidChunk(p) /\ ~Late(p) /\ ~Foreign(p)

(* The stream when the bins of the packet are in *)
Assembled(p) ==
  LET ready == IF Fits(p) THEN view ELSE Allocated(p)
  IN Filled(IF NewFrame(ready, p) THEN Begun(ready, p) ELSE ready, p)

Serves(p) ==
  /\ Accepted(p)
  /\ Fits(p) => NewFrame(view, p) \/ Continued(view, p)
  /\ ~Fits(p) => ~KnownBad(p)

(* process_spectral_packet, with the buffers it needs *)
ReceiveChunk(p) ==
  /\ Serves(p)
  /\ LET v == Assembled(p)
     IN view' = IF v.receivedCount = v.total THEN Shown(v) ELSE v
  /\ UNCHANGED <<domain, pluginVars, arriving>>

(* There is no memory for a new format.                                    *)
RejectFormat(p) ==
  /\ Serves(p) /\ ~Fits(p)
  /\ view' = RejectedFor(p)
  /\ UNCHANGED <<domain, pluginVars, arriving>>

(* The frame is complete, but the texture cannot take it.                  *)
RejectColumn(p) ==
  /\ Serves(p) /\ domain = "spectrogram"
  /\ Assembled(p).receivedCount = p.total
  /\ view' = RejectedFor(p)
  /\ UNCHANGED <<domain, pluginVars, arriving>>

(* apply_graph_theme clears the streams of a spectrogram.                  *)
ChangeSpectralTheme ==
  /\ domain = "spectrogram"
  /\ view' = ClearedView
  /\ UNCHANGED <<domain, pluginVars, arriving>>

SpectralNext ==
  \/ EndInstance \/ StartInstance
  \/ AddFrame \/ PublishChunk \/ DropFrameRest \/ SendChunk
  \/ \E p \in arriving : ReceiveChunk(p) \/ RejectFormat(p) \/ RejectColumn(p)
  \/ ChangeSpectralTheme

SpectralSpec == SpectralInit /\ [][SpectralNext]_spectralVars

-----------------------------------------------------------------------------
(* render_spectrogram_history: the columns from left to right *)
DrawnHistory ==
  IF view.validFrames < HistoryCapacity
  THEN [i \in 1 .. view.validFrames |-> view.history[i - 1]]
  ELSE [i \in 1 .. HistoryCapacity |->
          view.history[(view.writeIndex + i - 1) % HistoryCapacity]]

FrameImage(frame) == [bin \in Bins(frame.total) |-> frame.sequence]
WholeFrames == {FrameImage(frame) : frame \in frames}

(* What is on display is one whole frame that watch_add_f saw, never bins  *)
(* of two frames or bins that did not arrive: chunks may be dropped at a   *)
(* full ring, lost, repeated or late, and the stream slot may have passed  *)
(* to an instance with frames of another size (watch_viewer.c 2670-2750).  *)
ShownFrameIsWhole ==
  /\ view.displayReady => view.display \in WholeFrames
  /\ \A i \in DOMAIN DrawnHistory : DrawnHistory[i] \in WholeFrames

(* The columns of a spectrogram are drawn oldest first, no frame twice,    *)
(* also after the write position wrapped around (lines 2663 and 3106-3158).*)
HistoryInOrder ==
  \A i, j \in DOMAIN DrawnHistory :
    i < j => DrawnHistory[i][0] < DrawnHistory[j][0]

(* A frame all of whose bins have come is not left waiting: as long as the *)
(* viewer assembles, a bin is missing, and the counter that decides it     *)
(* counts every bin once (lines 2724-2730).                                *)
CompleteFrameIsShown ==
  view.assembling =>
    /\ view.received # Bins(view.total)
    /\ view.receivedCount = Cardinality(view.received)

(* Every bin of every frame the call saw is in a packet or counted as      *)
(* dropped, whatever the ring had room for (watch.c 1227-1263).            *)
BinsAccounted ==
  LET packets == arriving \cup {queued[i] : i \in DOMAIN queued}
      current == IF adder.inFrame THEN Remaining ELSE 0
  IN MapThenSumSet(LAMBDA f : f.total, frames)
       = MapThenSumSet(LAMBDA p : p.count, packets) + dropped + current

(* The spectrum on display is never replaced by an older one.              *)
SpectrumNeverOlder ==
  [][view.displayReady /\ view'.displayReady
       => view.display[0] <= view'.display[0]]_spectralVars
=============================================================================
