------------------------- MODULE SpectralFrame_proofs -------------------------
(***************************************************************************)
(* Proofs about SpectralFrame for every set of formats, packet size, ring  *)
(* size, history length and time bound: whatever is lost, repeated or      *)
(* reordered, only whole frames are shown, and complete ones are; and no   *)
(* bin of a frame gets lost uncounted before it is sent.                   *)
(***************************************************************************)
EXTENDS SpectralFrame, FiniteSetTheorems, NaturalsInduction, WellFoundedInduction, TLAPS

FrameOf(r) == [sequence |-> r.sequence, frameId |-> r.frameId, total |-> r.total]

ImagesOf(seen) == {FrameImage(frame) : frame \in seen}

(* The assembly of a frame: what was received of it is in place, and the   *)
(* counter counts it.                                                      *)
Sound(v, seen) ==
  /\ v \in Views
  /\ v.hasFrame => v.allocated /\ FrameOf(v) \in seen
  /\ v.allocated => /\ v.total \in Formats
                    /\ v.assembly \in [Bins(v.total) -> FrameTimes \cup {NoFrame}]
                    /\ v.received \subseteq Bins(v.total)
                    /\ v.receivedCount = Cardinality(v.received)
  /\ v.assembling => v.hasFrame /\ \A bin \in v.received : v.assembly[bin] = v.sequence

(* What is on display                                                      *)
ShowsWhole(v, seen) ==
  /\ v.displayReady => v.display \in ImagesOf(seen)
  /\ \A c \in 0 .. v.validFrames - 1 : v.history[c] \in ImagesOf(seen)
  /\ v.validFrames = HistoryCapacity \/ v.writeIndex = v.validFrames

Unfinished(v) == v.assembling => v.receivedCount # v.total

ViewInv == Sound(view, frames) /\ ShowsWhole(view, frames) /\ Unfinished(view)

(* A column was written before another if it is nearer to the start of its *)
(* part of the ring, or in the part the write position has yet to reach.   *)
WrittenBefore(v, c, d) ==
  \/ c < d /\ (d < v.writeIndex \/ v.writeIndex <= c)
  \/ d < v.writeIndex /\ v.writeIndex <= c

(* A frame that is out is not younger than the one at hand, and older than *)
(* one that is still assembled.                                            *)
Out(v, time) ==
  /\ v.hasFrame /\ time \in Nat /\ time <= v.sequence
  /\ v.assembling => time < v.sequence

Dated(v) ==
  /\ v.displayReady => Out(v, v.display[0])
  /\ \A c \in 0 .. v.validFrames - 1 : Out(v, v.history[c][0])
  /\ \A c, d \in 0 .. v.validFrames - 1 :
       WrittenBefore(v, c, d) => v.history[c][0] < v.history[d][0]

PacketInv ==
  /\ \A p \in arriving : FrameOf(p) \in frames
  /\ \A i \in 1 .. Len(queued) : FrameOf(queued[i]) \in frames

(* The frame watch_add_f is at has bins left, and f-signals do not count   *)
(* faster than control cycles.                                             *)
AdderInv ==
  /\ framecount <= now
  /\ adder.inFrame => /\ adder.sourceBin < adder.total
                      /\ [sequence |-> now, frameId |-> framecount,
                          total |-> adder.total] \in frames

FrameInv == SpectralTypeOK /\ PacketInv /\ AdderInv /\ ViewInv

-----------------------------------------------------------------------------
(* The functions the viewer is built from                                  *)

LEMMA SmallerIsEither ==
  \A a, b \in Nat : /\ Smaller(a, b) \in {a, b}
                    /\ Smaller(a, b) <= a /\ Smaller(a, b) <= b
BY DEF Smaller

(* A buffer as calloc leaves it is a column.                               *)
LEMMA SilentIsColumn ==
  ASSUME NEW f \in Formats
  PROVE  Silent(f) \in [Bins(f) -> FrameTimes \cup {NoFrame}] /\ Silent(f) \in Column
BY DEF Silent, Column

LEMMA NothingReceived == Cardinality({}) = 0
BY FS_EmptySet

LEMMA ClearedIsView == ClearedView \in Views
BY SpectralAssumption DEF ClearedView, Views, FrameIds

(* A cleared stream assembles nothing and shows nothing.                   *)
LEMMA ClearedIsSound ==
  ASSUME NEW seen
  PROVE  /\ Sound(ClearedView, seen) /\ ShowsWhole(ClearedView, seen)
         /\ Unfinished(ClearedView)
BY ClearedIsView DEF ClearedView, Sound, ShowsWhole, Unfinished

(* Neither does a stream whose format is rejected ...                      *)
LEMMA RejectedIsSound ==
  ASSUME NEW seen, NEW p \in SpectralPackets
  PROVE  /\ Sound(RejectedFor(p), seen) /\ ShowsWhole(RejectedFor(p), seen)
         /\ Unfinished(RejectedFor(p))
<1>1. RejectedFor(p) \in Views
  BY ClearedIsView DEF RejectedFor, Views, SpectralPackets
<1>2. QED
  BY <1>1 DEF RejectedFor, ClearedView, Sound, ShowsWhole, Unfinished

(* ... or one with new buffers.                                            *)
LEMMA AllocatedIsSound ==
  ASSUME NEW seen, NEW p \in SpectralPackets
  PROVE  /\ Sound(Allocated(p), seen) /\ ShowsWhole(Allocated(p), seen)
         /\ Allocated(p).allocated /\ ~Allocated(p).hasFrame
         /\ Allocated(p).total = p.total
<1>1. p.total \in Formats
  BY DEF SpectralPackets
<1>2. Allocated(p) \in Views
  BY <1>1, SilentIsColumn, ClearedIsView DEF Allocated, Views
<1>3. QED
  BY <1>1, <1>2, SilentIsColumn, NothingReceived
     DEF Allocated, ClearedView, Sound, ShowsWhole

(* A new frame starts from nothing.                                        *)
LEMMA BegunIsSound ==
  ASSUME NEW seen, NEW v, Sound(v, seen), ShowsWhole(v, seen), v.allocated,
        
         NEW p \in SpectralPackets, FrameOf(p) \in seen, v.total = p.total
  PROVE  /\ Sound(Begun(v, p), seen) /\ ShowsWhole(Begun(v, p), seen)
         /\ Begun(v, p).assembling /\ Begun(v, p).total = p.total
         /\ Begun(v, p).allocated /\ Begun(v, p).sequence = p.sequence
<1>1. /\ Begun(v, p) \in Views
      /\ FrameOf(Begun(v, p)) = FrameOf(p)
  BY DEF Begun, Views, Sound, SpectralPackets, FrameOf
<1>2. QED
  BY <1>1, NothingReceived DEF Begun, Sound, ShowsWhole, Views

(* The bins of a valid packet are bins of its frame.                       *)
LEMMA CoveredAreBins ==
  ASSUME NEW p \in SpectralPackets, ValidChunk(p)
  PROVE  Covered(p) \subseteq Bins(p.total) /\ Covered(p) \subseteq Nat
<1>1. p.offset \in Nat /\ p.count \in Nat /\ p.total \in Nat
  BY SpectralAssumption DEF SpectralPackets
<1>2. p.offset + p.count <= p.total
  BY <1>1 DEF ValidChunk
<1>3. QED
  BY <1>1, <1>2 DEF Covered, Bins

LEMMA BinsAreFinite ==
  ASSUME NEW f \in Formats
  PROVE  IsFiniteSet(Bins(f)) /\ Cardinality(Bins(f)) = f
<1>1. f \in Nat \ {0} /\ f - 1 \in Int
  BY SpectralAssumption
<1>2. QED
  BY <1>1, FS_Interval DEF Bins

(* A bin is counted once, however often it comes.                          *)
LEMMA CountingOnce ==
  ASSUME NEW f \in Formats, NEW had \in SUBSET Bins(f), NEW new \in SUBSET Bins(f)
  PROVE  Cardinality(had \cup new) = Cardinality(had) + Cardinality(new \ had)
<1>1. IsFiniteSet(had) /\ IsFiniteSet(new \ had)
  BY BinsAreFinite, FS_Subset
<1>2. /\ Cardinality(had) \in Nat /\ Cardinality(new \ had) \in Nat
      /\ Cardinality(had \cup (new \ had))
           = Cardinality(had) + Cardinality(new \ had) - Cardinality(had \cap (new \ had))
  BY <1>1, FS_Union, FS_CardinalityType
<1>3. had \cap (new \ had) = {} /\ had \cup (new \ had) = had \cup new
  OBVIOUS
<1>4. Cardinality(had \cap (new \ had)) = 0
  BY <1>3, NothingReceived
<1>5. Cardinality(had \cup (new \ had)) = Cardinality(had) + Cardinality(new \ had)
  BY <1>2, <1>4
<1>6. QED
  BY <1>3, <1>5

(* The bins of a packet of the frame at hand are put in place.             *)
LEMMA FilledIsSound ==
  ASSUME NEW seen, NEW v, Sound(v, seen), ShowsWhole(v, seen), v.assembling,
         NEW p \in SpectralPackets, ValidChunk(p),
         v.total = p.total, v.sequence = p.sequence
  PROVE  /\ Sound(Filled(v, p), seen) /\ ShowsWhole(Filled(v, p), seen)
         /\ Filled(v, p).assembling /\ Filled(v, p).total = p.total
<1> DEFINE w == Filled(v, p)
<1>1. /\ v \in Views /\ v.allocated /\ v.hasFrame /\ v.total \in Formats
      /\ v.assembly \in [Bins(v.total) -> FrameTimes \cup {NoFrame}]
      /\ v.received \subseteq Bins(v.total)
      /\ v.receivedCount = Cardinality(v.received)
  BY DEF Sound
<1>2. /\ Covered(p) \subseteq Bins(v.total) /\ Covered(p) \subseteq Nat
      /\ p.sequence \in FrameTimes
  BY CoveredAreBins DEF SpectralPackets
<1>3. w = [v EXCEPT !.assembly = w.assembly, !.received = w.received,
                    !.receivedCount = w.receivedCount]
  BY <1>1 DEF Filled, Views
<1>4. /\ w.assembly = [bin \in Bins(v.total) |-> IF bin \in Covered(p) THEN p.sequence
                                                ELSE v.assembly[bin]]
      /\ w.received = v.received \cup Covered(p)
      /\ w.receivedCount = v.receivedCount + Cardinality(Covered(p) \ v.received)
  BY <1>1 DEF Filled, Views
<1>5. w.assembly \in [Bins(v.total) -> FrameTimes \cup {NoFrame}]
  BY <1>1, <1>2, <1>4
<1>6. w.assembly \in Column /\ w.received \in SUBSET Nat
  BY <1>1, <1>2, <1>4, <1>5 DEF Column, Views
<1>7. w.receivedCount = Cardinality(w.received) /\ w.receivedCount \in Nat
  <2>1. w.receivedCount = Cardinality(w.received)
    <3>1. Cardinality(v.received \cup Covered(p))
            = Cardinality(v.received) + Cardinality(Covered(p) \ v.received)
      BY <1>1, <1>2, CountingOnce
    <3>2. QED
      BY <1>1, <1>4, <3>1
  <2>2. IsFiniteSet(w.received)
    BY <1>1, <1>2, <1>4, BinsAreFinite, FS_Subset
  <2>3. QED
    BY <2>1, <2>2, FS_CardinalityType
<1>8. \A bin \in w.received : w.assembly[bin] = v.sequence
  BY <1>1, <1>2, <1>4 DEF Sound
<1>9. w \in Views
  BY <1>1, <1>3, <1>6, <1>7 DEF Views
<1>10. /\ w.total = v.total /\ w.allocated /\ w.hasFrame /\ w.assembling
       /\ w.sequence = v.sequence /\ w.frameId = v.frameId
       /\ w.displayReady = v.displayReady /\ w.display = v.display
       /\ w.history = v.history /\ w.validFrames = v.validFrames
       /\ w.writeIndex = v.writeIndex
  BY <1>1, <1>3 DEF Views
<1>11. Sound(w, seen)
  BY <1>1, <1>2, <1>4, <1>5, <1>7, <1>8, <1>9, <1>10 DEF Sound, FrameOf
<1>12. ShowsWhole(w, seen)
  BY <1>10 DEF ShowsWhole
<1>13. QED
  BY <1>10, <1>11, <1>12

(* When the counter reaches the number of bins, the assembly is the frame. *)
LEMMA CountedIsWhole ==
  ASSUME NEW seen, NEW v, Sound(v, seen), v.assembling, v.receivedCount = v.total
  PROVE  v.assembly \in ImagesOf(seen)
<1>1. /\ v.total \in Formats /\ v.received \subseteq Bins(v.total)
      /\ v.assembly \in [Bins(v.total) -> FrameTimes \cup {NoFrame}]
      /\ Cardinality(v.received) = v.total /\ FrameOf(v) \in seen
      /\ \A bin \in v.received : v.assembly[bin] = v.sequence
  BY DEF Sound
<1>2. v.received = Bins(v.total)
  BY <1>1, BinsAreFinite, FS_Subset
<1>3. v.assembly = FrameImage(FrameOf(v))
  BY <1>1, <1>2 DEF FrameImage, FrameOf
<1>4. QED
  BY <1>1, <1>3 DEF ImagesOf

(* A whole frame may be shown.                                             *)
LEMMA ShownIsSound ==
  ASSUME NEW seen, NEW v, Sound(v, seen), ShowsWhole(v, seen), v.assembling, v.receivedCount = v.total
  PROVE  Sound(Shown(v), seen) /\ ShowsWhole(Shown(v), seen) /\ Unfinished(Shown(v))
<1>1. v \in Views /\ v.assembly \in ImagesOf(seen) /\ v.allocated
  BY CountedIsWhole DEF Sound
<1>2. v.assembly \in Column
  BY <1>1 DEF Sound, Column
<1>3. CASE domain = "spectrum"
  <2>1. Shown(v) = [v EXCEPT !.assembling = FALSE, !.display = v.assembly, !.displayReady = TRUE]
    BY <1>3 DEF Shown
  <2>2. Shown(v) \in Views
    BY <1>1, <1>2, <2>1 DEF Views
  <2>3. QED
    BY <1>1, <2>1, <2>2 DEF Sound, ShowsWhole, Unfinished, Views, FrameOf
<1>4. CASE domain # "spectrum"
  <2> DEFINE w == Shown(v)
  <2>1. w = [v EXCEPT !.assembling = FALSE, !.history[v.writeIndex] = v.assembly,
                      !.writeIndex = (v.writeIndex + 1) % HistoryCapacity,
                      !.validFrames = Smaller(v.validFrames + 1, HistoryCapacity)]
    BY <1>1, <1>4 DEF Shown, Appended, Views
  <2>2. /\ v.writeIndex \in 0 .. HistoryCapacity - 1
        /\ v.validFrames \in 0 .. HistoryCapacity /\ HistoryCapacity \in Nat \ {0}
        /\ v.history \in [0 .. HistoryCapacity - 1 -> Column \cup {Blank}]
    BY <1>1, SpectralAssumption DEF Views
  <2>3. /\ w.writeIndex = (v.writeIndex + 1) % HistoryCapacity
        /\ w.validFrames = Smaller(v.validFrames + 1, HistoryCapacity)
        /\ w.history = [v.history EXCEPT ![v.writeIndex] = v.assembly]
        /\ ~w.assembling /\ w.displayReady = v.displayReady /\ w.display = v.display
        /\ w.total = v.total /\ w.allocated = v.allocated /\ w.hasFrame = v.hasFrame
        /\ w.sequence = v.sequence /\ w.frameId = v.frameId /\ w.assembly = v.assembly
        /\ w.received = v.received /\ w.receivedCount = v.receivedCount
    BY <1>1, <2>1 DEF Views
  <2>4. (v.writeIndex + 1) % HistoryCapacity
          = IF v.writeIndex = HistoryCapacity - 1 THEN 0 ELSE v.writeIndex + 1
    BY <2>2
  <2>5. /\ w.writeIndex \in 0 .. HistoryCapacity - 1
        /\ w.validFrames \in 0 .. HistoryCapacity
    BY <2>2, <2>3, <2>4 DEF Smaller
  <2>6. w.history \in [0 .. HistoryCapacity - 1 -> Column \cup {Blank}]
    BY <1>2, <2>2, <2>3
  <2>7. w \in Views
    BY <1>1, <2>1, <2>5, <2>6, <2>3 DEF Views
  <2>8. \A c \in 0 .. w.validFrames - 1 : w.history[c] \in ImagesOf(seen)
    BY <1>1, <2>2, <2>3 DEF ShowsWhole, Smaller
  <2>9. w.validFrames = HistoryCapacity \/ w.writeIndex = w.validFrames
    BY <2>2, <2>3, <2>4 DEF ShowsWhole, Smaller
  <2>10. QED
    BY <2>3, <2>7, <2>8, <2>9 DEF Sound, ShowsWhole, Unfinished, FrameOf
<1>5. QED
  BY <1>3, <1>4

(* What was a whole frame stays one when there are more.                   *)
LEMMA MoreFrames ==
  ASSUME NEW v, NEW seen, NEW more, seen \subseteq more,
         Sound(v, seen), ShowsWhole(v, seen)
  PROVE  Sound(v, more) /\ ShowsWhole(v, more)
BY DEF Sound, ShowsWhole, ImagesOf

-----------------------------------------------------------------------------
(* The order in which frames are shown                                     *)

(* Places at most one round ahead                                          *)
LEMMA RoundTrip ==
  ASSUME NEW n \in Nat \ {0}, NEW a \in 0 .. 2 * n - 1
  PROVE  a % n = IF a < n THEN a ELSE a - n
<1>1. CASE a < n
  BY <1>1
<1>2. CASE a >= n
  BY <1>2
<1>3. QED
  BY <1>1, <1>2

(* A stream that shows nothing has nothing to date.                        *)
LEMMA ClearedIsDated ==
  ASSUME NEW p
  PROVE  Dated(ClearedView) /\ Dated(RejectedFor(p)) /\ Dated(Allocated(p))
BY DEF ClearedView, RejectedFor, Allocated, Dated, Out

(* What was out is older than the frame that begins.                       *)
LEMMA BegunIsDated ==
  ASSUME NEW seen, NEW v, Sound(v, seen), Dated(v),
         NEW p \in SpectralPackets, NewFrame(v, p)
  PROVE  Dated(Begun(v, p))
<1> DEFINE w == Begun(v, p)
<1>1. v \in Views /\ p.sequence \in Nat /\ v.sequence \in Nat
  BY DEF Sound, Views, SpectralPackets, FrameTimes
<1>2. /\ w.hasFrame /\ w.assembling /\ w.sequence = p.sequence
      /\ w.displayReady = v.displayReady /\ w.display = v.display
      /\ w.history = v.history /\ w.writeIndex = v.writeIndex
      /\ w.validFrames = v.validFrames
  BY <1>1 DEF Begun, Views
<1>3. \A time : Out(v, time) => Out(w, time)
  BY <1>1, <1>2 DEF Out, NewFrame
<1> HIDE DEF w
<1>4. w.displayReady => Out(w, w.display[0])
  BY <1>2, <1>3 DEF Dated
<1>5. \A c \in 0 .. w.validFrames - 1 : Out(w, w.history[c][0])
  BY <1>2, <1>3 DEF Dated
<1>6. \A c, d : WrittenBefore(w, c, d) <=> WrittenBefore(v, c, d)
  BY <1>2 DEF WrittenBefore
<1>7. \A c, d \in 0 .. w.validFrames - 1 :
        WrittenBefore(w, c, d) => w.history[c][0] < w.history[d][0]
  BY <1>2, <1>6 DEF Dated
<1>8. QED
  BY <1>4, <1>5, <1>7 DEF Dated, w

(* Bins that come in show nothing.                                         *)
LEMMA FilledIsDated ==
  ASSUME NEW seen, NEW v, Sound(v, seen), Dated(v), NEW p \in SpectralPackets
  PROVE  /\ Dated(Filled(v, p)) /\ Filled(v, p).sequence = v.sequence
         /\ Filled(v, p).display = v.display
         /\ Filled(v, p).displayReady = v.displayReady
<1> DEFINE w == Filled(v, p)
<1>1. v \in Views
  BY DEF Sound
<1>2. /\ w.hasFrame = v.hasFrame /\ w.assembling = v.assembling
      /\ w.sequence = v.sequence
      /\ w.displayReady = v.displayReady /\ w.display = v.display
      /\ w.history = v.history /\ w.writeIndex = v.writeIndex
      /\ w.validFrames = v.validFrames
  BY <1>1 DEF Filled, Views
<1> HIDE DEF w
<1>3. Dated(w)
  BY <1>2 DEF Dated, Out, WrittenBefore
<1>4. QED
  BY <1>2, <1>3 DEF w

(* The first bin of an assembly that is complete tells the time.           *)
LEMMA FirstBinTells ==
  ASSUME NEW seen, NEW v, Sound(v, seen), v.assembling, v.receivedCount = v.total
  PROVE  v.assembly[0] = v.sequence
<1>1. /\ v.total \in Formats /\ v.received \subseteq Bins(v.total)
      /\ Cardinality(v.received) = v.total
      /\ \A bin \in v.received : v.assembly[bin] = v.sequence
  BY DEF Sound
<1>2. v.received = Bins(v.total)
  BY <1>1, BinsAreFinite, FS_Subset
<1>3. 0 \in Bins(v.total)
  <2>1. \A f \in Formats : f \in Nat \ {0}
    BY SpectralAssumption
  <2>2. v.total \in Nat \ {0}
    BY <1>1, <2>1
  <2>3. QED
    BY <2>2 DEF Bins
<1>4. QED
  BY <1>1, <1>2, <1>3

(* A complete frame goes where the youngest one belongs.                   *)
LEMMA ShownIsDated ==
  ASSUME NEW seen, NEW v, Sound(v, seen), ShowsWhole(v, seen), Dated(v),
         v.assembling, v.receivedCount = v.total
  PROVE  /\ Dated(Shown(v))
         /\ domain = "spectrum" => Shown(v).display[0] = v.sequence
<1>1. /\ v \in Views /\ v.assembly[0] = v.sequence /\ v.hasFrame
      /\ v.sequence \in Nat
  BY FirstBinTells DEF Sound, Views, FrameTimes
<1>2. CASE domain = "spectrum"
  <2> DEFINE w == Shown(v)
  <2>1. /\ w.hasFrame = v.hasFrame /\ ~w.assembling
        /\ w.sequence = v.sequence
        /\ w.displayReady /\ w.display = v.assembly
        /\ w.history = v.history /\ w.writeIndex = v.writeIndex
        /\ w.validFrames = v.validFrames
    BY <1>1, <1>2 DEF Shown, Views
  <2> HIDE DEF w
  <2>2. Dated(w)
    BY <1>1, <2>1 DEF Dated, Out, WrittenBefore
  <2>3. QED
    BY <1>1, <2>1, <2>2 DEF w
<1>3. CASE domain # "spectrum"
  <2> DEFINE w == Shown(v)
  <2>1. /\ w.hasFrame = v.hasFrame /\ ~w.assembling
        /\ w.sequence = v.sequence
        /\ w.displayReady = v.displayReady /\ w.display = v.display
        /\ w.history = [v.history EXCEPT ![v.writeIndex] = v.assembly]
        /\ w.writeIndex = (v.writeIndex + 1) % HistoryCapacity
        /\ w.validFrames = Smaller(v.validFrames + 1, HistoryCapacity)
    BY <1>1, <1>3 DEF Shown, Appended, Views
  <2>2. /\ v.writeIndex \in 0 .. HistoryCapacity - 1
        /\ v.validFrames \in 0 .. HistoryCapacity /\ HistoryCapacity \in Nat \ {0}
        /\ DOMAIN v.history = 0 .. HistoryCapacity - 1
        /\ v.validFrames = HistoryCapacity \/ v.writeIndex = v.validFrames
    BY <1>1, SpectralAssumption DEF Views, ShowsWhole
  <2>3. w.writeIndex = IF v.writeIndex = HistoryCapacity - 1 THEN 0 ELSE v.writeIndex + 1
    BY <2>1, <2>2
  <2>4. w.validFrames \in 0 .. HistoryCapacity
    BY <2>1, <2>2 DEF Smaller
  <2>5. \A c \in 0 .. w.validFrames - 1 :
          \/ c = v.writeIndex /\ w.history[c][0] = v.sequence
          \/ /\ c # v.writeIndex /\ c \in 0 .. v.validFrames - 1
             /\ w.history[c] = v.history[c]
    BY <1>1, <2>1, <2>2, <2>4 DEF Smaller
  <2> HIDE DEF w
  <2>6. \A time : Out(v, time) => Out(w, time) /\ time < v.sequence
    BY <1>1, <2>1 DEF Out
  <2>7. \A c \in 0 .. w.validFrames - 1 : Out(w, w.history[c][0])
    BY <1>1, <2>1, <2>5, <2>6 DEF Dated, Out
  <2>8. ASSUME NEW c \in 0 .. w.validFrames - 1, NEW d \in 0 .. w.validFrames - 1,
               WrittenBefore(w, c, d)
        PROVE  w.history[c][0] < w.history[d][0]
    <3>1. c \in 0 .. HistoryCapacity - 1 /\ d \in 0 .. HistoryCapacity - 1
      BY <2>2, <2>4
    <3>2. c # v.writeIndex
      BY <2>2, <2>3, <2>8, <3>1 DEF WrittenBefore
    <3>3. CASE d = v.writeIndex
      BY <2>5, <2>6, <3>2, <3>3 DEF Dated
    <3>4. CASE d # v.writeIndex
      <4>1. WrittenBefore(v, c, d)
        BY <2>2, <2>3, <2>8, <3>1, <3>2, <3>4 DEF WrittenBefore
      <4>2. QED
        BY <2>5, <3>2, <3>4, <4>1 DEF Dated
    <3>5. QED
      BY <3>3, <3>4
  <2>9. Dated(w)
    BY <2>1, <2>6, <2>7, <2>8 DEF Dated
  <2>10. QED
    BY <1>3, <2>9 DEF w
<1>4. QED
  BY <1>2, <1>3

-----------------------------------------------------------------------------
(* The steps                                                               *)

LEMMA FrameInvInit == SpectralInit => FrameInv
<1> SUFFICES ASSUME SpectralInit PROVE FrameInv
  OBVIOUS
<1>1. adder \in [playing : BOOLEAN, total : Formats, lastFrameId : FrameIds,
                inFrame : BOOLEAN, sourceBin : Nat] /\ ~adder.inFrame
  <2>1. PICK f \in Formats : adder = NewAdder(f, 0)
    BY DEF SpectralInit
  <2>2. 0 \in FrameIds
    BY SpectralAssumption DEF FrameIds
  <2>3. QED
    BY <2>1, <2>2 DEF NewAdder
<1>2. ViewInv
  BY ClearedIsSound DEF ViewInv, SpectralInit
<1>3. SpectralTypeOK
  BY <1>1, ClearedIsView, SpectralAssumption DEF SpectralTypeOK, SpectralInit, FrameIds
<1>4. QED
  BY <1>1, <1>2, <1>3 DEF FrameInv, PacketInv, AdderInv, SpectralInit

(* The stream once the bins of a packet are in                             *)
LEMMA AssembledIsSound ==
  ASSUME FrameInv, NEW p \in arriving, Serves(p)
  PROVE  /\ Sound(Assembled(p), frames) /\ ShowsWhole(Assembled(p), frames)
         /\ Assembled(p).assembling /\ Assembled(p).total = p.total
<1> DEFINE ready == IF Fits(p) THEN view ELSE Allocated(p)
           begun == IF NewFrame(ready, p) THEN Begun(ready, p) ELSE ready
<1>1. /\ p \in SpectralPackets /\ FrameOf(p) \in frames /\ ValidChunk(p)
      /\ Sound(view, frames) /\ ShowsWhole(view, frames)
  BY DEF FrameInv, SpectralTypeOK, PacketInv, ViewInv, Serves, Accepted
<1>2. /\ Sound(ready, frames) /\ ShowsWhole(ready, frames)
      /\ ready.allocated /\ ready.total = p.total
  <2>1. CASE Fits(p)
    BY <1>1, <2>1 DEF Fits
  <2>2. CASE ~Fits(p)
    BY <1>1, <2>2, AllocatedIsSound
  <2>3. QED
    BY <2>1, <2>2
<1>3. NewFrame(ready, p) \/ (ready.assembling /\ ready.sequence = p.sequence)
  <2>1. CASE Fits(p)
    BY <2>1 DEF Serves, Continued
  <2>2. CASE ~Fits(p)
    BY <1>1, <2>2, AllocatedIsSound DEF NewFrame
  <2>3. QED
    BY <2>1, <2>2
<1>4. /\ Sound(begun, frames) /\ ShowsWhole(begun, frames)
      /\ begun.assembling /\ begun.total = p.total /\ begun.sequence = p.sequence
  <2>1. CASE NewFrame(ready, p)
    BY <1>1, <1>2, <2>1, BegunIsSound
  <2>2. CASE ~NewFrame(ready, p)
    BY <1>2, <1>3, <2>2
  <2>3. QED
    BY <2>1, <2>2
<1>5. Assembled(p) = Filled(begun, p)
  BY DEF Assembled
<1>6. QED
  BY <1>1, <1>4, <1>5, FilledIsSound

(* Only the viewer changes the buffer.                                     *)
LEMMA ViewerKeeps ==
  ASSUME FrameInv, UNCHANGED <<domain, pluginVars, arriving>>,
         Sound(view', frames), ShowsWhole(view', frames), Unfinished(view')
  PROVE  FrameInv'
<1>1. view' \in Views
  BY DEF Sound
<1>2. SpectralTypeOK'
  BY <1>1 DEF FrameInv, SpectralTypeOK, pluginVars
<1>3. PacketInv' /\ AdderInv'
  BY DEF FrameInv, PacketInv, AdderInv, pluginVars
<1>4. ViewInv'
  BY DEF ViewInv, pluginVars
<1>5. QED
  BY <1>2, <1>3, <1>4 DEF FrameInv

LEMMA ReceiveKeeps ==
  ASSUME FrameInv, NEW p \in arriving, ReceiveChunk(p)
  PROVE  FrameInv'
<1> DEFINE v == Assembled(p)
<1>1. /\ Sound(v, frames) /\ ShowsWhole(v, frames) /\ v.assembling /\ v.total = p.total
  BY AssembledIsSound DEF ReceiveChunk
<1>2. CASE v.receivedCount = v.total
  BY <1>1, <1>2, ShownIsSound, ViewerKeeps DEF ReceiveChunk
<1>3. CASE v.receivedCount # v.total
  <2>1. view' = v
    BY <1>3 DEF ReceiveChunk
  <2>2. Unfinished(v)
    BY <1>3 DEF Unfinished
  <2>3. QED
    BY <1>1, <2>1, <2>2, ViewerKeeps DEF ReceiveChunk
<1>4. QED
  BY <1>2, <1>3

LEMMA RejectKeeps ==
  ASSUME FrameInv, NEW p \in arriving, RejectFormat(p) \/ RejectColumn(p)
  PROVE  FrameInv'
<1>1. p \in SpectralPackets
  BY DEF FrameInv, SpectralTypeOK
<1>2. QED
  BY <1>1, RejectedIsSound, ViewerKeeps DEF RejectFormat, RejectColumn

LEMMA ThemeKeeps ==
  ASSUME FrameInv, ChangeSpectralTheme
  PROVE  FrameInv'
BY ClearedIsSound, ViewerKeeps DEF ChangeSpectralTheme

(* An instance ends or begins between two frames.                          *)
LEMMA InstanceKeeps ==
  ASSUME FrameInv, EndInstance \/ StartInstance
  PROVE  FrameInv'
<1>1. ViewInv' /\ PacketInv'
  BY DEF FrameInv, ViewInv, PacketInv, EndInstance, StartInstance
<1>2. CASE EndInstance
  <2>1. SpectralTypeOK' /\ AdderInv'
    BY <1>2 DEF FrameInv, SpectralTypeOK, AdderInv, EndInstance
  <2>2. QED
    BY <1>1, <2>1 DEF FrameInv
<1>3. CASE StartInstance
  <2>1. PICK f \in Formats, count \in {0, framecount} :
          adder' = NewAdder(f, count) /\ framecount' = count
    BY <1>3 DEF StartInstance
  <2>2. 0 \in FrameIds /\ count \in FrameIds
    BY SpectralAssumption DEF FrameInv, SpectralTypeOK, FrameIds
  <2>3. SpectralTypeOK'
    BY <1>3, <2>1, <2>2 DEF FrameInv, SpectralTypeOK, StartInstance, NewAdder
  <2>4. count <= now
    BY DEF FrameInv, SpectralTypeOK, AdderInv
  <2>5. AdderInv'
    BY <1>3, <2>1, <2>4 DEF AdderInv, StartInstance, NewAdder
  <2>6. QED
    BY <1>1, <2>3, <2>5 DEF FrameInv
<1>4. QED
  BY <1>2, <1>3

(* watch_add_f sees a frame: it is one more of those that may be shown.    *)
LEMMA AddKeeps ==
  ASSUME FrameInv, AddFrame
  PROVE  FrameInv'
<1>1. /\ now \in 0 .. MaxFrameTime /\ MaxFrameTime \in Nat
      /\ framecount \in Nat /\ framecount <= now
  BY SpectralAssumption DEF FrameInv, SpectralTypeOK, AdderInv, FrameIds
<1>2. /\ now' \in FrameTimes /\ now' \in 0 .. MaxFrameTime
      /\ framecount' \in FrameIds /\ framecount' <= now'
  BY <1>1 DEF AddFrame, FrameTimes, FrameIds
<1>3. CASE framecount' = adder.lastFrameId
  BY <1>2, <1>3
     DEF AddFrame, FrameInv, SpectralTypeOK, PacketInv, AdderInv, ViewInv
<1>4. CASE framecount' # adder.lastFrameId
  <2> DEFINE frame == [sequence |-> now', frameId |-> framecount', total |-> adder.total]
  <2>1. /\ adder' = [adder EXCEPT !.inFrame = TRUE, !.sourceBin = 0]
        /\ frames' = frames \cup {frame}
        /\ UNCHANGED <<domain, queued, dropped, arriving, view>>
    BY <1>4 DEF AddFrame
  <2>2. adder \in [playing : BOOLEAN, total : Formats, lastFrameId : FrameIds,
                  inFrame : BOOLEAN, sourceBin : Nat]
    BY DEF FrameInv, SpectralTypeOK
  <2>3. frame \in Frames
    BY <1>2, <2>2 DEF Frames
  <2>4. SpectralTypeOK'
    BY <1>2, <2>1, <2>2, <2>3 DEF FrameInv, SpectralTypeOK
  <2>5. adder.total > 0
    <3>1. \A f \in Formats : f > 0
      BY SpectralAssumption
    <3>2. adder.total \in Formats
      BY <2>2
    <3>3. QED
      BY <3>1, <3>2
  <2>6. AdderInv'
    BY <1>2, <2>1, <2>2, <2>5 DEF AdderInv
  <2>7. PacketInv'
    BY <2>1 DEF FrameInv, PacketInv
  <2>8. ViewInv'
    BY <2>1, MoreFrames DEF FrameInv, ViewInv
  <2>9. QED
    BY <2>4, <2>6, <2>7, <2>8 DEF FrameInv
<1>5. QED
  BY <1>3, <1>4

(* Nothing but the ring and the loop over the chunks changes.              *)
LEMMA ChunkIsOfFrame ==
  ASSUME FrameInv, adder.inFrame
  PROVE  /\ ChunkPacket \in SpectralPackets /\ FrameOf(ChunkPacket) \in frames
         /\ Chunk \in Nat \ {0} /\ Chunk <= Remaining /\ Remaining \in Nat
<1>1. /\ adder.total \in Formats /\ adder.total \in Nat /\ adder.sourceBin \in Nat
      /\ adder.sourceBin < adder.total /\ framecount \in FrameIds
      /\ [sequence |-> now, frameId |-> framecount, total |-> adder.total] \in frames
  BY SpectralAssumption DEF FrameInv, SpectralTypeOK, AdderInv
<1>2. now \in FrameTimes
  BY <1>1 DEF FrameInv, SpectralTypeOK, Frames
<1>3. Remaining \in Nat \ {0}
  BY <1>1 DEF Remaining
<1>4. Chunk \in Nat \ {0} /\ Chunk <= Remaining
  BY <1>3, SpectralAssumption DEF Chunk, Smaller
<1>5. ChunkPacket \in SpectralPackets
  BY <1>1, <1>2, <1>4 DEF ChunkPacket, SpectralPackets
<1>6. FrameOf(ChunkPacket) \in frames
  BY <1>1 DEF ChunkPacket, FrameOf
<1>7. QED
  BY <1>3, <1>4, <1>5, <1>6

LEMMA PublishKeeps ==
  ASSUME FrameInv, PublishChunk
  PROVE  FrameInv'
<1>1. /\ ChunkPacket \in SpectralPackets /\ FrameOf(ChunkPacket) \in frames
      /\ Chunk \in Nat \ {0} /\ Chunk <= Remaining /\ Remaining \in Nat
  BY ChunkIsOfFrame DEF PublishChunk
<1>2. /\ queued \in Seq(SpectralPackets) /\ Len(queued) < QueueSize - 1
      /\ queued' = Append(queued, ChunkPacket)
  BY DEF PublishChunk, Room, FrameInv, SpectralTypeOK
<1>3. /\ queued' \in Seq(SpectralPackets) /\ Len(queued') < QueueSize
  BY <1>1, <1>2, SpectralAssumption
<1>4. \A i \in 1 .. Len(queued') : FrameOf(queued'[i]) \in frames
  BY <1>1, <1>2 DEF FrameInv, PacketInv
<1>5. /\ adder \in [playing : BOOLEAN, total : Formats, lastFrameId : FrameIds,
                   inFrame : BOOLEAN, sourceBin : Nat]
      /\ framecount \in FrameIds /\ adder.inFrame /\ adder.total \in Nat
  BY SpectralAssumption DEF FrameInv, SpectralTypeOK, PublishChunk
<1>6. /\ adder' \in [playing : BOOLEAN, total : Formats, lastFrameId : FrameIds,
                    inFrame : BOOLEAN, sourceBin : Nat]
      /\ adder'.total = adder.total
      /\ adder'.inFrame => adder'.sourceBin < adder'.total
  <2>1. CASE Chunk = Remaining
    BY <1>5, <2>1 DEF PublishChunk
  <2>2. CASE Chunk # Remaining
    <3>1. adder' = [adder EXCEPT !.sourceBin = adder.sourceBin + Chunk]
      BY <1>5, <2>2 DEF PublishChunk
    <3>2. adder.sourceBin + Chunk < adder.total /\ adder.sourceBin + Chunk \in Nat
      BY <1>1, <1>5, <2>2 DEF Remaining
    <3>3. QED
      BY <1>5, <3>1, <3>2
  <2>3. QED
    BY <2>1, <2>2
<1>7. SpectralTypeOK'
  BY <1>3, <1>6 DEF FrameInv, SpectralTypeOK, PublishChunk
<1>8. PacketInv'
  BY <1>4 DEF FrameInv, PacketInv, PublishChunk
<1>9. AdderInv'
  BY <1>5, <1>6 DEF FrameInv, AdderInv, PublishChunk
<1>10. ViewInv'
  BY DEF FrameInv, ViewInv, PublishChunk
<1>11. QED
  BY <1>7, <1>8, <1>9, <1>10 DEF FrameInv

LEMMA DropKeeps ==
  ASSUME FrameInv, DropFrameRest
  PROVE  FrameInv'
<1>1. Remaining \in Nat /\ framecount \in FrameIds
  BY ChunkIsOfFrame DEF DropFrameRest, FrameInv, SpectralTypeOK
<1>2. SpectralTypeOK'
  <2>1. dropped' \in Nat
    BY <1>1 DEF FrameInv, SpectralTypeOK, DropFrameRest
  <2>2. adder' \in [playing : BOOLEAN, total : Formats, lastFrameId : FrameIds,
                   inFrame : BOOLEAN, sourceBin : Nat]
    BY <1>1 DEF FrameInv, SpectralTypeOK, DropFrameRest
  <2>3. QED
    BY <2>1, <2>2 DEF FrameInv, SpectralTypeOK, DropFrameRest
<1>3. AdderInv'
  BY DEF FrameInv, SpectralTypeOK, AdderInv, DropFrameRest
<1>4. PacketInv' /\ ViewInv'
  BY DEF FrameInv, PacketInv, ViewInv, DropFrameRest
<1>5. QED
  BY <1>2, <1>3, <1>4 DEF FrameInv

LEMMA SendKeeps ==
  ASSUME FrameInv, SendChunk
  PROVE  FrameInv'
<1>1. /\ queued \in Seq(SpectralPackets) /\ queued # <<>> /\ queued' = Tail(queued)
      /\ arriving' = arriving \cup {Head(queued)} /\ Len(queued) < QueueSize
      /\ arriving \subseteq SpectralPackets
  BY DEF SendChunk, FrameInv, SpectralTypeOK
<1>2. /\ Head(queued) = queued[1] /\ 1 \in 1 .. Len(queued)
      /\ Head(queued) \in SpectralPackets
      /\ queued' \in Seq(SpectralPackets) /\ Len(queued') < QueueSize
      /\ \A i \in 1 .. Len(queued') : /\ i + 1 \in 1 .. Len(queued)
                                     /\ queued'[i] = queued[i + 1]
  BY <1>1, SpectralAssumption
<1>3. SpectralTypeOK'
  BY <1>1, <1>2 DEF FrameInv, SpectralTypeOK, SendChunk
<1>4. PacketInv'
  BY <1>1, <1>2 DEF FrameInv, PacketInv, SendChunk
<1>5. AdderInv' /\ ViewInv'
  BY DEF FrameInv, AdderInv, ViewInv, SendChunk
<1>6. QED
  BY <1>3, <1>4, <1>5 DEF FrameInv

(* The stream once the bins of a packet are in: a spectrum on display is   *)
(* the one that was.                                                       *)
LEMMA AssembledIsDated ==
  ASSUME FrameInv, Dated(view), NEW p \in arriving, Serves(p)
  PROVE  /\ Dated(Assembled(p)) /\ Assembled(p).sequence = p.sequence
         /\ Assembled(p).displayReady
              => view.displayReady /\ Assembled(p).display = view.display
<1> DEFINE ready == IF Fits(p) THEN view ELSE Allocated(p)
           begun == IF NewFrame(ready, p) THEN Begun(ready, p) ELSE ready
<1>1. /\ p \in SpectralPackets /\ FrameOf(p) \in frames
      /\ Sound(view, frames) /\ ShowsWhole(view, frames) /\ view \in Views
  BY DEF FrameInv, SpectralTypeOK, PacketInv, ViewInv
<1>2. /\ Sound(ready, frames) /\ ShowsWhole(ready, frames) /\ Dated(ready)
      /\ ready.allocated /\ ready.total = p.total /\ ready \in Views
      /\ ready.displayReady => view.displayReady /\ ready.display = view.display
  <2>1. CASE Fits(p)
    BY <1>1, <2>1 DEF Fits
  <2>2. CASE ~Fits(p)
    <3>1. ~Allocated(p).displayReady
      BY DEF Allocated, ClearedView
    <3>2. QED
      BY <1>1, <2>2, <3>1, AllocatedIsSound, ClearedIsDated DEF Sound
  <2>3. QED
    BY <2>1, <2>2
<1>3. NewFrame(ready, p) \/ ready.sequence = p.sequence
  <2>1. CASE Fits(p)
    BY <2>1 DEF Serves, Continued
  <2>2. CASE ~Fits(p)
    BY <1>1, <2>2, AllocatedIsSound DEF NewFrame
  <2>3. QED
    BY <2>1, <2>2
<1>4. /\ Sound(begun, frames) /\ Dated(begun) /\ begun.sequence = p.sequence
      /\ begun.display = ready.display /\ begun.displayReady = ready.displayReady
  <2>1. CASE NewFrame(ready, p)
    <3>1. /\ Begun(ready, p).display = ready.display
          /\ Begun(ready, p).displayReady = ready.displayReady
      BY <1>2 DEF Begun, Views
    <3>2. QED
      BY <1>1, <1>2, <2>1, <3>1, BegunIsSound, BegunIsDated
  <2>2. CASE ~NewFrame(ready, p)
    BY <1>2, <1>3, <2>2
  <2>3. QED
    BY <2>1, <2>2
<1>5. Assembled(p) = Filled(begun, p)
  BY DEF Assembled
<1> HIDE DEF ready, begun
<1>6. QED
  BY <1>1, <1>2, <1>4, <1>5, FilledIsDated

(* A packet that completes a spectrum puts its own frame on display.       *)
LEMMA ReceiveKeepsDates ==
  ASSUME FrameInv, Dated(view), NEW p \in arriving, ReceiveChunk(p)
  PROVE  /\ Dated(view')
         /\ view'.displayReady /\ view.displayReady
              => \/ view'.display = view.display
                 \/ view'.display[0] = p.sequence
<1> DEFINE v == Assembled(p)
<1>1. /\ Sound(v, frames) /\ ShowsWhole(v, frames) /\ v.assembling /\ v.total = p.total
      /\ Dated(v) /\ v.sequence = p.sequence /\ v \in Views
      /\ v.displayReady => v.display = view.display
  BY AssembledIsSound, AssembledIsDated DEF ReceiveChunk, Sound
<1>2. view' = IF v.receivedCount = v.total THEN Shown(v) ELSE v
  BY DEF ReceiveChunk
<1> HIDE DEF v
<1>3. CASE v.receivedCount = v.total
  <2>1. Dated(Shown(v)) /\ (domain = "spectrum" => Shown(v).display[0] = v.sequence)
    BY <1>1, <1>3, ShownIsDated
  <2>2. CASE domain = "spectrum"
    BY <1>1, <1>2, <1>3, <2>1, <2>2
  <2>3. CASE domain # "spectrum"
    <3>1. Shown(v).display = v.display /\ Shown(v).displayReady = v.displayReady
      BY <1>1, <2>3 DEF Shown, Appended, Views
    <3>2. QED
      BY <1>1, <1>2, <1>3, <2>1, <3>1
  <2>4. QED
    BY <2>2, <2>3
<1>4. CASE v.receivedCount # v.total
  BY <1>1, <1>2, <1>4
<1>5. QED
  BY <1>3, <1>4

(* A step dates what is shown as the step before did, and a spectrum gives *)
(* way to a younger one only.                                              *)
LEMMA StepKeepsDates ==
  ASSUME FrameInv, Dated(view), [SpectralNext]_spectralVars
  PROVE  /\ Dated(view')
         /\ view.displayReady /\ view'.displayReady
              => view.display[0] <= view'.display[0]
<1>1. view.displayReady => view.display[0] \in Nat
  BY DEF Dated, Out
<1>2. CASE view' = view
  BY <1>1, <1>2
<1>3. CASE \E p \in arriving : ReceiveChunk(p)
  <2>1. PICK p \in arriving : ReceiveChunk(p)
    BY <1>3
  <2>2. p.sequence \in Nat
    BY DEF FrameInv, SpectralTypeOK, SpectralPackets, FrameTimes
  <2>3. view.displayReady => view.display[0] <= p.sequence
    <3>1. ~Late(p) /\ view.sequence \in Nat
      BY <2>1 DEF ReceiveChunk, Serves, Accepted, FrameInv, SpectralTypeOK, Views, FrameTimes
    <3>2. QED
      BY <2>2, <3>1 DEF Late, Dated, Out
  <2>4. QED
    BY <1>1, <2>1, <2>3, ReceiveKeepsDates
<1>4. CASE \E p \in arriving : RejectFormat(p) \/ RejectColumn(p)
  <2>1. PICK p \in arriving : view' = RejectedFor(p)
    BY <1>4 DEF RejectFormat, RejectColumn
  <2>2. ~view'.displayReady
    BY <2>1 DEF RejectedFor, ClearedView
  <2>3. QED
    BY <2>1, <2>2, ClearedIsDated
<1>5. CASE ChangeSpectralTheme
  <2>1. view' = ClearedView /\ ~view'.displayReady
    BY <1>5 DEF ChangeSpectralTheme, ClearedView
  <2>2. QED
    BY <2>1, ClearedIsDated
<1>6. QED
  BY <1>2, <1>3, <1>4, <1>5
     DEF SpectralNext, spectralVars, EndInstance, StartInstance, AddFrame, PublishChunk,
         DropFrameRest, SendChunk

-----------------------------------------------------------------------------
(* The theorems                                                            *)

(* The types, what is in transit, where the sender's loop stands and what  *)
(* the viewer holds of the frame at hand, together, are kept by every step *)
(* of watch_add_f, the sender thread and process_spectral_packet.          *)
THEOREM FrameInvariance == SpectralSpec => []FrameInv
<1>1. SpectralInit => FrameInv
  BY FrameInvInit
<1>2. FrameInv /\ [SpectralNext]_spectralVars => FrameInv'
  <2> SUFFICES ASSUME FrameInv, [SpectralNext]_spectralVars PROVE FrameInv'
    OBVIOUS
  <2>1. CASE EndInstance \/ StartInstance
    BY <2>1, InstanceKeeps
  <2>2. CASE AddFrame
    BY <2>2, AddKeeps
  <2>3. CASE PublishChunk
    BY <2>3, PublishKeeps
  <2>4. CASE DropFrameRest
    BY <2>4, DropKeeps
  <2>5. CASE SendChunk
    BY <2>5, SendKeeps
  <2>6. CASE \E p \in arriving : ReceiveChunk(p) \/ RejectFormat(p) \/ RejectColumn(p)
    <3>1. PICK p \in arriving : ReceiveChunk(p) \/ RejectFormat(p) \/ RejectColumn(p)
      BY <2>6
    <3>2. QED
      BY <3>1, ReceiveKeeps, RejectKeeps
  <2>7. CASE ChangeSpectralTheme
    BY <2>7, ThemeKeeps
  <2>8. CASE UNCHANGED spectralVars
    BY <2>8 DEF spectralVars, pluginVars, FrameInv, SpectralTypeOK, PacketInv,
                AdderInv, ViewInv
  <2>9. QED
    BY <2>1, <2>2, <2>3, <2>4, <2>5, <2>6, <2>7, <2>8 DEF SpectralNext
<1>3. QED
  BY <1>1, <1>2, PTL DEF SpectralSpec

(* Packets, ring, frames and the buffers of the viewer have their types in *)
(* every reachable state.                                                  *)
THEOREM SpectralTypeCorrect == SpectralSpec => []SpectralTypeOK
<1>1. FrameInv => SpectralTypeOK
  BY DEF FrameInv
<1>2. QED
  BY <1>1, FrameInvariance, PTL

(* Every spectrum and every column drawn is one frame, whole: no loss,     *)
(* repetition, delay or change of format mixes the bins of two frames.     *)
THEOREM OnlyWholeFramesShown == SpectralSpec => []ShownFrameIsWhole
<1>1. FrameInv => ShownFrameIsWhole
  <2> SUFFICES ASSUME FrameInv PROVE ShownFrameIsWhole
    OBVIOUS
  <2>1. /\ WholeFrames = ImagesOf(frames) /\ ShowsWhole(view, frames)
        /\ HistoryCapacity \in Nat \ {0} /\ view.validFrames \in 0 .. HistoryCapacity
        /\ view.writeIndex \in 0 .. HistoryCapacity - 1
    BY SpectralAssumption DEF FrameInv, ViewInv, SpectralTypeOK, Views, WholeFrames, ImagesOf
  <2>2. \A i \in DOMAIN DrawnHistory : DrawnHistory[i] \in WholeFrames
    <3>1. CASE view.validFrames < HistoryCapacity
      BY <2>1, <3>1 DEF DrawnHistory, ShowsWhole
    <3>2. CASE ~(view.validFrames < HistoryCapacity)
      <4>1. view.validFrames = HistoryCapacity
        BY <2>1, <3>2
      <4>2. \A i \in 1 .. HistoryCapacity :
              (view.writeIndex + i - 1) % HistoryCapacity \in 0 .. HistoryCapacity - 1
        BY <2>1
      <4>3. QED
        BY <2>1, <3>2, <4>1, <4>2 DEF DrawnHistory, ShowsWhole
    <3>3. QED
      BY <3>1, <3>2
  <2>3. QED
    BY <2>1, <2>2 DEF ShownFrameIsWhole, ShowsWhole
<1>2. QED
  BY <1>1, FrameInvariance, PTL

(* A frame is shown with its last bin: what is being assembled is never    *)
(* complete, and the counter counts every bin that came, once.             *)
THEOREM NoCompleteFrameWaits == SpectralSpec => []CompleteFrameIsShown
<1>1. FrameInv => CompleteFrameIsShown
  <2> SUFFICES ASSUME FrameInv, view.assembling
               PROVE  /\ view.received # Bins(view.total)
                      /\ view.receivedCount = Cardinality(view.received)
    BY DEF CompleteFrameIsShown
  <2>1. /\ view.total \in Formats /\ view.receivedCount # view.total
        /\ view.receivedCount = Cardinality(view.received)
    BY DEF FrameInv, ViewInv, Sound, Unfinished
  <2>2. QED
    BY <2>1, BinsAreFinite
<1>2. QED
  BY <1>1, FrameInvariance, PTL
(* What is shown stays dated: nothing shown is younger than the frame at   *)
(* hand, and the columns are in the order the ring is read.                *)
THEOREM DatedInvariance == SpectralSpec => [](FrameInv /\ Dated(view))
<1>1. SpectralInit => Dated(view)
  BY ClearedIsDated DEF SpectralInit
<1>2. FrameInv /\ Dated(view) /\ [SpectralNext]_spectralVars => Dated(view)'
  BY StepKeepsDates
<1>3. QED
  BY <1>1, <1>2, FrameInvariance, PTL DEF SpectralSpec

(* A spectrogram is drawn oldest column first, no frame twice, for every   *)
(* length of the history and however often the write position wrapped.     *)
THEOREM HistoryStaysInOrder == SpectralSpec => []HistoryInOrder
<1>1. FrameInv /\ Dated(view) => HistoryInOrder
  <2> SUFFICES ASSUME FrameInv, Dated(view),
                      NEW i \in DOMAIN DrawnHistory, NEW j \in DOMAIN DrawnHistory, i < j
               PROVE  DrawnHistory[i][0] < DrawnHistory[j][0]
    BY DEF HistoryInOrder
  <2>1. /\ HistoryCapacity \in Nat \ {0} /\ view.validFrames \in 0 .. HistoryCapacity
        /\ view.writeIndex \in 0 .. HistoryCapacity - 1
        /\ view.validFrames = HistoryCapacity \/ view.writeIndex = view.validFrames
    BY SpectralAssumption DEF FrameInv, ViewInv, SpectralTypeOK, Views, ShowsWhole
  <2>2. CASE view.validFrames < HistoryCapacity
    <3>1. /\ i \in 1 .. view.validFrames /\ j \in 1 .. view.validFrames
          /\ DrawnHistory[i] = view.history[i - 1] /\ DrawnHistory[j] = view.history[j - 1]
      BY <2>2 DEF DrawnHistory
    <3>2. WrittenBefore(view, i - 1, j - 1)
      BY <2>1, <2>2, <3>1 DEF WrittenBefore
    <3>3. QED
      BY <2>1, <3>1, <3>2 DEF Dated
  <2>3. CASE ~(view.validFrames < HistoryCapacity)
    <3> DEFINE Place(k) == (view.writeIndex + k - 1) % HistoryCapacity
    <3>1. /\ i \in 1 .. HistoryCapacity /\ j \in 1 .. HistoryCapacity
          /\ DrawnHistory[i] = view.history[Place(i)]
          /\ DrawnHistory[j] = view.history[Place(j)]
      BY <2>3 DEF DrawnHistory
    <3>2. \A k \in 1 .. HistoryCapacity :
            Place(k) = IF view.writeIndex + k - 1 < HistoryCapacity
                       THEN view.writeIndex + k - 1
                       ELSE view.writeIndex + k - 1 - HistoryCapacity
      <4> SUFFICES ASSUME NEW k \in 1 .. HistoryCapacity
                   PROVE  Place(k) = IF view.writeIndex + k - 1 < HistoryCapacity
                                     THEN view.writeIndex + k - 1
                                     ELSE view.writeIndex + k - 1 - HistoryCapacity
        OBVIOUS
      <4> DEFINE ahead == view.writeIndex + k - 1
      <4>1. ahead \in 0 .. 2 * HistoryCapacity - 1
        BY <2>1
      <4> HIDE DEF ahead
      <4>2. ahead % HistoryCapacity
              = IF ahead < HistoryCapacity THEN ahead ELSE ahead - HistoryCapacity
        BY <2>1, <4>1, RoundTrip
      <4>3. QED
        BY <2>1, <4>2 DEF Place, ahead
    <3> HIDE DEF Place
    <3>3. WrittenBefore(view, Place(i), Place(j))
      BY <2>1, <3>1, <3>2 DEF WrittenBefore
    <3>4. /\ Place(i) \in 0 .. view.validFrames - 1
          /\ Place(j) \in 0 .. view.validFrames - 1
      BY <2>1, <2>3, <3>1, <3>2
    <3>5. QED
      BY <3>1, <3>3, <3>4 DEF Dated
  <2>4. QED
    BY <2>2, <2>3
<1>2. QED
  BY <1>1, DatedInvariance, PTL

(* A spectrum on display gives way to a younger one only, whatever is late *)
(* and whichever format it has.                                            *)
THEOREM SpectrumOnlyYounger == SpectralSpec => SpectrumNeverOlder
<1>1. FrameInv /\ Dated(view) /\ [SpectralNext]_spectralVars
        => [view.displayReady /\ view'.displayReady
              => view.display[0] <= view'.display[0]]_spectralVars
  BY StepKeepsDates
<1>2. QED
  BY <1>1, DatedInvariance, PTL DEF SpectralSpec, SpectrumNeverOlder

-----------------------------------------------------------------------------
(* Sums over finite sets                                                   *)

LEMMA LeastNumber ==
  ASSUME NEW T \in SUBSET Nat, T # {}
  PROVE  \E x \in T : \A y \in T : x <= y
<1> DEFINE Less == {r \in Nat \X Nat : r[1] < r[2]}
<1>1. IsWellFoundedOn(Less, Nat)
  BY NatLessThanWellFounded DEF OpToRel
<1>2. \E x \in T : \A y \in T : <<y, x>> \notin Less
  <2> HIDE DEF Less
  <2>1. QED
    BY <1>1, WFMin
<1>3. PICK x \in T : \A y \in T : <<y, x>> \notin Less
  BY <1>2
<1>4. ASSUME NEW y \in T PROVE x <= y
  <2>1. x \in Nat /\ y \in Nat
    OBVIOUS
  <2>2. ~(y < x)
    BY <1>3, <2>1
  <2>3. QED
    BY <2>1, <2>2
<1>5. QED
  BY <1>4

(* Among sets of subsets of a finite set one has no element to lose.       *)
LEMMA SmallestExists ==
  ASSUME NEW U, IsFiniteSet(U), NEW B \in SUBSET (SUBSET U), B # {}
  PROVE  \E s \in B : \A x \in s : s \ {x} \notin B
<1> DEFINE Sizes == {Cardinality(s) : s \in B}
<1>1. \A s \in SUBSET U : IsFiniteSet(s) /\ Cardinality(s) \in Nat
  BY FS_Subset, FS_CardinalityType
<1>2. Sizes \in SUBSET Nat /\ Sizes # {}
  BY <1>1
<1>3. PICK n \in Sizes : \A m \in Sizes : n <= m
  BY <1>2, LeastNumber
<1>4. PICK s \in B : Cardinality(s) = n
  BY <1>3
<1>5. ASSUME NEW x \in s, s \ {x} \in B
      PROVE  FALSE
  <2>1. Cardinality(s \ {x}) = Cardinality(s) - 1
    BY <1>1, FS_RemoveElement
  <2>2. Cardinality(s) <= Cardinality(s \ {x})
    BY <1>3, <1>4, <1>5
  <2>3. QED
    BY <1>1, <2>1, <2>2
<1>6. QED
  BY <1>5

(* The element that MapThenSumSet takes next                               *)
Taken(s) == CHOOSE x \in s : TRUE

(* The sums of the weights over the subsets of U, as the fold makes them   *)
Sums(h, w, U) ==
  h = [s \in SUBSET U |-> IF s = {} THEN 0 ELSE w[Taken(s)] + h[s \ {Taken(s)}]]

(* The element that is taken is one of them.                               *)
LEMMA TakenIs == ASSUME NEW s, s # {} PROVE Taken(s) \in s
BY Zenon DEF Taken

(* What the sums are, one step of the fold.                                *)
LEMMA SumOf ==
  ASSUME NEW h, NEW w, NEW U, Sums(h, w, U)
  PROVE  /\ h[{}] = 0
         /\ \A s \in SUBSET U : s # {} => h[s] = w[Taken(s)] + h[s \ {Taken(s)}]
<1> DEFINE F == [s \in SUBSET U |-> IF s = {} THEN 0 ELSE w[Taken(s)] + h[s \ {Taken(s)}]]
<1>1. h = F
  BY Zenon DEF Sums
<1>2. \A s \in SUBSET U : F[s] = IF s = {} THEN 0 ELSE w[Taken(s)] + h[s \ {Taken(s)}]
  OBVIOUS
<1> HIDE DEF F
<1>3. {} \in SUBSET U
  OBVIOUS
<1>4. QED
  BY <1>1, <1>2, <1>3

(* The fold is defined: one number of elements after the other.            *)
LEMMA SumsExist ==
  ASSUME NEW T, NEW w \in [T -> Nat], NEW U \in SUBSET T, IsFiniteSet(U)
  PROVE  \E h : Sums(h, w, U)
<1> DEFINE Upto(n) == {s \in SUBSET U : Cardinality(s) <= n}
           Next(h, s) == IF s = {} THEN 0 ELSE w[Taken(s)] + h[s \ {Taken(s)}]
           Good(n) == \E h : h = [s \in Upto(n) |-> Next(h, s)]
           Bad == {n \in Nat : ~Good(n)}
<1>1. \A s \in SUBSET U : IsFiniteSet(s) /\ Cardinality(s) \in Nat
  BY FS_Subset, FS_CardinalityType
<1>2. Good(0)
  <2> DEFINE h == [s \in Upto(0) |-> 0]
  <2>1. \A s \in Upto(0) : s = {}
    <3>1. ASSUME NEW s \in Upto(0) PROVE s = {}
      <4>1. IsFiniteSet(s) /\ Cardinality(s) = 0
        BY <1>1
      <4>2. QED
        BY <4>1, FS_EmptySet
    <3>2. QED
      BY <3>1
  <2>2. \A s \in Upto(0) : Next(h, s) = 0
    BY <2>1
  <2>3. h = [s \in Upto(0) |-> Next(h, s)]
    <3> HIDE DEF Next, Upto
    <3>1. QED
      BY <2>2
  <2>4. QED
    BY <2>3
<1>3. ASSUME NEW n \in Nat, Good(n)
      PROVE  Good(n + 1)
  <2>1. PICK h : h = [s \in Upto(n) |-> Next(h, s)]
    BY <1>3
  <2> DEFINE g == [s \in Upto(n + 1) |-> Next(h, s)]
  <2>2. Upto(n) \subseteq Upto(n + 1)
    BY <1>1
  <2>3. \A s \in Upto(n) : h[s] = Next(h, s)
    <3> HIDE DEF Upto
    <3> DEFINE F == [s \in Upto(n) |-> Next(h, s)]
    <3>1. \A s \in Upto(n) : F[s] = Next(h, s)
      OBVIOUS
    <3>2. h = F
      BY <2>1
    <3> HIDE DEF F, Next
    <3>3. QED
      BY <3>1, <3>2
  <2>4. \A s \in Upto(n + 1) : g[s] = Next(h, s)
    <3> HIDE DEF Upto, Next
    <3>1. QED
      OBVIOUS
  <2> HIDE DEF g
  <2>5. \A s \in Upto(n) : g[s] = h[s]
    <3> HIDE DEF Upto, Next
    <3>1. QED
      BY <2>2, <2>3, <2>4
  <2>6. ASSUME NEW s \in Upto(n + 1)
        PROVE  Next(h, s) = Next(g, s)
    <3>1. CASE s = {}
      BY <3>1
    <3>2. CASE s # {}
      <4>1. Taken(s) \in s /\ s \in SUBSET U /\ Cardinality(s) <= n + 1
        BY <3>2, TakenIs
      <4>2. Cardinality(s \ {Taken(s)}) = Cardinality(s) - 1
        BY <1>1, <4>1, FS_RemoveElement
      <4>3. s \ {Taken(s)} \in Upto(n)
        BY <1>1, <4>1, <4>2
      <4>4. QED
        BY <2>5, <3>2, <4>3
    <3>3. QED
      BY <3>1, <3>2
  <2>7. g = [s \in Upto(n + 1) |-> Next(g, s)]
    <3>1. g = [s \in Upto(n + 1) |-> Next(h, s)]
      BY DEF g
    <3> HIDE DEF Upto, Next
    <3>2. QED
      BY <2>6, <3>1
  <2>8. QED
    BY <2>7
<1>4. Bad = {}
  <2> SUFFICES ASSUME Bad # {} PROVE FALSE
    OBVIOUS
  <2> HIDE DEF Good
  <2>1. Bad \in SUBSET Nat
    OBVIOUS
  <2>2. PICK n \in Bad : \A m \in Bad : n <= m
    BY <2>1, LeastNumber
  <2>3. n \in Nat /\ ~Good(n)
    OBVIOUS
  <2>4. n # 0
    BY <1>2, <2>3
  <2>5. n - 1 \in Nat /\ n = (n - 1) + 1
    BY <2>3, <2>4
  <2>6. ~Good(n - 1)
    BY <1>3, <2>3, <2>5
  <2>7. QED
    BY <2>2, <2>3, <2>5, <2>6
<1>5. Good(Cardinality(U))
  <2> HIDE DEF Good
  <2>1. QED
    BY <1>1, <1>4
<1>6. SUBSET U = Upto(Cardinality(U))
  BY FS_Subset
<1>7. PICK h : h = [s \in Upto(Cardinality(U)) |-> Next(h, s)]
  BY <1>5
<1>8. h = [s \in SUBSET U |-> Next(h, s)]
  <2> HIDE DEF Upto, Next
  <2>1. QED
    BY <1>6, <1>7
<1>9. QED
  BY <1>8, Zenon DEF Sums

(* The sum of natural weights is a natural number.                         *)
LEMMA SumsAreNat ==
  ASSUME NEW T, NEW w \in [T -> Nat], NEW U \in SUBSET T, IsFiniteSet(U), NEW h, Sums(h, w, U)
  PROVE  \A s \in SUBSET U : h[s] \in Nat
<1> DEFINE Bad == {s \in SUBSET U : h[s] \notin Nat}
<1> SUFFICES ASSUME Bad # {} PROVE FALSE
  OBVIOUS
<1>1. PICK s \in Bad : \A x \in s : s \ {x} \notin Bad
  BY SmallestExists
<1>2. s # {} /\ s \in SUBSET U /\ h[s] \notin Nat
  <2>1. h[{}] = 0
    BY SumOf
  <2>2. QED
    BY <2>1
<1>3. Taken(s) \in s /\ h[s] = w[Taken(s)] + h[s \ {Taken(s)}]
  BY <1>2, TakenIs, SumOf
<1>4. h[s \ {Taken(s)}] \in Nat /\ w[Taken(s)] \in Nat
  BY <1>1, <1>2, <1>3
<1>5. QED
  BY <1>2, <1>3, <1>4

(* It does not matter which element is taken first.                        *)
LEMMA SumOfAny ==
  ASSUME NEW T, NEW w \in [T -> Nat], NEW U \in SUBSET T, IsFiniteSet(U), NEW h, Sums(h, w, U)
  PROVE  \A s \in SUBSET U : \A x \in s : h[s] = w[x] + h[s \ {x}]
<1> DEFINE Bad == {s \in SUBSET U : \E x \in s : h[s] # w[x] + h[s \ {x}]}
<1> SUFFICES ASSUME Bad # {} PROVE FALSE
  OBVIOUS
<1>1. PICK s \in Bad : \A x \in s : s \ {x} \notin Bad
  BY SmallestExists
<1>2. PICK x \in s : h[s] # w[x] + h[s \ {x}]
  OBVIOUS
<1> DEFINE y == Taken(s)
<1>3. s \in SUBSET U /\ y \in s /\ h[s] = w[y] + h[s \ {y}]
  BY <1>2, TakenIs, SumOf
<1> HIDE DEF y
<1>4. x # y
  BY <1>2, <1>3
<1>5. /\ h[s \ {y}] = w[x] + h[(s \ {y}) \ {x}]
      /\ h[s \ {x}] = w[y] + h[(s \ {x}) \ {y}]
  <2>1. s \ {y} \notin Bad /\ s \ {x} \notin Bad
    BY <1>1, <1>3
  <2>2. s \ {y} \in SUBSET U /\ s \ {x} \in SUBSET U /\ x \in s \ {y} /\ y \in s \ {x}
    BY <1>3, <1>4
  <2>3. QED
    BY <2>1, <2>2
<1>6. (s \ {y}) \ {x} = (s \ {x}) \ {y}
  OBVIOUS
<1>7. h[(s \ {x}) \ {y}] \in Nat /\ w[x] \in Nat /\ w[y] \in Nat
  BY <1>3, SumsAreNat
<1> DEFINE rest == h[(s \ {x}) \ {y}]
<1>8. h[s] = w[y] + (w[x] + rest) /\ h[s \ {x}] = w[y] + rest
  BY <1>3, <1>5, <1>6
<1>9. h[s] = w[x] + h[s \ {x}]
  <2>1. rest \in Nat /\ w[x] \in Nat /\ w[y] \in Nat
    BY <1>7
  <2> HIDE DEF rest
  <2>2. w[y] + (w[x] + rest) = w[x] + (w[y] + rest)
    BY <2>1
  <2>3. QED
    BY <1>8, <2>2
<1>10. QED
  BY <1>2, <1>9

(* Nor of which set the subsets are.                                       *)
LEMMA SumsAgree ==
  ASSUME NEW T, NEW w \in [T -> Nat], NEW U \in SUBSET T, IsFiniteSet(U), NEW V \in SUBSET T,
         NEW h, Sums(h, w, U), NEW g, Sums(g, w, V)
  PROVE  \A s \in SUBSET U : s \in SUBSET V => h[s] = g[s]
<1> DEFINE Bad == {s \in SUBSET U : s \in SUBSET V /\ h[s] # g[s]}
<1> SUFFICES ASSUME Bad # {} PROVE FALSE
  OBVIOUS
<1>1. PICK s \in Bad : \A x \in s : s \ {x} \notin Bad
  BY SmallestExists
<1>2. s # {} /\ s \in SUBSET U /\ s \in SUBSET V /\ h[s] # g[s]
  <2>1. h[{}] = 0 /\ g[{}] = 0
    BY SumOf
  <2>2. QED
    BY <2>1
<1>3. /\ Taken(s) \in s /\ h[s] = w[Taken(s)] + h[s \ {Taken(s)}]
      /\ g[s] = w[Taken(s)] + g[s \ {Taken(s)}]
  <2>1. Taken(s) \in s
    BY <1>2, TakenIs
  <2>2. h[s] = w[Taken(s)] + h[s \ {Taken(s)}]
    BY <1>2, SumOf
  <2>3. g[s] = w[Taken(s)] + g[s \ {Taken(s)}]
    BY <1>2, SumOf
  <2>4. QED
    BY <2>1, <2>2, <2>3
<1>4. h[s \ {Taken(s)}] = g[s \ {Taken(s)}]
  BY <1>1, <1>2, <1>3
<1>5. QED
  BY <1>2, <1>3, <1>4

(* An element more counts its weight more.                                 *)
LEMMA OneMoreCounts ==
  ASSUME NEW T, NEW w \in [T -> Nat], NEW U \in SUBSET T, IsFiniteSet(U), NEW x \in T \ U,
         NEW h, Sums(h, w, U), NEW g, Sums(g, w, U \cup {x})
  PROVE  g[U \cup {x}] = w[x] + h[U] /\ h[U] \in Nat
<1>1. U \cup {x} \in SUBSET T /\ IsFiniteSet(U \cup {x})
  BY FS_AddElement
<1> DEFINE V == U \cup {x}
<1>2. g[V] = w[x] + g[V \ {x}]
  <2>1. V \in SUBSET T /\ IsFiniteSet(V) /\ Sums(g, w, V) /\ x \in V
    BY <1>1
  <2> HIDE DEF V
  <2>2. V \in SUBSET V
    OBVIOUS
  <2>3. QED
    BY <2>1, <2>2, SumOfAny
<1>3. V \ {x} = U
  OBVIOUS
<1>4. h[U] = g[U]
  BY <1>1, SumsAgree
<1>5. QED
  BY <1>2, <1>3, <1>4, SumsAreNat

(* The two sums of BinsAccounted                                           *)
BinsSeen(seen) == MapThenSumSet(LAMBDA f : f.total, seen)
BinsPacked(packets) == MapThenSumSet(LAMBDA p : p.count, packets)

TotalOf == [f \in Frames |-> f.total]
CountOf == [p \in SpectralPackets |-> p.count]

(* Numbers of bins are natural numbers.                                    *)
LEMMA WeightsAre == TotalOf \in [Frames -> Nat] /\ CountOf \in [SpectralPackets -> Nat]
<1>1. \A f \in Frames : f.total \in Nat
  BY SpectralAssumption DEF Frames
<1>2. \A p \in SpectralPackets : p.count \in Nat
  BY DEF SpectralPackets
<1>3. QED
  BY <1>1, <1>2 DEF TotalOf, CountOf

(* MapThenSumSet makes these sums of the bins of the frames,               *)
LEMMA BinsSeenIs ==
  ASSUME NEW seen \in SUBSET Frames, IsFiniteSet(seen)
  PROVE  \E h : Sums(h, TotalOf, seen) /\ BinsSeen(seen) = h[seen]
<1> DEFINE Fold(h) == h = [s \in SUBSET seen |->
                        IF s = {} THEN 0
                        ELSE (CHOOSE x \in s : TRUE).total + h[s \ {CHOOSE x \in s : TRUE}]]
<1>1. \A h : Fold(h) <=> Sums(h, TotalOf, seen)
  <2>1. TAKE h
  <2>2. ASSUME NEW s \in SUBSET seen
        PROVE  (IF s = {} THEN 0
                ELSE (CHOOSE x \in s : TRUE).total + h[s \ {CHOOSE x \in s : TRUE}])
               = (IF s = {} THEN 0 ELSE TotalOf[Taken(s)] + h[s \ {Taken(s)}])
    <3>1. CASE s # {}
      <4>1. Taken(s) \in Frames
        BY <3>1, TakenIs
      <4>2. TotalOf[Taken(s)] = Taken(s).total
        BY <4>1 DEF TotalOf
      <4>3. QED
        BY <3>1, <4>2 DEF Taken
    <3>2. QED
      BY <3>1
  <2>3. QED
    BY <2>2 DEF Sums
<1>2. \E h : Fold(h)
  <2>1. \E h : Sums(h, TotalOf, seen)
    BY SumsExist, WeightsAre
  <2> HIDE DEF Fold
  <2>2. QED
    BY <1>1, <2>1
<1>3. BinsSeen(seen) = (CHOOSE h : Fold(h))[seen]
  BY DEF BinsSeen, MapThenSumSet, MapThenFoldSet
<1> HIDE DEF Fold
<1>4. Fold(CHOOSE h : Fold(h))
  BY <1>2
<1>5. QED
  BY <1>1, <1>3, <1>4

(* and of the bins in the packets.                                         *)
LEMMA BinsPackedIs ==
  ASSUME NEW packets \in SUBSET SpectralPackets, IsFiniteSet(packets)
  PROVE  \E h : Sums(h, CountOf, packets) /\ BinsPacked(packets) = h[packets]
<1> DEFINE Fold(h) == h = [s \in SUBSET packets |->
                        IF s = {} THEN 0
                        ELSE (CHOOSE x \in s : TRUE).count + h[s \ {CHOOSE x \in s : TRUE}]]
<1>1. \A h : Fold(h) <=> Sums(h, CountOf, packets)
  <2>1. TAKE h
  <2>2. ASSUME NEW s \in SUBSET packets
        PROVE  (IF s = {} THEN 0
                ELSE (CHOOSE x \in s : TRUE).count + h[s \ {CHOOSE x \in s : TRUE}])
               = (IF s = {} THEN 0 ELSE CountOf[Taken(s)] + h[s \ {Taken(s)}])
    <3>1. CASE s # {}
      <4>1. Taken(s) \in SpectralPackets
        BY <3>1, TakenIs
      <4>2. CountOf[Taken(s)] = Taken(s).count
        BY <4>1 DEF CountOf
      <4>3. QED
        BY <3>1, <4>2 DEF Taken
    <3>2. QED
      BY <3>1
  <2>3. QED
    BY <2>2 DEF Sums
<1>2. \E h : Fold(h)
  <2>1. \E h : Sums(h, CountOf, packets)
    BY SumsExist, WeightsAre
  <2> HIDE DEF Fold
  <2>2. QED
    BY <1>1, <2>1
<1>3. BinsPacked(packets) = (CHOOSE h : Fold(h))[packets]
  BY DEF BinsPacked, MapThenSumSet, MapThenFoldSet
<1> HIDE DEF Fold
<1>4. Fold(CHOOSE h : Fold(h))
  BY <1>2
<1>5. QED
  BY <1>1, <1>3, <1>4

(* A frame more is its bins more.                                          *)
LEMMA OneMoreSeen ==
  ASSUME NEW seen \in SUBSET Frames, IsFiniteSet(seen), NEW f \in Frames \ seen
  PROVE  /\ BinsSeen(seen) \in Nat
         /\ BinsSeen(seen \cup {f}) = f.total + BinsSeen(seen)
<1>1. PICK h : Sums(h, TotalOf, seen) /\ BinsSeen(seen) = h[seen]
  BY BinsSeenIs
<1>2. seen \cup {f} \in SUBSET Frames /\ IsFiniteSet(seen \cup {f})
  BY FS_AddElement
<1>3. PICK g : Sums(g, TotalOf, seen \cup {f}) /\ BinsSeen(seen \cup {f}) = g[seen \cup {f}]
  BY <1>2, BinsSeenIs
<1>4. g[seen \cup {f}] = TotalOf[f] + h[seen] /\ h[seen] \in Nat
  BY <1>1, <1>3, WeightsAre, OneMoreCounts
<1>5. TotalOf[f] = f.total
  BY DEF TotalOf
<1>6. QED
  BY <1>1, <1>3, <1>4, <1>5

(* A packet more is its bins more.                                         *)
LEMMA OneMorePacked ==
  ASSUME NEW packets \in SUBSET SpectralPackets, IsFiniteSet(packets),
         NEW p \in SpectralPackets \ packets
  PROVE  /\ BinsPacked(packets) \in Nat
         /\ BinsPacked(packets \cup {p}) = p.count + BinsPacked(packets)
<1>1. PICK h : Sums(h, CountOf, packets) /\ BinsPacked(packets) = h[packets]
  BY BinsPackedIs
<1>2. packets \cup {p} \in SUBSET SpectralPackets /\ IsFiniteSet(packets \cup {p})
  BY FS_AddElement
<1>3. PICK g : /\ Sums(g, CountOf, packets \cup {p})
               /\ BinsPacked(packets \cup {p}) = g[packets \cup {p}]
  BY <1>2, BinsPackedIs
<1>4. g[packets \cup {p}] = CountOf[p] + h[packets] /\ h[packets] \in Nat
  BY <1>1, <1>3, WeightsAre, OneMoreCounts
<1>5. CountOf[p] = p.count
  BY DEF CountOf
<1>6. QED
  BY <1>1, <1>3, <1>4, <1>5

(* Nothing was seen and nothing is packed at first.                        *)
LEMMA NothingCounts == BinsSeen({}) = 0 /\ BinsPacked({}) = 0
<1>1. {} \in SUBSET Frames /\ {} \in SUBSET SpectralPackets /\ IsFiniteSet({})
  BY FS_EmptySet
<1>2. QED
  BY <1>1, BinsSeenIs, BinsPackedIs, SumOf

-----------------------------------------------------------------------------
(* The bins of a frame                                                     *)

(* The packets that were made                                              *)
PacketsMade == arriving \cup {queued[i] : i \in DOMAIN queued}

(* The bins of the frame watch_add_f is at that are in no packet yet       *)
BinsLeft == IF adder.inFrame THEN Remaining ELSE 0

(* Of the frame at hand only bins before sourceBin are in packets: the     *)
(* next packet is not one that was made before.                            *)
BinsInv ==
  /\ IsFiniteSet(frames) /\ IsFiniteSet(arriving)
  /\ \A f \in frames : f.sequence <= now
  /\ adder.inFrame => adder.playing
  /\ adder.inFrame =>
       \A p \in PacketsMade : p.sequence = now => p.offset < adder.sourceBin
  /\ BinsSeen(frames) = BinsPacked(PacketsMade) + dropped + BinsLeft

(* The bins in packets are counted.                                        *)
LEMMA PackedIsNat ==
  ASSUME NEW packets \in SUBSET SpectralPackets, IsFiniteSet(packets)
  PROVE  BinsPacked(packets) \in Nat
<1>1. PICK h : Sums(h, CountOf, packets) /\ BinsPacked(packets) = h[packets]
  BY BinsPackedIs
<1>2. QED
  BY <1>1, WeightsAre, SumsAreNat

(* The packets made are finitely many, each of a frame that was seen.      *)
LEMMA PacketsAre ==
  ASSUME FrameInv, IsFiniteSet(arriving)
  PROVE  /\ PacketsMade \in SUBSET SpectralPackets /\ IsFiniteSet(PacketsMade)
         /\ \A p \in PacketsMade : FrameOf(p) \in frames
<1>1. queued \in Seq(SpectralPackets) /\ arriving \subseteq SpectralPackets
  BY DEF FrameInv, SpectralTypeOK
<1>2. DOMAIN queued = 1 .. Len(queued) /\ Len(queued) \in Nat
  BY <1>1
<1>3. \A i \in DOMAIN queued : queued[i] \in SpectralPackets
  BY <1>1, <1>2
<1>4. IsFiniteSet({queued[i] : i \in DOMAIN queued})
  <2> DEFINE S == {queued[i] : i \in DOMAIN queued}
             f == [i \in 1 .. Len(queued) |-> queued[i]]
  <2>1. f \in Surjection(1 .. Len(queued), S)
    BY <1>2 DEF Surjection
  <2>2. ExistsSurjection(1 .. Len(queued), S)
    BY <2>1 DEF ExistsSurjection
  <2> HIDE DEF S
  <2>3. IsFiniteSet(S)
    BY <1>2, <2>2, FS_NatSurjection
  <2>4. QED
    BY <2>3 DEF S
<1>5. \A p \in PacketsMade : FrameOf(p) \in frames
  BY <1>2 DEF FrameInv, PacketInv, PacketsMade
<1>6. IsFiniteSet(PacketsMade)
  BY <1>4, FS_Union DEF PacketsMade
<1>7. QED
  BY <1>1, <1>3, <1>5, <1>6 DEF PacketsMade

(* Steps that make and drop nothing                                        *)
LEMMA OthersKeepBins ==
  ASSUME BinsInv, PacketsMade' = PacketsMade, IsFiniteSet(arriving'), frames' = frames,
         dropped' = dropped, BinsLeft' = BinsLeft, now' = now,
         adder'.inFrame => adder' = adder
  PROVE  BinsInv'
BY DEF BinsInv

(* There is no frame yet.                                                  *)
LEMMA InitBins == SpectralInit => BinsInv
<1> SUFFICES ASSUME SpectralInit PROVE BinsInv
  OBVIOUS
<1>1. /\ frames = {} /\ arriving = {} /\ queued = <<>> /\ dropped = 0 /\ ~adder.inFrame
  BY DEF SpectralInit, NewAdder
<1>2. PacketsMade = {} /\ BinsLeft = 0
  BY <1>1 DEF PacketsMade, BinsLeft
<1>3. IsFiniteSet(frames) /\ IsFiniteSet(arriving)
  BY <1>1, FS_EmptySet
<1>4. BinsSeen(frames) = 0 /\ BinsPacked(PacketsMade) = 0
  BY <1>1, <1>2, NothingCounts
<1>5. QED
  BY <1>1, <1>2, <1>3, <1>4 DEF BinsInv

(* A frame that is seen adds its bins to those to be packed.               *)
LEMMA AddKeepsBins ==
  ASSUME FrameInv, BinsInv, AddFrame
  PROVE  BinsInv'
<1>1. /\ now \in Nat /\ now' = now + 1 /\ ~adder.inFrame /\ dropped' = dropped
      /\ queued' = queued /\ arriving' = arriving /\ dropped \in Nat
  BY DEF AddFrame, FrameInv, SpectralTypeOK
<1>2. PacketsMade' = PacketsMade /\ BinsLeft = 0
  BY <1>1 DEF PacketsMade, BinsLeft
<1>3. /\ PacketsMade \in SUBSET SpectralPackets /\ IsFiniteSet(PacketsMade)
      /\ \A p \in PacketsMade : FrameOf(p) \in frames
  BY PacketsAre DEF BinsInv
<1>4. /\ frames \in SUBSET Frames /\ IsFiniteSet(frames) /\ IsFiniteSet(arriving)
      /\ \A f \in frames : f.sequence \in Nat /\ f.sequence <= now
      /\ BinsSeen(frames) = BinsPacked(PacketsMade) + dropped
  <2>1. BinsPacked(PacketsMade) \in Int
    BY <1>3, PackedIsNat
  <2>2. \A f \in Frames : f.sequence \in Nat
    BY DEF Frames, FrameTimes
  <2>3. frames \subseteq Frames
    BY DEF FrameInv, SpectralTypeOK
  <2>4. BinsSeen(frames) = BinsPacked(PacketsMade) + dropped
    BY <1>1, <1>2, <2>1 DEF BinsInv
  <2>5. QED
    BY <2>2, <2>3, <2>4 DEF BinsInv
<1>5. CASE framecount' = adder.lastFrameId
  <2>1. adder' = adder /\ frames' = frames
    BY <1>5 DEF AddFrame
  <2>2. BinsLeft' = 0
    BY <1>1, <2>1 DEF BinsLeft
  <2>3. \A f \in frames' : f.sequence <= now'
    BY <1>1, <1>4, <2>1
  <2>4. BinsSeen(frames)' = BinsPacked(PacketsMade)' + dropped' + BinsLeft'
    <3>1. BinsPacked(PacketsMade)' = BinsPacked(PacketsMade) /\ BinsSeen(frames)' = BinsSeen(frames)
      BY <1>2, <2>1
    <3>2. BinsPacked(PacketsMade) \in Int
      BY <1>3, PackedIsNat
    <3>3. QED
      BY <1>1, <1>4, <2>2, <3>1, <3>2
  <2>5. QED
    BY <1>1, <1>4, <2>1, <2>3, <2>4 DEF BinsInv
<1>6. CASE framecount' # adder.lastFrameId
  <2> DEFINE f == [sequence |-> now', frameId |-> framecount', total |-> adder.total]
  <2>1. /\ adder' = [adder EXCEPT !.inFrame = TRUE, !.sourceBin = 0]
        /\ frames' = frames \cup {f}
    BY <1>6 DEF AddFrame
  <2>2. f \in Frames
    <3>1. FrameInv'
      BY AddKeeps
    <3>2. QED
      BY <2>1, <3>1 DEF FrameInv, SpectralTypeOK
  <2>3. f \notin frames
    BY <1>1, <1>4
  <2>4. /\ BinsSeen(frames \cup {f}) = adder.total + BinsSeen(frames)
        /\ BinsSeen(frames) \in Nat
    BY <1>4, <2>2, <2>3, OneMoreSeen
  <2>5. /\ adder'.inFrame /\ adder'.sourceBin = 0 /\ adder'.total = adder.total
        /\ adder.total \in Nat
    BY <2>1, SpectralAssumption DEF FrameInv, SpectralTypeOK
  <2>6. BinsLeft' = adder.total
    BY <2>5 DEF BinsLeft, Remaining
  <2>7. BinsSeen(frames)' = BinsPacked(PacketsMade)' + dropped' + BinsLeft'
    <3>1. /\ BinsPacked(PacketsMade)' = BinsPacked(PacketsMade)
          /\ BinsSeen(frames)' = BinsSeen(frames \cup {f})
      <4> HIDE DEF f
      <4>1. QED
        BY <1>2, <2>1
    <3>2. BinsPacked(PacketsMade) \in Int
      BY <1>3, PackedIsNat
    <3>3. QED
      BY <1>1, <1>4, <2>4, <2>5, <2>6, <3>1, <3>2
  <2>8. IsFiniteSet(frames')
    <3> HIDE DEF f
    <3>1. QED
      BY <1>4, <2>1, FS_AddElement
  <2>9. \A g \in frames' : g.sequence <= now'
    BY <1>1, <1>4, <2>1
  <2>10. \A p \in PacketsMade' : p.sequence # now'
    <3>1. \A p \in PacketsMade : FrameOf(p) \in frames /\ FrameOf(p).sequence = p.sequence
      BY <1>3 DEF FrameOf
    <3>2. QED
      BY <1>1, <1>2, <1>4, <3>1
  <2>11. adder'.playing
    BY <2>1 DEF AddFrame, FrameInv, SpectralTypeOK
  <2>12. QED
    BY <1>1, <1>4, <2>7, <2>8, <2>9, <2>10, <2>11 DEF BinsInv
<1>7. QED
  BY <1>5, <1>6

(* A chunk that is packed is new: it starts where the last one ended.      *)
LEMMA PublishKeepsBins ==
  ASSUME FrameInv, BinsInv, PublishChunk
  PROVE  BinsInv'
<1>1. /\ ChunkPacket \in SpectralPackets /\ Chunk \in Nat \ {0} /\ Chunk <= Remaining
      /\ Remaining \in Nat /\ adder.inFrame
  BY ChunkIsOfFrame DEF PublishChunk
<1>2. /\ queued' = Append(queued, ChunkPacket) /\ queued \in Seq(SpectralPackets)
      /\ UNCHANGED <<now, dropped, arriving, frames>>
      /\ adder.sourceBin \in Nat /\ adder.total \in Nat /\ now \in Nat /\ dropped \in Nat
  BY SpectralAssumption DEF PublishChunk, FrameInv, SpectralTypeOK
<1>3. PacketsMade' = PacketsMade \cup {ChunkPacket}
  <2> DEFINE n == Len(queued)
  <2>1. /\ n \in Nat /\ DOMAIN queued = 1 .. n /\ DOMAIN queued' = 1 .. n + 1
        /\ \A i \in 1 .. n : queued'[i] = queued[i]
        /\ queued'[n + 1] = ChunkPacket
    BY <1>1, <1>2
  <2> HIDE DEF n
  <2>2. {queued'[i] : i \in 1 .. n + 1} = {queued[i] : i \in 1 .. n} \cup {ChunkPacket}
    <3>1. \A i \in 1 .. n + 1 : i \in 1 .. n \/ i = n + 1
      BY <2>1
    <3>2. \A i \in 1 .. n : i \in 1 .. n + 1
      BY <2>1
    <3>3. n + 1 \in 1 .. n + 1
      BY <2>1
    <3>4. QED
      BY <2>1, <3>1, <3>2, <3>3
  <2>3. QED
    BY <1>2, <2>1, <2>2 DEF PacketsMade
<1>4. /\ PacketsMade \in SUBSET SpectralPackets /\ IsFiniteSet(PacketsMade)
  BY PacketsAre DEF BinsInv
<1>5. /\ ChunkPacket.sequence = now /\ ChunkPacket.offset = adder.sourceBin
      /\ ChunkPacket.count = Chunk
  BY DEF ChunkPacket
<1>6. ChunkPacket \notin PacketsMade
  BY <1>1, <1>2, <1>5 DEF BinsInv
<1>7. /\ BinsPacked(PacketsMade \cup {ChunkPacket}) = Chunk + BinsPacked(PacketsMade)
      /\ BinsPacked(PacketsMade) \in Nat
  BY <1>1, <1>4, <1>5, <1>6, OneMorePacked
<1>8. /\ BinsPacked(PacketsMade)' = BinsPacked(PacketsMade \cup {ChunkPacket})
      /\ BinsSeen(frames)' = BinsSeen(frames)
  BY <1>2, <1>3
<1>9. /\ adder \in [playing : BOOLEAN, total : Formats, lastFrameId : FrameIds,
                   inFrame : BOOLEAN, sourceBin : Nat]
  BY DEF FrameInv, SpectralTypeOK
<1>10. BinsLeft = Remaining /\ Remaining = adder.total - adder.sourceBin
  BY <1>1 DEF BinsLeft, Remaining
<1>11. /\ BinsLeft' = Remaining - Chunk
       /\ adder'.inFrame => adder'.sourceBin = adder.sourceBin + Chunk
  <2>1. CASE Chunk = Remaining
    <3>1. ~adder'.inFrame
      BY <1>9, <2>1 DEF PublishChunk
    <3>2. QED
      BY <1>1, <2>1, <3>1 DEF BinsLeft
  <2>2. CASE Chunk # Remaining
    <3>1. adder' = [adder EXCEPT !.sourceBin = adder.sourceBin + Chunk]
      BY <1>9, <2>2 DEF PublishChunk
    <3>2. /\ adder'.inFrame /\ adder'.total = adder.total
          /\ adder'.sourceBin = adder.sourceBin + Chunk
      BY <1>1, <1>9, <3>1
    <3>3. Remaining' = adder.total - (adder.sourceBin + Chunk)
      BY <3>2 DEF Remaining
    <3>4. QED
      BY <1>1, <1>2, <1>10, <3>2, <3>3 DEF BinsLeft
  <2>3. QED
    BY <2>1, <2>2
<1>12. ASSUME adder'.inFrame, NEW p \in PacketsMade', p.sequence = now'
       PROVE  p.offset < adder'.sourceBin
  <2>1. adder'.sourceBin = adder.sourceBin + Chunk
    BY <1>11, <1>12
  <2>2. CASE p \in PacketsMade
    <3>1. p.offset < adder.sourceBin /\ p.offset \in Nat
      BY <1>1, <1>2, <1>4, <1>12, <2>2 DEF BinsInv, SpectralPackets
    <3>2. QED
      BY <1>1, <1>2, <2>1, <3>1
  <2>3. CASE p = ChunkPacket
    BY <1>1, <1>2, <1>5, <2>1, <2>3
  <2>4. QED
    BY <1>3, <2>2, <2>3
<1>13. BinsSeen(frames)' = BinsPacked(PacketsMade)' + dropped' + BinsLeft'
  <2>1. BinsSeen(frames) = BinsPacked(PacketsMade) + dropped + Remaining
    BY <1>10 DEF BinsInv
  <2> DEFINE a == BinsSeen(frames)
             b == BinsPacked(PacketsMade)
             c == Chunk
             r == Remaining
  <2>2. b \in Nat /\ c \in Nat /\ r \in Nat /\ a = b + dropped + r
    BY <1>1, <1>7, <2>1
  <2>3. BinsPacked(PacketsMade)' = c + b /\ BinsSeen(frames)' = a /\ BinsLeft' = r - c
    BY <1>7, <1>8, <1>11
  <2> HIDE DEF a, b, c, r
  <2>4. QED
    BY <1>2, <2>2, <2>3
<1>14. adder'.inFrame => adder'.playing
  BY <1>1, <1>9 DEF BinsInv, PublishChunk
<1>15. QED
  BY <1>2, <1>12, <1>13, <1>14 DEF BinsInv

(* What is left of a frame at a full ring is counted as dropped.           *)
LEMMA DropKeepsBins ==
  ASSUME FrameInv, BinsInv, DropFrameRest
  PROVE  BinsInv'
<1>1. Remaining \in Nat /\ adder.inFrame
  BY ChunkIsOfFrame DEF DropFrameRest
<1>2. /\ UNCHANGED <<now, queued, arriving, frames>> /\ dropped' = dropped + Remaining
      /\ dropped \in Nat /\ ~adder'.inFrame
  BY DEF DropFrameRest, FrameInv, SpectralTypeOK
<1>3. PacketsMade' = PacketsMade /\ BinsLeft = Remaining /\ BinsLeft' = 0
  BY <1>1, <1>2 DEF PacketsMade, BinsLeft
<1>4. BinsPacked(PacketsMade) \in Nat
  BY PacketsAre, PackedIsNat DEF BinsInv
<1>5. /\ BinsPacked(PacketsMade)' = BinsPacked(PacketsMade) /\ BinsSeen(frames)' = BinsSeen(frames)
  BY <1>2, <1>3
<1>6. BinsSeen(frames)' = BinsPacked(PacketsMade)' + dropped' + BinsLeft'
  <2>1. BinsSeen(frames) = BinsPacked(PacketsMade) + dropped + BinsLeft
    BY DEF BinsInv
  <2>2. QED
    BY <1>1, <1>2, <1>3, <1>4, <1>5, <2>1
<1>7. QED
  BY <1>2, <1>6 DEF BinsInv

(* A packet that is sent leaves the ring for the network.                  *)
LEMMA SendKeepsBins ==
  ASSUME FrameInv, BinsInv, SendChunk
  PROVE  BinsInv'
<1>1. /\ queued \in Seq(SpectralPackets) /\ queued # <<>> /\ queued' = Tail(queued)
      /\ arriving' = arriving \cup {Head(queued)}
      /\ UNCHANGED <<now, adder, dropped, frames>>
  BY DEF SendChunk, FrameInv, SpectralTypeOK
<1> DEFINE n == Len(queued)
<1>2. /\ n \in Nat \ {0} /\ DOMAIN queued = 1 .. n /\ DOMAIN queued' = 1 .. n - 1
      /\ Head(queued) = queued[1] /\ \A i \in 1 .. n - 1 : queued'[i] = queued[i + 1]
  BY <1>1
<1> HIDE DEF n
<1>3. {queued'[i] : i \in 1 .. n - 1} \cup {queued[1]} = {queued[i] : i \in 1 .. n}
  <2>1. \A i \in 1 .. n : i = 1 \/ (i - 1 \in 1 .. n - 1 /\ queued'[i - 1] = queued[i])
    BY <1>2
  <2>2. \A i \in 1 .. n - 1 : i + 1 \in 1 .. n /\ queued'[i] = queued[i + 1]
    BY <1>2
  <2>3. 1 \in 1 .. n
    BY <1>2
  <2>4. QED
    BY <2>1, <2>2, <2>3
<1>4. PacketsMade' = PacketsMade
  BY <1>1, <1>2, <1>3 DEF PacketsMade
<1>5. IsFiniteSet(arriving')
  BY <1>1, FS_AddElement DEF BinsInv
<1>6. BinsLeft' = BinsLeft
  BY <1>1 DEF BinsLeft, Remaining
<1>7. QED
  BY <1>1, <1>4, <1>5, <1>6, OthersKeepBins

(* Nothing else touches frames, packets or the count.                      *)
LEMMA NextBins == FrameInv /\ BinsInv /\ [SpectralNext]_spectralVars => BinsInv'
<1> SUFFICES ASSUME FrameInv, BinsInv, [SpectralNext]_spectralVars PROVE BinsInv'
  OBVIOUS
<1>1. ASSUME UNCHANGED pluginVars, UNCHANGED arriving PROVE BinsInv'
  <2>1. UNCHANGED <<now, adder, queued, dropped, frames, arriving>>
    BY <1>1 DEF pluginVars
  <2>2. PacketsMade' = PacketsMade /\ BinsLeft' = BinsLeft
    BY <2>1 DEF PacketsMade, BinsLeft, Remaining
  <2>3. QED
    BY <2>1, <2>2, OthersKeepBins DEF BinsInv
<1>2. CASE EndInstance \/ StartInstance
  <2>1. UNCHANGED <<now, queued, dropped, frames, arriving>> /\ ~adder.inFrame /\ ~adder'.inFrame
    <3>1. CASE EndInstance
      BY <3>1 DEF EndInstance, FrameInv, SpectralTypeOK
    <3>2. CASE StartInstance
      BY <3>2 DEF BinsInv, StartInstance, NewAdder
    <3>3. QED
      BY <1>2, <3>1, <3>2
  <2>2. PacketsMade' = PacketsMade /\ BinsLeft' = BinsLeft
    BY <2>1 DEF PacketsMade, BinsLeft
  <2>3. QED
    BY <2>1, <2>2, OthersKeepBins DEF BinsInv
<1>3. CASE \E p \in arriving : ReceiveChunk(p) \/ RejectFormat(p) \/ RejectColumn(p)
  BY <1>1, <1>3 DEF ReceiveChunk, RejectFormat, RejectColumn
<1>4. CASE ChangeSpectralTheme
  BY <1>1, <1>4 DEF ChangeSpectralTheme, pluginVars
<1>5. CASE UNCHANGED spectralVars
  BY <1>1, <1>5 DEF spectralVars
<1>6. QED
  BY <1>2, <1>3, <1>4, <1>5, AddKeepsBins, PublishKeepsBins, DropKeepsBins, SendKeepsBins
     DEF SpectralNext

(* Every bin of every frame that watch_add_f saw is in a packet, or        *)
(* counted in dropped_samples, or still to come in the loop over the       *)
(* chunks: none is lost uncounted and none is sent or counted twice, at    *)
(* any size of the ring and the packets.                                   *)
THEOREM EveryBinIsAccounted == SpectralSpec => []BinsAccounted
<1>1. BinsInv => BinsAccounted
  BY DEF BinsInv, BinsAccounted, BinsSeen, BinsPacked, PacketsMade, BinsLeft
<1>2. QED
  BY <1>1, InitBins, NextBins, FrameInvariance, PTL DEF SpectralSpec
==============================================================================
