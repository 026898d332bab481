----------------------------- MODULE PointTrail -----------------------------
(***************************************************************************)
(* The trail of one point stream in the viewer: a ring of the newest       *)
(* points, whose size follows from the control rate of the note that feeds *)
(* the stream. A slot is taken over by another note without a word to the  *)
(* viewer, so the rate of a packet may differ from that of the one before. *)
(*                                                                         *)
(* A point is the number of its arrival; coordinates are left out.         *)
(***************************************************************************)
EXTENDS Integers, Sequences, FiniteSetsExt

CONSTANTS
  PointRates,       \* control rates of the notes
  TrailsPerSecond,  \* 1 / POINT_TRAIL_SECONDS
  MaxTrail,         \* POINT_TRAIL_MAX_SAMPLES
  MaxPointSamples,  \* MAX_POINT_SAMPLES
  MaxPoints         \* bound: the points that arrive

ASSUME TrailAssumption ==
  /\ PointRates \subseteq Nat \ {0} /\ TrailsPerSecond \in Nat \ {0}
  /\ MaxTrail \in Nat \ {0, 1} /\ MaxPointSamples \in Nat \ {0} /\ MaxPoints \in Nat

VARIABLES
  trail,     \* the STREAM_POINT_BUFFER of the slot
  arrived,   \* history: number of points that arrived
  emptied    \* history: value of arrived when the buffer was last emptied

trailVars == <<trail, arrived, emptied>>

(* clear_point_stream *)
ClearedTrail ==
  [rate |-> 0, capacity |-> 0, points |-> <<>>, write |-> 0, valid |-> 0, unsupported |-> FALSE]

(* point_trail_capacity: at least two points, the shortest visible segment *)
TrailCapacity(rate) ==
  LET samples == (rate + TrailsPerSecond - 1) \div TrailsPerSecond
  IN IF samples < 2 THEN 2 ELSE IF samples > MaxTrail THEN MaxTrail ELSE samples

TrailTypeOK ==
  /\ trail.rate \in PointRates \union {0}
  /\ trail.capacity \in {0} \union 2 .. MaxTrail
  /\ trail.write \in Nat /\ trail.valid \in 0 .. trail.capacity
  /\ trail.capacity > 0 => /\ trail.write < trail.capacity
                           /\ trail.points \in [0 .. trail.capacity - 1 -> Nat]
  /\ trail.unsupported => trail.capacity = 0
  /\ arrived \in Nat /\ emptied \in 0 .. arrived

TrailInit == trail = ClearedTrail /\ arrived = 0 /\ emptied = 0

(* Mutant: a larger buffer will do.                                        *)
FitsInLarger(rate) == trail.capacity >= TrailCapacity(rate)
FitsTrail(rate) == trail.capacity = TrailCapacity(rate)

RefusedTrail(rate) == trail.unsupported /\ trail.rate = rate

(* ensure_point_buffer, when it succeeds *)
EnsuredTrail(rate) ==
  IF FitsTrail(rate) THEN [trail EXCEPT !.rate = rate]
  ELSE [ClearedTrail EXCEPT !.rate = rate, !.capacity = TrailCapacity(rate),
                            !.points = [k \in 0 .. TrailCapacity(rate) - 1 |-> 0]]

(* append_point for each of count points, of which the last to reach a     *)
(* place stays there.                                                      *)
Newer(write, count, capacity, k) ==
  {n \in 1 .. count : (write + n - 1) % capacity = k}

Fewer(a, b) == IF a < b THEN a ELSE b

WithPoints(buffer, count) ==
  [buffer EXCEPT
     !.points = [k \in DOMAIN buffer.points |->
       LET newer == Newer(buffer.write, count, buffer.capacity, k)
       IN IF newer = {} THEN buffer.points[k] ELSE arrived + Max(newer)],
     !.write = (buffer.write + count) % buffer.capacity,
     !.valid = Fewer(buffer.valid + count, buffer.capacity)]

(* process_point_packet *)
ReceivePoints(rate, count) ==
  /\ ~RefusedTrail(rate)
  /\ arrived + count <= MaxPoints
  /\ trail' = WithPoints(EnsuredTrail(rate), count)
  /\ arrived' = arrived + count
  /\ emptied' = IF FitsTrail(rate) THEN emptied ELSE arrived

(* Without memory the stream is refused until its rate changes.            *)
RejectTrail(rate) ==
  /\ ~RefusedTrail(rate) /\ ~FitsTrail(rate)
  /\ trail' = [ClearedTrail EXCEPT !.rate = rate, !.unsupported = TRUE]
  /\ emptied' = arrived
  /\ UNCHANGED arrived

TrailNext ==
  \E rate \in PointRates :
    \/ \E count \in 1 .. MaxPointSamples : ReceivePoints(rate, count)
    \/ RejectTrail(rate)

TrailSpec == TrailInit /\ [][TrailNext]_trailVars

-----------------------------------------------------------------------------
(* What render_point joins by segments, from the oldest to the newest      *)

FirstPoint == (trail.write + trail.capacity - trail.valid) % trail.capacity
DrawnTrail == [i \in 1 .. trail.valid |-> trail.points[(FirstPoint + i - 1) % trail.capacity]]

(* The trail is the newest points in the order they came, as many as the   *)
(* control rate of the note calls for, whatever packets brought them and   *)
(* wherever the ring wraps; a point from before the buffer was replaced is *)
(* not among them.                                                         *)
TrailIsNewest ==
  trail.capacity > 0 =>
    LET n == Fewer(arrived - emptied, TrailCapacity(trail.rate))
    IN DrawnTrail = [i \in 1 .. n |-> arrived - n + i]
==============================================================================
