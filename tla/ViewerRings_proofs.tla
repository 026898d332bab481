-------------------------- MODULE ViewerRings_proofs --------------------------
(***************************************************************************)
(* Proofs about the two kinds of rings the viewer draws from: PointTrail,  *)
(* the newest points of a stream, and ScopeTimeline, the samples of each   *)
(* stream and the display clock they share. They hold for every size of a  *)
(* packet, of a ring and of the window, also when a packet or a gap goes   *)
(* round the ring, for any number of streams and for any of their rates.   *)
(***************************************************************************)
EXTENDS PointTrail, ScopeTimeline, NaturalsInduction, WellFoundedInduction, TLAPS

-----------------------------------------------------------------------------
(* Places in a ring                                                        *)

(* The remainder, by its definition.                                       *)
LEMMA Remainder ==
  ASSUME NEW a \in Int, NEW n \in Nat \ {0}
  PROVE  \E q \in Int : a = q * n + (a % n)
<1>1. n \in Int /\ n > 0
  OBVIOUS
<1>2. a = (a \div n) * n + (a % n)
  BY <1>1
<1>3. a \div n \in Int
  BY <1>1
<1>4. QED
  BY <1>2, <1>3, Zenon

(* A remainder is a place in the ring.                                     *)
LEMMA RemainderInRing ==
  ASSUME NEW a \in Int, NEW n \in Nat \ {0}
  PROVE  a % n \in 0 .. n - 1
OBVIOUS

(* A multiple of n is 0 or at least n away from it.                        *)
LEMMA MultipleIsFar ==
  ASSUME NEW n \in Nat \ {0}, NEW q \in Int
  PROVE  /\ q * n \in Int
         /\ q = 0 => q * n = 0
         /\ q >= 1 => q * n >= n
         /\ q <= -1 => q * n <= -n
OBVIOUS

(* What two numbers with the same number of places are apart is whole      *)
(* rounds and the rest.                                                    *)
LEMMA Apart ==
  ASSUME NEW n \in Nat \ {0}, NEW q \in Int, NEW r \in Int, NEW x \in Int, NEW y \in Int,
         q * n + x = r * n + y
  PROVE  /\ r - q \in Int
         /\ (r - q) * n = x - y
<1>1. (r - q) * n = r * n - q * n
  OBVIOUS
<1>2. QED
  BY <1>1, MultipleIsFar

(* Two positions less than a round apart are at different places.          *)
LEMMA PlacesDiffer ==
  ASSUME NEW n \in Nat \ {0}, NEW a \in Int, NEW b \in Int, a < b, b < a + n
  PROVE  a % n # b % n
<1> SUFFICES ASSUME a % n = b % n PROVE FALSE
  OBVIOUS
<1> DEFINE place == a % n
<1>1. PICK q \in Int : a = q * n + place
  BY Remainder
<1>2. PICK r \in Int : b = r * n + place
  BY Remainder
<1>3. place \in Int
  BY RemainderInRing
<1> HIDE DEF place
<1>4. (r - q) * n = b - a
  <2>1. (r - q) * n = r * n - q * n
    OBVIOUS
  <2>2. QED
    BY <1>1, <1>2, <1>3, <2>1, MultipleIsFar
<1>5. QED
  BY <1>4, MultipleIsFar

(* The quotient and the remainder are the only ones.                       *)
LEMMA PlaceIs ==
  ASSUME NEW n \in Nat \ {0}, NEW a \in Int, NEW q \in Int, NEW place \in 0 .. n - 1,
         a = q * n + place
  PROVE  a % n = place
<1> DEFINE other == a % n
<1>1. PICK r \in Int : a = r * n + other
  BY Remainder
<1>2. other \in 0 .. n - 1
  BY RemainderInRing
<1> HIDE DEF other
<1>3. (r - q) * n = place - other /\ r - q \in Int
  BY <1>1, <1>2, Apart
<1>4. place = other
  BY <1>2, <1>3, MultipleIsFar
<1>5. QED
  BY <1>4 DEF other

(* So a start that has gone round may as well not have.                    *)
LEMMA MovedPlace ==
  ASSUME NEW n \in Nat \ {0}, NEW a \in Int, NEW b \in Int
  PROVE  ((a % n) + b) % n = (a + b) % n
<1> DEFINE place == a % n
           end == (a + b) % n
<1>1. PICK q \in Int : a = q * n + place
  BY Remainder
<1>2. PICK r \in Int : a + b = r * n + end
  <2>1. a + b \in Int
    OBVIOUS
  <2>2. QED
    BY <2>1, Remainder
<1>3. place \in Int /\ end \in 0 .. n - 1
  BY RemainderInRing
<1> HIDE DEF place, end
<1>4. place + b = (r - q) * n + end
  <2>1. (r - q) * n = r * n - q * n
    OBVIOUS
  <2>2. QED
    BY <1>1, <1>2, <1>3, <2>1, MultipleIsFar
<1>5. (place + b) % n = end
  <2>1. place + b \in Int /\ r - q \in Int
    BY <1>3
  <2>2. QED
    BY <1>3, <1>4, <2>1, PlaceIs
<1>6. QED
  BY <1>5 DEF place, end

(* One round further is the same place.                                    *)
LEMMA RoundIsSame ==
  ASSUME NEW n \in Nat \ {0}, NEW a \in Int
  PROVE  (a + n) % n = a % n
<1> DEFINE place == a % n
<1>1. PICK q \in Int : a = q * n + place
  BY Remainder
<1>2. place \in 0 .. n - 1
  BY RemainderInRing
<1> HIDE DEF place
<1>3. a + n = (q + 1) * n + place /\ q + 1 \in Int /\ a + n \in Int
  <2>1. (q + 1) * n = q * n + n
    OBVIOUS
  <2>2. QED
    BY <1>1, <1>2, <2>1, MultipleIsFar
<1>4. (a + n) % n = place
  BY <1>2, <1>3, PlaceIs
<1>5. QED
  BY <1>4 DEF place

(* So are any number of rounds, forth or back.                             *)
LEMMA RoundsAreSame ==
  ASSUME NEW n \in Nat \ {0}, NEW a \in Int, NEW rounds \in Int
  PROVE  (a + rounds * n) % n = a % n
<1> DEFINE place == a % n
<1>1. PICK q \in Int : a = q * n + place
  BY Remainder
<1>2. place \in 0 .. n - 1
  BY RemainderInRing
<1> HIDE DEF place
<1>3. /\ a + rounds * n = (q + rounds) * n + place
      /\ q + rounds \in Int /\ a + rounds * n \in Int
  <2>1. (q + rounds) * n = q * n + rounds * n
    OBVIOUS
  <2>2. q * n \in Int /\ rounds * n \in Int
    BY MultipleIsFar
  <2>3. QED
    BY <1>1, <1>2, <2>1, <2>2
<1>4. (a + rounds * n) % n = place
  BY <1>2, <1>3, PlaceIs
<1>5. QED
  BY <1>4 DEF place

(* Two sets of integers that have a least and a greatest element           *)
LEMMA LeastOfNaturals ==
  ASSUME NEW T \in SUBSET Nat, T # {}
  PROVE  \E x \in T : \A y \in T : x <= y
<1> DEFINE Less == {r \in Nat \X Nat : r[1] < r[2]}
<1>1. IsWellFoundedOn(Less, Nat)
  BY NatLessThanWellFounded DEF OpToRel
<1>2. \E x \in T : \A y \in T : <<y, x>> \notin Less
  <2> HIDE DEF Less
  <2>1. QED
    BY <1>1, WFMin
<1>3. PICK x \in T : \A y \in T : <<y, x>> \notin Less
  BY <1>2
<1>4. ASSUME NEW y \in T PROVE x <= y
  <2>1. x \in Nat /\ y \in Nat
    OBVIOUS
  <2>2. ~(y < x)
    BY <1>3, <2>1
  <2>3. QED
    BY <2>1, <2>2
<1>5. QED
  BY <1>4

(* What Min and Max choose is there, in a set with a bound,                *)
LEMMA LeastIs ==
  ASSUME NEW S \in SUBSET Int, S # {}, NEW low \in Int, \A y \in S : low <= y
  PROVE  Min(S) \in S /\ \A y \in S : Min(S) <= y
<1> DEFINE T == {y - low : y \in S}
<1>1. T \in SUBSET Nat /\ T # {}
  <2>1. \A y \in S : y - low \in Nat
    OBVIOUS
  <2>2. QED
    BY <2>1
<1>2. PICK z \in T : \A y \in T : z <= y
  BY <1>1, LeastOfNaturals
<1>3. PICK x \in S : z = x - low
  BY <1>2
<1>4. ASSUME NEW y \in S PROVE x <= y
  <2>1. x - low <= y - low /\ x \in Int /\ y \in Int
    BY <1>2, <1>3
  <2>2. QED
    BY <2>1
<1>5. QED
  BY <1>4, Zenon DEF Min

(* and it is the least or the greatest element.                            *)
LEMMA GreatestIs ==
  ASSUME NEW S \in SUBSET Int, S # {}, NEW high \in Int, \A y \in S : y <= high
  PROVE  Max(S) \in S /\ \A y \in S : Max(S) >= y
<1> DEFINE T == {high - y : y \in S}
<1>1. T \in SUBSET Nat /\ T # {}
  <2>1. \A y \in S : high - y \in Nat
    OBVIOUS
  <2>2. QED
    BY <2>1
<1>2. PICK z \in T : \A y \in T : z <= y
  BY <1>1, LeastOfNaturals
<1>3. PICK x \in S : z = high - x
  BY <1>2
<1>4. ASSUME NEW y \in S PROVE x >= y
  <2>1. high - x <= high - y /\ x \in Int /\ y \in Int
    BY <1>2, <1>3
  <2>2. QED
    BY <2>1
<1>5. QED
  BY <1>4, Zenon DEF Max

(* The greatest element is the only one.                                   *)
LEMMA MaxIs ==
  ASSUME NEW S \in SUBSET Int, NEW x \in S, \A y \in S : y <= x
  PROVE  Max(S) = x
<1>1. \A y \in S : x >= y
  OBVIOUS
<1>2. Max(S) \in S /\ \A y \in S : Max(S) >= y
  BY <1>1, Zenon DEF Max
<1>3. Max(S) >= x /\ x >= Max(S)
  BY <1>1, <1>2
<1>4. Max(S) \in Int /\ x \in Int
  BY <1>2
<1>5. QED
  BY <1>3, <1>4

(* The place j before the next to be written, after count points.          *)
PlaceOf(write, count, n, j) == (write + count + n - 1 - j) % n

(* Of the new points, exactly those less than count before the end are     *)
(* found where they should be, unless a later one went over them.          *)
LEMMA NewestAt ==
  ASSUME NEW n \in Nat \ {0}, NEW write \in 0 .. n - 1, NEW count \in Nat \ {0},
         NEW j \in 0 .. n - 1
  PROVE  LET newer == Newer(write, count, n, PlaceOf(write, count, n, j))
         IN /\ j < count => newer # {} /\ Max(newer) = count - j
            /\ j >= count => newer = {}
<1> DEFINE last == write + count - 1 - j
           k == PlaceOf(write, count, n, j)
<1>1. last \in Int
  OBVIOUS
<1>2. k = last % n
  <2>1. last + n = write + count + n - 1 - j
    OBVIOUS
  <2>2. QED
    BY <1>1, <2>1, RoundIsSame DEF PlaceOf
<1> HIDE DEF k
<1>3. ASSUME NEW m \in 1 .. count, m > count - j
      PROVE  m \notin Newer(write, count, n, k)
  <2>1. write + m - 1 \in Int /\ last < write + m - 1 /\ write + m - 1 < last + n
    BY <1>3
  <2>2. (write + m - 1) % n # last % n
    BY <1>1, <2>1, PlacesDiffer
  <2>3. QED
    BY <1>2, <2>2 DEF Newer
<1>4. Newer(write, count, n, k) \subseteq 1 .. count
  BY DEF Newer
<1>5. ASSUME j < count
      PROVE  /\ Newer(write, count, n, k) # {}
             /\ Max(Newer(write, count, n, k)) = count - j
  <2>1. count - j \in 1 .. count /\ write + (count - j) - 1 = last
    BY <1>5
  <2>2. count - j \in Newer(write, count, n, k)
    BY <1>2, <2>1 DEF Newer
  <2>3. \A m \in Newer(write, count, n, k) : m <= count - j
    BY <1>3, <1>4
  <2>4. QED
    BY <1>4, <2>2, <2>3, MaxIs
<1>6. ASSUME j >= count
      PROVE  Newer(write, count, n, k) = {}
  <2>1. \A m \in 1 .. count : m > count - j
    BY <1>6
  <2>2. QED
    BY <1>3, <1>4, <2>1
<1>7. QED
  BY <1>5, <1>6 DEF k

(* Every place that gets a new point gets the newest.                      *)
LEMMA NewestIsOne ==
  ASSUME NEW n \in Nat \ {0}, NEW write \in 0 .. n - 1, NEW count \in Nat \ {0}, NEW k,
         Newer(write, count, n, k) # {}
  PROVE  Max(Newer(write, count, n, k)) \in 1 .. count
<1>1. PICK m \in 1 .. count : k = (write + m - 1) % n
  BY DEF Newer
<1>2. count - m \in Int /\ count - m >= 0
  BY <1>1
<1>3. PICK q \in Int, j \in 0 .. n - 1 : count - m = q * n + j
  BY <1>2, Remainder, RemainderInRing
<1>4. j \in Int /\ j >= 0 /\ j < n
  OBVIOUS
<1>5. q * n \in Int /\ q * n >= 0
  BY <1>2, <1>3, <1>4, MultipleIsFar
<1>6. j < count
  BY <1>1, <1>3, <1>4, <1>5
<1>7. k = PlaceOf(write, count, n, j)
  <2> DEFINE place == (write + m - 1) % n
  <2>1. write + m - 1 \in Int
    BY <1>1
  <2>2. PICK r \in Int : write + m - 1 = r * n + place
    BY <2>1, Remainder
  <2>3. place \in 0 .. n - 1
    BY <2>1, RemainderInRing
  <2> HIDE DEF place
  <2>4. write + count + n - 1 - j = (r + q + 1) * n + place
    <3>1. (r + q + 1) * n = r * n + q * n + n
      OBVIOUS
    <3>2. QED
      BY <1>1, <1>3, <1>4, <1>5, <2>2, <2>3, <3>1, MultipleIsFar
  <2>5. write + count + n - 1 - j \in Int /\ r + q + 1 \in Int
    BY <1>4
  <2>6. (write + count + n - 1 - j) % n = place
    BY <2>3, <2>4, <2>5, PlaceIs
  <2>7. QED
    BY <1>1, <2>6 DEF place, PlaceOf
<1>8. Max(Newer(write, count, n, k)) = count - j
  BY <1>3, <1>6, <1>7, NewestAt
<1>9. QED
  BY <1>4, <1>6, <1>8

-----------------------------------------------------------------------------
(* PointTrail                                                              *)

(* The point that arrived j points before the newest one is j places       *)
(* before the next to be written.                                          *)
InPlace(t, total) ==
  \A j \in 0 .. t.valid - 1 :
    t.points[(t.write + t.capacity - 1 - j) % t.capacity] = total - j

IsBuffer(t) ==
  t = [rate |-> t.rate, capacity |-> t.capacity, points |-> t.points, write |-> t.write,
       valid |-> t.valid, unsupported |-> t.unsupported]

TrailInv ==
  /\ TrailTypeOK /\ IsBuffer(trail)
  /\ trail.capacity > 0 =>
       /\ trail.rate \in PointRates
       /\ trail.capacity = TrailCapacity(trail.rate)
       /\ trail.valid = Fewer(arrived - emptied, trail.capacity)
       /\ InPlace(trail, arrived)

-----------------------------------------------------------------------------
(* A packet of points                                                      *)

(* A buffer that holds the newest of so many points.                       *)
Holds(t, total) ==
  /\ IsBuffer(t) /\ t.capacity \in Nat \ {0}
  /\ t.points \in [0 .. t.capacity - 1 -> Nat]
  /\ t.write \in 0 .. t.capacity - 1 /\ t.valid \in 0 .. t.capacity
  /\ InPlace(t, total)

(* What becomes of the fields.                                             *)
LEMMA Fields ==
  ASSUME NEW t, Holds(t, arrived), NEW count \in Nat \ {0}, arrived \in Nat
  PROVE  /\ IsBuffer(WithPoints(t, count))
         /\ WithPoints(t, count).rate = t.rate
         /\ WithPoints(t, count).unsupported = t.unsupported
         /\ WithPoints(t, count).capacity = t.capacity
         /\ WithPoints(t, count).write = (t.write + count) % t.capacity
         /\ WithPoints(t, count).valid = Fewer(t.valid + count, t.capacity)
         /\ WithPoints(t, count).points =
              [k \in 0 .. t.capacity - 1 |->
                IF Newer(t.write, count, t.capacity, k) = {} THEN t.points[k]
                ELSE arrived + Max(Newer(t.write, count, t.capacity, k))]
<1> DEFINE u == WithPoints(t, count)
           newer(k) == Newer(t.write, count, t.capacity, k)
           points == [k \in DOMAIN t.points |->
                       IF newer(k) = {} THEN t.points[k] ELSE arrived + Max(newer(k))]
<1>1. u = [t EXCEPT !.points = points, !.write = (t.write + count) % t.capacity,
                    !.valid = Fewer(t.valid + count, t.capacity)]
  BY Zenon DEF WithPoints
<1>2. DOMAIN t.points = 0 .. t.capacity - 1
  BY DEF Holds
<1>3. points = [k \in 0 .. t.capacity - 1 |->
                 IF newer(k) = {} THEN t.points[k] ELSE arrived + Max(newer(k))]
  BY <1>2
<1> HIDE DEF points
<1>4. /\ IsBuffer(u) /\ u.rate = t.rate /\ u.unsupported = t.unsupported
      /\ u.capacity = t.capacity /\ u.write = (t.write + count) % t.capacity
      /\ u.valid = Fewer(t.valid + count, t.capacity) /\ u.points = points
  <2> HIDE DEF u
  <2>1. t = [rate |-> t.rate, capacity |-> t.capacity, points |-> t.points, write |-> t.write,
             valid |-> t.valid, unsupported |-> t.unsupported]
    BY DEF Holds, IsBuffer
  <2>2. QED
    BY <1>1, <2>1 DEF IsBuffer
<1>5. QED
  BY <1>3, <1>4

(* Points written after the newest, however many, leave the newest ones    *)
(* where they are looked for.                                              *)
LEMMA PointsStayInPlace ==
  ASSUME NEW t, Holds(t, arrived), NEW count \in Nat \ {0}, arrived \in Nat
  PROVE  Holds(WithPoints(t, count), arrived + count)
<1> DEFINE u == WithPoints(t, count)
           n == t.capacity
<1>1. /\ n \in Nat \ {0} /\ t.write \in 0 .. n - 1 /\ t.valid \in 0 .. n
      /\ t.points \in [0 .. n - 1 -> Nat]
  BY DEF Holds
<1>2. /\ IsBuffer(u) /\ u.capacity = n /\ u.write = (t.write + count) % n
      /\ u.valid = Fewer(t.valid + count, n)
      /\ u.points = [k \in 0 .. n - 1 |->
           IF Newer(t.write, count, n, k) = {} THEN t.points[k]
           ELSE arrived + Max(Newer(t.write, count, n, k))]
  BY Fields
<1> HIDE DEF u, n
<1>3. u.write \in 0 .. n - 1
  <2>1. t.write + count \in Int
    BY <1>1
  <2>2. QED
    BY <1>1, <1>2, <2>1, RemainderInRing
<1>4. u.valid \in 0 .. n /\ u.valid <= t.valid + count
  BY <1>1, <1>2 DEF Fewer
<1>5. ASSUME NEW j \in 0 .. u.valid - 1
      PROVE  u.points[(u.write + n - 1 - j) % n] = (arrived + count) - j
  <2> DEFINE k == PlaceOf(t.write, count, n, j)
  <2>1. j \in 0 .. n - 1 /\ j \in Int
    BY <1>1, <1>4, <1>5
  <2>2. (u.write + n - 1 - j) % n = k
    <3>1. t.write + count \in Int /\ n - 1 - j \in Int
      BY <1>1, <2>1
    <3>2. (((t.write + count) % n) + (n - 1 - j)) % n = ((t.write + count) + (n - 1 - j)) % n
      BY <1>1, <3>1, MovedPlace
    <3>3. /\ u.write + (n - 1 - j) = u.write + n - 1 - j
          /\ (t.write + count) + (n - 1 - j) = t.write + count + n - 1 - j
      BY <1>1, <1>3, <2>1
    <3>4. QED
      BY <1>2, <3>2, <3>3 DEF PlaceOf
  <2>3. k \in 0 .. n - 1
    <3>1. t.write + count + n - 1 - j \in Int
      BY <1>1, <2>1
    <3>2. QED
      BY <1>1, <3>1, RemainderInRing DEF PlaceOf
  <2> HIDE DEF k
  <2>4. /\ j < count => /\ Newer(t.write, count, n, k) # {}
                        /\ Max(Newer(t.write, count, n, k)) = count - j
        /\ j >= count => Newer(t.write, count, n, k) = {}
    BY <1>1, <2>1, NewestAt DEF k
  <2>5. CASE j < count
    BY <1>2, <2>1, <2>2, <2>3, <2>4, <2>5
  <2>6. CASE j >= count
    <3>1. j - count \in 0 .. t.valid - 1
      BY <1>1, <1>4, <1>5, <2>6
    <3>2. t.points[(t.write + n - 1 - (j - count)) % n] = arrived - (j - count)
      BY <3>1 DEF Holds, InPlace, n
    <3>3. t.write + n - 1 - (j - count) = t.write + count + n - 1 - j
      BY <1>1, <2>1
    <3>4. u.points[k] = t.points[k]
      BY <1>2, <2>3, <2>4, <2>6
    <3>5. QED
      BY <2>1, <2>2, <3>2, <3>3, <3>4 DEF k, PlaceOf
  <2>7. QED
    BY <2>1, <2>5, <2>6
<1>6. u.points \in [0 .. n - 1 -> Nat]
  <2>1. ASSUME NEW k \in 0 .. n - 1 PROVE u.points[k] \in Nat
    <3>1. CASE Newer(t.write, count, n, k) = {}
      BY <1>1, <1>2, <3>1
    <3>2. CASE Newer(t.write, count, n, k) # {}
      <4>1. Max(Newer(t.write, count, n, k)) \in Nat
        BY <1>1, <3>2, NewestIsOne
      <4>2. QED
        BY <1>2, <3>2, <4>1
    <3>3. QED
      BY <3>1, <3>2
  <2>2. QED
    BY <1>2, <2>1
<1>7. InPlace(u, arrived + count)
  BY <1>2, <1>5 DEF InPlace
<1>8. QED
  BY <1>1, <1>2, <1>3, <1>4, <1>6, <1>7 DEF Holds, u

-----------------------------------------------------------------------------
(* A trail is drawn as a line: it has room for two points.                 *)
LEMMA CapacityIsTwo ==
  ASSUME NEW rate \in PointRates
  PROVE  TrailCapacity(rate) \in 2 .. MaxTrail
<1>1. rate \in Nat /\ TrailsPerSecond \in Nat \ {0} /\ MaxTrail \in Nat /\ MaxTrail >= 2
  BY TrailAssumption
<1>2. (rate + TrailsPerSecond - 1) \div TrailsPerSecond \in Int
  BY <1>1
<1>3. QED
  BY <1>1, <1>2 DEF TrailCapacity

(* The buffer ensure_point_buffer provides holds what the one before held, *)
(* or nothing.                                                             *)
LEMMA EnsuredIsReady ==
  ASSUME TrailInv, NEW rate \in PointRates
  PROVE  /\ Holds(EnsuredTrail(rate), arrived)
         /\ EnsuredTrail(rate).rate = rate /\ ~EnsuredTrail(rate).unsupported
         /\ EnsuredTrail(rate).capacity = TrailCapacity(rate)
         /\ EnsuredTrail(rate).valid = IF FitsTrail(rate) THEN trail.valid ELSE 0
<1>1. TrailCapacity(rate) \in 2 .. MaxTrail /\ MaxTrail \in Nat
  BY CapacityIsTwo, TrailAssumption
<1>2. CASE FitsTrail(rate)
  <2> DEFINE t == EnsuredTrail(rate)
  <2>1. t = [trail EXCEPT !.rate = rate] /\ trail.capacity = TrailCapacity(rate)
    BY <1>2 DEF EnsuredTrail, FitsTrail
  <2> HIDE DEF t
  <2>2. /\ trail = [rate |-> trail.rate, capacity |-> trail.capacity, points |-> trail.points,
                    write |-> trail.write, valid |-> trail.valid,
                    unsupported |-> trail.unsupported]
        /\ trail.capacity > 0
    BY <1>1, <2>1 DEF TrailInv, IsBuffer
  <2>3. /\ IsBuffer(t) /\ t.rate = rate /\ t.capacity = trail.capacity
        /\ t.points = trail.points /\ t.write = trail.write /\ t.valid = trail.valid
        /\ t.unsupported = trail.unsupported
    BY <2>1, <2>2 DEF IsBuffer
  <2>4. /\ trail.points \in [0 .. trail.capacity - 1 -> Nat] /\ trail.capacity \in Nat \ {0}
        /\ trail.write \in 0 .. trail.capacity - 1 /\ trail.valid \in 0 .. trail.capacity
        /\ ~trail.unsupported
    BY <1>1, <2>1, <2>2 DEF TrailInv, TrailTypeOK
  <2>5. InPlace(t, arrived)
    BY <2>2, <2>3 DEF TrailInv, InPlace
  <2>6. QED
    BY <1>2, <2>1, <2>3, <2>4, <2>5 DEF Holds, t
<1>3. CASE ~FitsTrail(rate)
  <2> DEFINE n == TrailCapacity(rate)
             t == [rate |-> rate, capacity |-> n, points |-> [k \in 0 .. n - 1 |-> 0],
                   write |-> 0, valid |-> 0, unsupported |-> FALSE]
  <2>1. EnsuredTrail(rate) = t
    BY <1>3 DEF EnsuredTrail, ClearedTrail
  <2>2. IsBuffer(t) /\ InPlace(t, arrived)
    BY DEF IsBuffer, InPlace
  <2>3. n \in Nat \ {0} /\ 0 \in 0 .. n - 1 /\ 0 \in 0 .. n
    BY <1>1
  <2>4. [k \in 0 .. n - 1 |-> 0] \in [0 .. n - 1 -> Nat]
    OBVIOUS
  <2> HIDE DEF n
  <2>5. Holds(t, arrived)
    BY <2>2, <2>3, <2>4 DEF Holds
  <2>6. QED
    BY <1>3, <2>1, <2>5 DEF n
<1>4. QED
  BY <1>2, <1>3

-----------------------------------------------------------------------------
(* There is no buffer yet.                                                 *)
LEMMA InitTrail == TrailInit => TrailInv
BY TrailAssumption DEF TrailInit, TrailInv, TrailTypeOK, ClearedTrail, IsBuffer

(* A packet goes to the buffer there is, or to a new one if the rate asks  *)
(* for another.                                                            *)
LEMMA ReceiveKeepsTrail ==
  ASSUME TrailInv, NEW rate \in PointRates, NEW count \in 1 .. MaxPointSamples,
         ReceivePoints(rate, count)
  PROVE  TrailInv'
<1>1. count \in Nat \ {0} /\ arrived \in Nat /\ emptied \in 0 .. arrived
  BY TrailAssumption DEF TrailInv, TrailTypeOK
<1> DEFINE t == EnsuredTrail(rate)
<1>2. /\ Holds(t, arrived) /\ t.rate = rate /\ ~t.unsupported
      /\ t.capacity = TrailCapacity(rate)
      /\ t.valid = IF FitsTrail(rate) THEN trail.valid ELSE 0
  BY EnsuredIsReady
<1> HIDE DEF t
<1>3. /\ trail' = WithPoints(t, count) /\ arrived' = arrived + count
      /\ emptied' = IF FitsTrail(rate) THEN emptied ELSE arrived
  BY DEF ReceivePoints, t
<1>4. /\ trail'.rate = rate /\ trail'.unsupported = t.unsupported
      /\ trail'.capacity = TrailCapacity(rate)
      /\ trail'.valid = Fewer(t.valid + count, TrailCapacity(rate))
  BY <1>1, <1>2, <1>3, Fields
<1>5. Holds(trail', arrived')
  BY <1>1, <1>2, <1>3, PointsStayInPlace
<1>6. TrailCapacity(rate) \in 2 .. MaxTrail /\ MaxTrail \in Nat
  BY CapacityIsTwo, TrailAssumption
<1>7. trail'.valid = Fewer(arrived' - emptied', trail'.capacity)
  <2>1. CASE FitsTrail(rate)
    <3>1. trail.valid = Fewer(arrived - emptied, TrailCapacity(rate))
      BY <1>6, <2>1 DEF TrailInv, FitsTrail
    <3>2. QED
      BY <1>1, <1>2, <1>3, <1>4, <1>6, <2>1, <3>1 DEF Fewer
  <2>2. CASE ~FitsTrail(rate)
    BY <1>1, <1>2, <1>3, <1>4, <1>6, <2>2 DEF Fewer
  <2>3. QED
    BY <2>1, <2>2
<1>8. TrailTypeOK'
  <2>1. arrived' \in Nat /\ emptied' \in 0 .. arrived'
    BY <1>1, <1>3
  <2>2. /\ trail'.capacity \in 2 .. MaxTrail /\ trail'.rate \in PointRates
        /\ ~trail'.unsupported
    BY <1>2, <1>4, <1>6
  <2>3. QED
    BY <1>5, <2>1, <2>2 DEF TrailTypeOK, Holds
<1>9. IsBuffer(trail)' /\ InPlace(trail, arrived)'
  BY <1>5 DEF Holds, IsBuffer, InPlace
<1>10. trail'.rate \in PointRates /\ trail'.capacity = TrailCapacity(trail'.rate)
  BY <1>4
<1>11. QED
  BY <1>7, <1>8, <1>9, <1>10 DEF TrailInv, TrailCapacity, Fewer

(* A stream without memory has no buffer, and so nothing to be wrong.      *)
LEMMA NextTrail == TrailInv /\ [TrailNext]_trailVars => TrailInv'
<1> SUFFICES ASSUME TrailInv, [TrailNext]_trailVars PROVE TrailInv'
  OBVIOUS
<1>1. ASSUME NEW rate \in PointRates, RejectTrail(rate) PROVE TrailInv'
  <2>1. trail' = [rate |-> rate, capacity |-> 0, points |-> <<>>, write |-> 0, valid |-> 0,
                  unsupported |-> TRUE]
    BY <1>1 DEF RejectTrail, ClearedTrail
  <2>2. emptied' = arrived /\ arrived' = arrived /\ arrived \in Nat
    BY <1>1 DEF RejectTrail, TrailInv, TrailTypeOK
  <2>3. IsBuffer(trail)' /\ TrailTypeOK'
    BY <1>1, <2>1, <2>2 DEF IsBuffer, TrailTypeOK
  <2>4. QED
    BY <2>1, <2>3 DEF TrailInv
<1>2. CASE UNCHANGED trailVars
  BY <1>2 DEF trailVars, TrailInv, TrailTypeOK, IsBuffer, InPlace
<1>3. QED
  BY <1>1, <1>2, ReceiveKeepsTrail DEF TrailNext

-----------------------------------------------------------------------------
(* What is drawn is a walk along the ring.                                 *)
LEMMA DrawnIsNewest == TrailInv => TrailIsNewest
<1> SUFFICES ASSUME TrailInv, trail.capacity > 0
             PROVE  LET n == Fewer(arrived - emptied, TrailCapacity(trail.rate))
                    IN DrawnTrail = [i \in 1 .. n |-> arrived - n + i]
  BY DEF TrailIsNewest
<1> DEFINE n == trail.valid
           cap == trail.capacity
<1>1. /\ n = Fewer(arrived - emptied, TrailCapacity(trail.rate))
      /\ cap \in Nat \ {0} /\ n \in 0 .. cap /\ trail.write \in 0 .. cap - 1 /\ arrived \in Nat
  BY DEF TrailInv, TrailTypeOK
<1>2. ASSUME NEW i \in 1 .. n
      PROVE  trail.points[(FirstPoint + i - 1) % cap] = arrived - n + i
  <2>1. n - i \in 0 .. n - 1
    BY <1>1
  <2>2. trail.points[(trail.write + cap - 1 - (n - i)) % cap] = arrived - (n - i)
    BY <2>1 DEF TrailInv, InPlace
  <2>3. FirstPoint = (trail.write + cap - n) % cap
    BY DEF FirstPoint
  <2>4. trail.write + cap - n \in Int /\ i - 1 \in Int
    BY <1>1
  <2>5. (((trail.write + cap - n) % cap) + (i - 1)) % cap = ((trail.write + cap - n) + (i - 1)) % cap
    BY <1>1, <2>4, MovedPlace
  <2>6. FirstPoint \in Int
    BY <1>1, <2>3, <2>4, RemainderInRing
  <2>7. /\ FirstPoint + i - 1 = FirstPoint + (i - 1)
        /\ (trail.write + cap - n) + (i - 1) = trail.write + cap - 1 - (n - i)
        /\ arrived - (n - i) = arrived - n + i
    BY <1>1, <2>6
  <2>8. QED
    BY <2>2, <2>3, <2>5, <2>7
<1>3. DrawnTrail = [i \in 1 .. n |-> trail.points[(FirstPoint + i - 1) % cap]]
  BY DEF DrawnTrail
<1> HIDE DEF n, cap
<1>4. QED
  BY <1>1, <1>2, <1>3

(* Whatever notes with whatever control rates take the stream over, the    *)
(* trail is the newest points in their order.                              *)
THEOREM TrailIsAlwaysNewest == TrailSpec => []TrailIsNewest
BY InitTrail, NextTrail, DrawnIsNewest, PTL DEF TrailSpec

(* The fields of the buffer stay in their ranges, whatever packets come in *)
(* whatever order.                                                         *)
THEOREM TrailTypeCorrect == TrailSpec => []TrailTypeOK
<1>1. TrailInv => TrailTypeOK
  BY DEF TrailInv
<1>2. QED
  BY <1>1, InitTrail, NextTrail, PTL DEF TrailSpec

-----------------------------------------------------------------------------
(* ScopeTimeline: the ring of a stream                                     *)

Cells == 0 .. MaxNow \cup {Zero}
Rings ==
  [state : {"none", "ready", "unsupported"}, buffer : [RingIndices -> Cells],
   writeIndex : RingIndices, total : 0 .. MaxNow, valid : 0 .. Capacity,
   hasSequence : BOOLEAN, next : 0 .. MaxNow]

(* A ring that ends before sample end: the sample j before the last one is *)
(* j places before the next to be written, or was lost. What is written    *)
(* after a long gap is put where total says.                               *)
IsRing(s, end) ==
  /\ s \in Rings
  /\ s.writeIndex = s.total % Capacity
  /\ s.valid = LeastIn(s.total, Capacity)
  /\ s.total <= end
  /\ \A j \in 0 .. s.valid - 1 :
       s.buffer[(s.writeIndex + Capacity - 1 - j) % Capacity] \in {end - 1 - j, Zero}

(* The capacity, of which the proofs need no more than this.               *)
LEMMA CapacityIs ==
  /\ Capacity \in Nat \ {0} /\ Capacity >= WindowSamples + Latency + MaxSamples
  /\ WindowSamples \in Nat \ {0} /\ Latency \in Nat /\ MaxSamples \in Nat \ {0} /\ MaxNow \in Nat
BY ScopeAssumption DEF Capacity

(* Samples that follow the end of the ring, or zeros in their place        *)
LEMMA AppendedIsRing ==
  ASSUME NEW end \in Nat, NEW s, IsRing(s, end), NEW count \in Nat \ {0},
         end + count <= MaxNow,
         NEW samples \in Seq(Cells), Len(samples) = count,
         \A n \in 1 .. count : samples[n] \in {end + n - 1, Zero}
  PROVE  /\ IsRing(AppendedValue(s, samples), end + count)
         /\ AppendedValue(s, samples).state = s.state
         /\ AppendedValue(s, samples).hasSequence = s.hasSequence
<1> DEFINE u == AppendedValue(s, samples)
           cap == Capacity
           w == s.writeIndex
           newer(k) == Newer(w, count, cap, k)
           buffer == [k \in RingIndices |->
                       IF newer(k) = {} THEN s.buffer[k] ELSE samples[Max(newer(k))]]
<1>1. /\ cap \in Nat \ {0} /\ RingIndices = 0 .. cap - 1 /\ w \in 0 .. cap - 1
      /\ s.total \in Nat /\ s.total <= end /\ s.valid = LeastIn(s.total, cap)
      /\ s.buffer \in [RingIndices -> Cells] /\ MaxNow \in Nat
  BY CapacityIs DEF IsRing, Rings, RingIndices
<1>2. u = [s EXCEPT !.buffer = buffer, !.writeIndex = (w + count) % cap,
                    !.total = s.total + count, !.valid = LeastIn(s.valid + count, cap)]
  BY DEF AppendedValue, Newer
<1>3. ASSUME NEW k \in RingIndices
      PROVE  buffer[k] \in Cells
  <2>1. CASE newer(k) = {}
    BY <1>1, <2>1
  <2>2. CASE newer(k) # {}
    <3>1. Max(newer(k)) \in 1 .. count
      BY <1>1, <2>2, NewestIsOne
    <3>2. QED
      BY <2>2, <3>1
  <2>3. QED
    BY <2>1, <2>2
<1>4. buffer \in [RingIndices -> Cells]
  BY <1>3
<1>5. w + count \in Int /\ (w + count) % cap \in 0 .. cap - 1
  <2>1. w + count \in Int
    BY <1>1
  <2> HIDE DEF w, cap
  <2>2. QED
    BY <1>1, <2>1, RemainderInRing
<1>6. /\ LeastIn(s.valid + count, cap) = LeastIn(s.total + count, cap)
      /\ LeastIn(s.valid + count, cap) \in 0 .. cap
      /\ LeastIn(s.valid + count, cap) <= s.valid + count
      /\ s.total + count \in 0 .. MaxNow /\ s.total + count <= end + count
  BY <1>1 DEF LeastIn
<1>7. (w + count) % cap = (s.total + count) % cap
  <2>1. w = s.total % cap /\ s.total \in Int
    BY <1>1 DEF IsRing
  <2> HIDE DEF w, cap
  <2>2. cap \in Nat \ {0} /\ count \in Int
    BY <1>1
  <2>3. ((s.total % cap) + count) % cap = (s.total + count) % cap
    BY <2>1, <2>2, MovedPlace
  <2>4. QED
    BY <2>1, <2>3
<1> HIDE DEF buffer, u, cap, w, newer
<1>8. /\ u \in Rings /\ u.buffer = buffer /\ u.writeIndex = (w + count) % cap
      /\ u.total = s.total + count /\ u.valid = LeastIn(s.valid + count, cap)
      /\ u.state = s.state /\ u.hasSequence = s.hasSequence
  BY <1>1, <1>2, <1>4, <1>5, <1>6 DEF IsRing, Rings, cap
<1>9. ASSUME NEW j \in 0 .. u.valid - 1
      PROVE  u.buffer[(u.writeIndex + cap - 1 - j) % cap] \in {(end + count) - 1 - j, Zero}
  <2> DEFINE k == PlaceOf(w, count, cap, j)
  <2>1. j \in 0 .. cap - 1 /\ j \in Int
    BY <1>1, <1>6, <1>8, <1>9
  <2>2. (u.writeIndex + cap - 1 - j) % cap = k
    <3>1. w + count \in Int /\ cap - 1 - j \in Int
      BY <1>1, <2>1
    <3>2. (((w + count) % cap) + (cap - 1 - j)) % cap = ((w + count) + (cap - 1 - j)) % cap
      BY <1>1, <3>1, MovedPlace
    <3>3. /\ u.writeIndex + (cap - 1 - j) = u.writeIndex + cap - 1 - j
          /\ (w + count) + (cap - 1 - j) = w + count + cap - 1 - j
      BY <1>1, <1>5, <1>8, <2>1
    <3>4. QED
      BY <1>8, <3>2, <3>3 DEF PlaceOf
  <2>3. k \in RingIndices
    <3>1. w + count + cap - 1 - j \in Int
      BY <1>1, <2>1
    <3>2. QED
      BY <1>1, <3>1, RemainderInRing DEF PlaceOf
  <2> HIDE DEF k
  <2>4. /\ j < count => newer(k) # {} /\ Max(newer(k)) = count - j
        /\ j >= count => newer(k) = {}
    BY <1>1, <2>1, NewestAt DEF k, newer
  <2>5. buffer[k] = IF newer(k) = {} THEN s.buffer[k] ELSE samples[Max(newer(k))]
    BY <2>3 DEF buffer
  <2>6. CASE j < count
    <3>1. buffer[k] = samples[count - j] /\ count - j \in 1 .. count
      BY <2>1, <2>4, <2>5, <2>6
    <3>2. samples[count - j] \in {end + (count - j) - 1, Zero}
      BY <3>1
    <3>3. end + (count - j) - 1 = (end + count) - 1 - j
      BY <2>1
    <3>4. QED
      BY <1>8, <2>2, <3>1, <3>2, <3>3
  <2>7. CASE j >= count
    <3>1. j - count \in 0 .. s.valid - 1
      <4>1. s.valid \in Nat /\ j \in Nat /\ j <= u.valid - 1
        BY <1>1, <1>6, <1>8 DEF LeastIn
      <4>2. QED
        BY <1>6, <1>8, <2>7, <4>1
    <3>2. s.buffer[(w + cap - 1 - (j - count)) % cap] \in {end - 1 - (j - count), Zero}
      BY <3>1 DEF IsRing, w, cap
    <3>3. /\ w + cap - 1 - (j - count) = w + count + cap - 1 - j
          /\ end - 1 - (j - count) = (end + count) - 1 - j
      BY <1>1, <2>1
    <3>4. buffer[k] = s.buffer[k]
      BY <2>4, <2>5, <2>7
    <3>5. QED
      BY <1>8, <2>2, <3>2, <3>3, <3>4 DEF k, PlaceOf
  <2>8. QED
    BY <2>1, <2>6, <2>7
<1>10. IsRing(u, end + count)
  BY <1>6, <1>7, <1>8, <1>9 DEF IsRing, cap
<1>11. QED
  BY <1>8, <1>10 DEF u

(* A gap is so many zeros, also one that is longer than the ring.          *)
LEMMA GapIsRing ==
  ASSUME NEW end \in Nat, NEW s, IsRing(s, end), NEW gap \in Nat \ {0}, end + gap <= MaxNow
  PROVE  /\ IsRing(WithGap(s, gap), end + gap)
         /\ WithGap(s, gap).state = s.state /\ WithGap(s, gap).hasSequence = s.hasSequence
<1>1. CASE gap >= Capacity
  <2> DEFINE u == WithGap(s, gap)
             cleared == [k \in RingIndices |-> Zero]
  <2>1. u = [s EXCEPT !.buffer = cleared, !.total = s.total + gap,
                      !.writeIndex = (s.total + gap) % Capacity, !.valid = Capacity]
    BY <1>1 DEF WithGap
  <2>2. /\ s \in Rings /\ s.total \in Nat /\ s.total <= end /\ Capacity \in Nat \ {0}
        /\ RingIndices = 0 .. Capacity - 1
    BY CapacityIs DEF IsRing, Rings, RingIndices
  <2>3. /\ cleared \in [RingIndices -> Cells] /\ s.total + gap \in 0 .. MaxNow
        /\ s.total + gap \in Int /\ s.total + gap <= end + gap
        /\ Capacity = LeastIn(s.total + gap, Capacity) /\ Capacity \in 0 .. Capacity
    BY <1>1, <2>2, CapacityIs DEF Cells, LeastIn
  <2>4. (s.total + gap) % Capacity \in RingIndices
    BY <2>2, <2>3, RemainderInRing
  <2>5. \A k \in RingIndices : cleared[k] = Zero
    OBVIOUS
  <2> HIDE DEF cleared, u
  <2>6. /\ u \in Rings /\ u.buffer = cleared /\ u.total = s.total + gap
        /\ u.writeIndex = (s.total + gap) % Capacity /\ u.valid = Capacity
        /\ u.state = s.state /\ u.hasSequence = s.hasSequence
    BY <2>1, <2>2, <2>3, <2>4 DEF Rings
  <2>7. ASSUME NEW j \in 0 .. u.valid - 1
        PROVE  u.buffer[(u.writeIndex + Capacity - 1 - j) % Capacity] = Zero
    <3>1. u.writeIndex + Capacity - 1 - j \in Int
      BY <2>2, <2>4, <2>6
    <3>2. (u.writeIndex + Capacity - 1 - j) % Capacity \in RingIndices
      BY <2>2, <3>1, RemainderInRing
    <3>3. QED
      BY <2>5, <2>6, <3>2
  <2>8. IsRing(u, end + gap)
    BY <2>3, <2>6, <2>7 DEF IsRing
  <2>9. QED
    BY <2>6, <2>8 DEF u
<1>2. CASE ~(gap >= Capacity)
  <2> DEFINE samples == [n \in 1 .. gap |-> Zero]
  <2>1. samples \in Seq(Cells) /\ Len(samples) = gap /\ \A n \in 1 .. gap : samples[n] = Zero
    BY DEF Cells
  <2>2. WithGap(s, gap) = AppendedValue(s, samples)
    BY <1>2 DEF WithGap
  <2> HIDE DEF samples
  <2>3. QED
    BY <2>1, <2>2, AppendedIsRing
<1>3. QED
  BY <1>1, <1>2

(* The ring of a stream, filled with samples before limit                  *)
StreamOK(s, limit) ==
  /\ IsRing(s, s.next) /\ s.next <= limit
  /\ ~s.hasSequence => s.total = 0

(* What a packet or a repetition does to the ring                          *)
LEMMA ReceivedIsRing ==
  ASSUME NEW limit \in 0 .. MaxNow, NEW s, StreamOK(s, limit),
         NEW sequence \in Nat, NEW count \in Nat \ {0}, sequence + count <= limit
  PROVE  StreamOK(ReceivedPacket(s, sequence, count), limit)
<1> DEFINE ready == [s EXCEPT !.state = "ready"]
           seen == IF ready.hasSequence THEN ready
                   ELSE [ready EXCEPT !.next = sequence, !.hasSequence = TRUE]
           first == FirstNew(seen, sequence)
<1>1. CASE s.state = "unsupported"
  BY <1>1 DEF ReceivedPacket
<1>2. CASE s.state # "unsupported"
  <2>1. s \in Rings /\ limit \in Nat /\ limit <= MaxNow /\ MaxNow \in Nat
    BY CapacityIs DEF StreamOK, IsRing
  <2>2. ready \in Rings /\ IsRing(ready, ready.next) /\ ready.next <= limit
        /\ (~ready.hasSequence => ready.total = 0)
    BY <2>1 DEF Rings, StreamOK, IsRing
  <2> HIDE DEF ready
  <2>3. StreamOK(seen, limit) /\ seen.hasSequence /\ seen.next \in Nat
    <3>1. CASE ready.hasSequence
      BY <2>2, <3>1 DEF StreamOK, Rings
    <3>2. CASE ~ready.hasSequence
      <4> DEFINE v == [ready EXCEPT !.next = sequence, !.hasSequence = TRUE]
      <4>1. /\ v \in Rings /\ v.total = 0 /\ v.writeIndex = ready.writeIndex
            /\ v.valid = ready.valid /\ v.next = sequence /\ v.hasSequence
            /\ v.buffer = ready.buffer
        <5>1. sequence \in 0 .. MaxNow
          BY <2>1
        <5>2. QED
          BY <2>2, <3>2, <5>1 DEF Rings
      <4> HIDE DEF v
      <4>2. v.valid = 0 /\ v.writeIndex = v.total % Capacity
        BY <2>2, <3>2, <4>1, CapacityIs DEF IsRing, LeastIn
      <4>3. IsRing(v, v.next)
        BY <2>2, <4>1, <4>2, CapacityIs DEF IsRing, LeastIn
      <4>4. sequence <= limit
        BY <2>1
      <4>5. QED
        BY <3>2, <4>1, <4>3, <4>4 DEF StreamOK, v
    <3>3. QED
      BY <3>1, <3>2
  <2>4. ReceivedPacket(s, sequence, count) =
          IF first >= sequence + count THEN seen
          ELSE [AppendedValue(FilledGap(seen, sequence),
                              [n \in 1 .. sequence + count - first |-> first + n - 1])
                  EXCEPT !.next = sequence + count]
    BY <1>2 DEF ReceivedPacket, WithSamples, ready
  <2> HIDE DEF seen
  <2>5. CASE first >= sequence + count
    BY <2>3, <2>4, <2>5
  <2>6. CASE ~(first >= sequence + count)
    <3> DEFINE filled == FilledGap(seen, sequence)
               new == sequence + count - first
               samples == [n \in 1 .. new |-> first + n - 1]
               v == AppendedValue(filled, samples)
               u == [v EXCEPT !.next = sequence + count]
    <3>1. first \in Nat /\ new \in Nat \ {0} /\ first + new = sequence + count
      BY <2>3, <2>6 DEF FirstNew
    <3>2. IsRing(filled, first) /\ filled.hasSequence
      <4>1. CASE sequence > seen.next
        <5>1. filled = WithGap(seen, sequence - seen.next) /\ first = sequence
          BY <2>3, <4>1 DEF FilledGap, FirstNew
        <5>2. /\ sequence - seen.next \in Nat \ {0}
              /\ seen.next + (sequence - seen.next) = sequence /\ sequence <= MaxNow
          BY <2>1, <2>3, <4>1
        <5> HIDE DEF filled, first
        <5>3. QED
          BY <2>3, <5>1, <5>2, GapIsRing DEF StreamOK
      <4>2. CASE ~(sequence > seen.next)
        BY <2>3, <4>2 DEF FilledGap, FirstNew, StreamOK
      <4>3. QED
        BY <4>1, <4>2
    <3> HIDE DEF filled, first, new
    <3>3. /\ samples \in Seq(Cells) /\ Len(samples) = new
          /\ \A n \in 1 .. new : samples[n] \in {first + n - 1, Zero}
      <4>1. \A n \in 1 .. new : first + n - 1 \in Cells
        BY <2>1, <3>1 DEF Cells
      <4>2. QED
        BY <3>1, <4>1
    <3> HIDE DEF samples
    <3>4. IsRing(v, sequence + count) /\ v.hasSequence
      BY <2>1, <3>1, <3>2, <3>3, AppendedIsRing
    <3> HIDE DEF v
    <3>5. /\ u \in Rings /\ u.next = sequence + count /\ u.hasSequence
          /\ u.total = v.total /\ u.valid = v.valid /\ u.writeIndex = v.writeIndex
          /\ u.buffer = v.buffer
      BY <2>1, <3>4 DEF IsRing, Rings
    <3> HIDE DEF u
    <3>6. IsRing(u, u.next)
      BY <3>4, <3>5 DEF IsRing
    <3>7. StreamOK(u, limit)
      BY <3>5, <3>6 DEF StreamOK
    <3>8. ReceivedPacket(s, sequence, count) = u
      BY <2>4, <2>6 DEF u, v, samples, new, filled
    <3>9. QED
      BY <3>7, <3>8
  <2>7. QED
    BY <2>5, <2>6
<1>3. QED
  BY <1>1, <1>2

(* What is drawn for a time is found at its place.                         *)
LEMMA DrawnIsInPlace ==
  ASSUME NEW limit \in 0 .. MaxNow, NEW s, StreamOK(s, limit), displayEnd \in Int,
         NEW t \in DrawnTimes(s)
  PROVE  DrawnPoint(s, t) \in {t, Zero}
<1> DEFINE cap == Capacity
           count == PointCount(s)
           first == DrawnEnd(s) - count
           d == s.next - first
<1>1. /\ cap \in Nat \ {0} /\ s.writeIndex \in 0 .. cap - 1 /\ s.next \in Nat /\ s.valid \in Nat
      /\ WindowSamples \in Nat
  BY CapacityIs DEF StreamOK, IsRing, Rings, RingIndices
<1>2. DrawnEnd(s) \in Int /\ DrawnEnd(s) <= s.next
  BY <1>1 DEF DrawnEnd, LeastIn
<1>3. count \in Int /\ (count > 0 => count <= DrawnEnd(s) - Oldest(s))
  BY <1>1, <1>2 DEF PointCount, LeastIn, Oldest
<1>4. t \in Int /\ first <= t /\ t <= DrawnEnd(s) - 1 /\ first \in Int /\ d \in Int
  BY <1>1, <1>2, <1>3 DEF DrawnTimes
<1>5. count > 0
  BY <1>2, <1>3, <1>4
<1>6. s.next - 1 - t \in 0 .. s.valid - 1
  BY <1>1, <1>2, <1>3, <1>4, <1>5 DEF Oldest
<1>7. s.buffer[(s.writeIndex + cap - 1 - (s.next - 1 - t)) % cap]
        \in {s.next - 1 - (s.next - 1 - t), Zero}
  BY <1>6 DEF StreamOK, IsRing
<1>8. s.next - 1 - (s.next - 1 - t) = t
  BY <1>1, <1>4
<1> HIDE DEF cap, d
<1>9. PICK rounds \in Int : d = rounds * cap + (d % cap)
  BY <1>1, <1>4, Remainder
<1>10. d % cap \in 0 .. cap - 1 /\ rounds * cap \in Int
  BY <1>1, <1>4, RemainderInRing, MultipleIsFar
<1> DEFINE b == s.writeIndex + cap - (d % cap)
           place == s.writeIndex + cap - 1 - (s.next - 1 - t)
<1>11. b \in Int /\ place \in Int /\ t - first \in Int /\ b % cap \in 0 .. cap - 1
  <2>1. b \in Int /\ place \in Int /\ t - first \in Int
    BY <1>1, <1>4, <1>10
  <2> HIDE DEF b
  <2>2. QED
    BY <1>1, <2>1, RemainderInRing
<1>12. b + (t - first) = place + rounds * cap
  <2> DEFINE x == d % cap
             y == rounds * cap
  <2>1. x \in Int /\ y \in Int /\ d = y + x /\ d = s.next - first
    BY <1>9, <1>10 DEF d
  <2> HIDE DEF x, y
  <2>2. s.writeIndex + cap - x + (t - first) = s.writeIndex + cap - 1 - (s.next - 1 - t) + y
    BY <1>1, <1>4, <2>1
  <2>3. QED
    BY <2>2 DEF x, y
<1>13. ((b % cap) + (t - first)) % cap = place % cap
  <2>1. ((b % cap) + (t - first)) % cap = (b + (t - first)) % cap
    BY <1>1, <1>11, MovedPlace
  <2>2. (place + rounds * cap) % cap = place % cap
    BY <1>1, <1>11, RoundsAreSame
  <2>3. QED
    BY <1>12, <2>1, <2>2
<1>14. BufferIndex(s, first) = b % cap
  BY DEF BufferIndex, cap, d
<1>15. DrawnPoint(s, t) = s.buffer[((b % cap) + t - first) % cap]
  BY <1>14 DEF DrawnPoint, cap
<1>16. (b % cap) + t - first = (b % cap) + (t - first)
  BY <1>4, <1>11
<1>17. QED
  BY <1>7, <1>8, <1>13, <1>15, <1>16

-----------------------------------------------------------------------------
(* ScopeTimeline: the streams and their clock                              *)

(* A frame draws no sample to come; when the streams keep up it does not   *)
(* fall back behind what the rings hold.                                   *)
ClockInv ==
  rendered =>
    /\ \A i \in Found : displayEnd <= scope[i].next
    /\ KeepUp => \A i \in Found : displayEnd >= scope[i].next - Latency - MaxSamples

ScopeInv ==
  /\ ScopeTypeOK /\ ClockInv
  /\ \A i \in StreamIds : StreamOK(scope[i], source[i]) /\ source[i] <= csoundTime
  /\ lastRender <= csoundTime

(* No stream has a ring and the clock has not started.                     *)
LEMMA InitScope == ScopeInit => ScopeInv
<1> SUFFICES ASSUME ScopeInit PROVE ScopeInv
  OBVIOUS
<1>1. /\ Capacity \in Nat \ {0} /\ Latency \in Nat /\ MaxNow \in Nat
      /\ RingIndices = 0 .. Capacity - 1
  BY CapacityIs DEF RingIndices
<1>2. Unallocated \in Rings
  BY <1>1 DEF Unallocated, Rings, Cells
<1>3. 0 % Capacity = 0
  <2>1. 0 = 0 * Capacity + 0 /\ 0 \in 0 .. Capacity - 1
    BY <1>1
  <2>2. QED
    BY <1>1, <2>1, PlaceIs
<1>4. StreamOK(Unallocated, 0)
  BY <1>1, <1>2, <1>3 DEF StreamOK, IsRing, Unallocated, LeastIn
<1>5. ScopeTypeOK
  <2>1. scope \in [StreamIds -> Rings]
    BY <1>2 DEF ScopeInit
  <2>2. 0 \in 0 .. MaxNow /\ 0 \in -Latency .. MaxNow
    BY <1>1
  <2>3. QED
    BY <2>1, <2>2 DEF ScopeInit, ScopeTypeOK, Rings, Cells
<1>6. QED
  BY <1>4, <1>5 DEF ScopeInit, ScopeInv, ClockInv

(* One stream changes; the last step is not a frame.                       *)
LEMMA StreamStep ==
  ASSUME ScopeInv, NEW i \in StreamIds, NEW limit \in 0 .. csoundTime, NEW s, StreamOK(s, limit),
         scope' = [scope EXCEPT ![i] = s], source' = [source EXCEPT ![i] = limit],
         playing' \subseteq StreamIds, rendered' = FALSE,
         csoundTime' = csoundTime, UNCHANGED clockVars
  PROVE  ScopeInv'
<1>1. /\ scope \in [StreamIds -> Rings] /\ source \in [StreamIds -> 0 .. MaxNow]
      /\ csoundTime \in 0 .. MaxNow /\ MaxNow \in Nat
  BY CapacityIs DEF ScopeInv, ScopeTypeOK, Rings, Cells
<1>2. s \in Rings /\ limit \in 0 .. MaxNow /\ limit <= csoundTime
  BY <1>1 DEF StreamOK, IsRing
<1>3. /\ scope' \in [StreamIds -> Rings] /\ source' \in [StreamIds -> 0 .. MaxNow]
      /\ scope'[i] = s /\ source'[i] = limit
      /\ \A j \in StreamIds : j # i => scope'[j] = scope[j] /\ source'[j] = source[j]
  BY <1>1, <1>2
<1>4. ScopeTypeOK'
  BY <1>3 DEF ScopeInv, ScopeTypeOK, Rings, Cells, clockVars
<1>5. \A j \in StreamIds : StreamOK(scope'[j], source'[j]) /\ source'[j] <= csoundTime'
  <2> SUFFICES ASSUME NEW j \in StreamIds
               PROVE  StreamOK(scope'[j], source'[j]) /\ source'[j] <= csoundTime
    OBVIOUS
  <2>1. CASE j = i
    BY <1>2, <1>3, <2>1
  <2>2. CASE j # i
    BY <1>3, <2>2 DEF ScopeInv
  <2>3. QED
    BY <2>1, <2>2
<1>6. (\A j \in StreamIds : StreamOK(scope[j], source[j]) /\ source[j] <= csoundTime)'
  BY <1>5 DEF StreamOK, IsRing
<1>7. QED
  BY <1>4, <1>6 DEF ScopeInv, ClockInv, clockVars

(* A packet, a lost, a late or a repeated one, or a stream that starts     *)
LEMMA StreamKeepsScope ==
  ASSUME ScopeInv, NEW i \in StreamIds,
         \/ StartStream(i) \/ SendScopePacket(i) \/ RejectScopeStream(i)
         \/ LoseScopePacket(i) \/ LateScopePacket(i)
  PROVE  ScopeInv'
<1>1. /\ scope \in [StreamIds -> Rings] /\ source \in [StreamIds -> 0 .. MaxNow]
      /\ csoundTime \in 0 .. MaxNow /\ MaxNow \in Nat /\ MaxSamples \in Nat
      /\ playing \subseteq StreamIds
  BY CapacityIs DEF ScopeInv, ScopeTypeOK, Rings, Cells
<1>2. /\ StreamOK(scope[i], source[i]) /\ source[i] \in 0 .. csoundTime
      /\ csoundTime \in 0 .. csoundTime
  BY <1>1 DEF ScopeInv
<1>3. StreamOK(scope[i], csoundTime) /\ scope[i] \in Rings
  BY <1>1, <1>2 DEF StreamOK, Rings
<1>4. CASE StartStream(i)
  <2>1. /\ scope' = [scope EXCEPT ![i] = scope[i]] /\ source' = [source EXCEPT ![i] = csoundTime]
        /\ playing' \subseteq StreamIds /\ rendered' = FALSE
        /\ csoundTime' = csoundTime /\ UNCHANGED clockVars
    BY <1>1, <1>4 DEF StartStream
  <2>2. QED
    BY <1>2, <1>3, <2>1, StreamStep
<1>5. CASE SendScopePacket(i)
  <2>1. /\ scope' = [scope EXCEPT ![i] = ReceivedPacket(@, source[i], Due(i))]
        /\ source' = [source EXCEPT ![i] = csoundTime] /\ Due(i) > 0
        /\ playing' \subseteq StreamIds /\ rendered' = FALSE
        /\ csoundTime' = csoundTime /\ UNCHANGED clockVars
    BY <1>1, <1>5 DEF SendScopePacket
  <2>2. Due(i) \in Nat \ {0} /\ source[i] \in Nat /\ source[i] + Due(i) <= csoundTime
    BY <1>1, <2>1 DEF Due
  <2>3. StreamOK(ReceivedPacket(scope[i], source[i], Due(i)), csoundTime)
    BY <1>1, <1>3, <2>2, ReceivedIsRing
  <2>4. QED
    BY <1>2, <2>1, <2>3, StreamStep
<1>6. CASE RejectScopeStream(i)
  <2> DEFINE s == [scope[i] EXCEPT !.state = "unsupported"]
  <2>1. /\ scope' = [scope EXCEPT ![i] = s] /\ source' = [source EXCEPT ![i] = csoundTime]
        /\ playing' \subseteq StreamIds /\ rendered' = FALSE
        /\ csoundTime' = csoundTime /\ UNCHANGED clockVars
    BY <1>1, <1>6 DEF RejectScopeStream
  <2>2. /\ s \in Rings /\ s.buffer = scope[i].buffer /\ s.writeIndex = scope[i].writeIndex
        /\ s.total = scope[i].total /\ s.valid = scope[i].valid
        /\ s.hasSequence = scope[i].hasSequence /\ s.next = scope[i].next
    BY <1>3 DEF Rings
  <2> HIDE DEF s
  <2>3. StreamOK(s, csoundTime)
    BY <1>3, <2>2 DEF StreamOK, IsRing
  <2>4. QED
    BY <1>2, <2>1, <2>3, StreamStep
<1>7. CASE LoseScopePacket(i)
  <2>1. /\ scope' = [scope EXCEPT ![i] = scope[i]] /\ source' = [source EXCEPT ![i] = csoundTime]
        /\ playing' \subseteq StreamIds /\ rendered' = FALSE
        /\ csoundTime' = csoundTime /\ UNCHANGED clockVars
    BY <1>1, <1>7 DEF LoseScopePacket
  <2>2. QED
    BY <1>2, <1>3, <2>1, StreamStep
<1>8. CASE LateScopePacket(i)
  <2>1. PICK sequence \in 0 .. source[i] - 1, count \in 1 .. MaxSamples :
          /\ sequence + count <= source[i]
          /\ scope' = [scope EXCEPT ![i] = ReceivedPacket(@, sequence, count)]
    BY <1>8 DEF LateScopePacket
  <2>2. /\ source' = [source EXCEPT ![i] = source[i]] /\ playing' \subseteq StreamIds
        /\ rendered' = FALSE /\ csoundTime' = csoundTime /\ UNCHANGED clockVars
    BY <1>1, <1>8 DEF LateScopePacket, csoundVars
  <2>3. sequence \in Nat /\ count \in Nat \ {0} /\ source[i] \in 0 .. MaxNow
    BY <1>1
  <2>4. StreamOK(ReceivedPacket(scope[i], sequence, count), source[i])
    BY <1>2, <2>1, <2>3, ReceivedIsRing
  <2>5. QED
    BY <1>2, <2>1, <2>2, <2>4, StreamStep
<1>9. QED
  BY <1>4, <1>5, <1>6, <1>7, <1>8

(* The rings as the clock sees them                                        *)
LEMMA RingsAre ==
  ASSUME ScopeInv
  PROVE  \A i \in Found : /\ i \in StreamIds /\ scope[i].next \in 0 .. MaxNow
                          /\ scope[i].valid \in 0 .. Capacity /\ scope[i].valid <= scope[i].next
<1> SUFFICES ASSUME NEW i \in Found
             PROVE  /\ i \in StreamIds /\ scope[i].next \in 0 .. MaxNow
                    /\ scope[i].valid \in 0 .. Capacity /\ scope[i].valid <= scope[i].next
  OBVIOUS
<1>1. i \in StreamIds /\ StreamOK(scope[i], source[i])
  BY DEF Found, ScopeInv
<1>2. /\ scope[i].next \in 0 .. MaxNow /\ scope[i].valid \in 0 .. Capacity
      /\ scope[i].total \in 0 .. MaxNow /\ scope[i].total <= scope[i].next
      /\ scope[i].valid = LeastIn(scope[i].total, Capacity)
  BY <1>1 DEF StreamOK, IsRing, Rings
<1>3. QED
  BY <1>1, <1>2, CapacityIs DEF LeastIn

(* Where the streams are: the slowest, with and without what is held back, *)
(* and the last of the full windows                                        *)
LEMMA LatestAre ==
  ASSUME ScopeInv, Found # {}
  PROVE  /\ LatestReceived \in 0 .. MaxNow
         /\ \A i \in Found : LatestReceived <= scope[i].next
         /\ \E i \in Found : LatestReceived = scope[i].next
         /\ LatestSafe \in -Latency .. MaxNow
         /\ \E i \in Found : LatestSafe = scope[i].next - Latency
         /\ FullWindowEnds # {} =>
              /\ Max(FullWindowEnds) \in FullWindowEnds /\ Max(FullWindowEnds) \in Int
              /\ \A end \in FullWindowEnds : end <= Max(FullWindowEnds)
<1>1. /\ \A i \in Found : /\ scope[i].next \in 0 .. MaxNow /\ scope[i].next \in Int
                          /\ scope[i].valid \in Int /\ scope[i].valid >= 0
      /\ MaxNow \in Nat /\ Latency \in Nat /\ WindowSamples \in Nat
  BY RingsAre, CapacityIs
<1>2. PICK some \in Found : TRUE
  OBVIOUS
<1>3. /\ LatestReceived \in {scope[i].next : i \in Found}
      /\ \A y \in {scope[i].next : i \in Found} : LatestReceived <= y
  <2> DEFINE S == {scope[i].next : i \in Found}
  <2>1. S \in SUBSET Int /\ S # {} /\ \A y \in S : 0 <= y
    BY <1>1, <1>2
  <2> HIDE DEF S
  <2>2. Min(S) \in S /\ \A y \in S : Min(S) <= y
    BY <2>1, LeastIs
  <2>3. QED
    BY <2>2 DEF LatestReceived, S
<1>4. LatestSafe \in {scope[i].next - Latency : i \in Found}
  <2> DEFINE S == {scope[i].next - Latency : i \in Found}
  <2>1. \A i \in Found : scope[i].next - Latency \in Int /\ -Latency <= scope[i].next - Latency
    BY <1>1
  <2>2. S \in SUBSET Int /\ S # {} /\ -Latency \in Int /\ \A y \in S : -Latency <= y
    BY <1>1, <1>2, <2>1
  <2> HIDE DEF S
  <2>3. Min(S) \in S
    BY <2>2, LeastIs
  <2>4. QED
    BY <2>3 DEF LatestSafe, S
<1>5. ASSUME FullWindowEnds # {}
      PROVE  /\ Max(FullWindowEnds) \in FullWindowEnds /\ Max(FullWindowEnds) \in Int
             /\ \A end \in FullWindowEnds : end <= Max(FullWindowEnds)
  <2>1. \A i \in Found : /\ scope[i].next - scope[i].valid + WindowSamples \in Int
                         /\ scope[i].next - scope[i].valid + WindowSamples
                              <= MaxNow + WindowSamples
    BY <1>1
  <2>2. /\ FullWindowEnds \in SUBSET Int /\ MaxNow + WindowSamples \in Int
        /\ \A end \in FullWindowEnds : end <= MaxNow + WindowSamples
    BY <1>1, <2>1 DEF FullWindowEnds
  <2>3. /\ Max(FullWindowEnds) \in FullWindowEnds
        /\ \A end \in FullWindowEnds : Max(FullWindowEnds) >= end
    BY <1>5, <2>2, GreatestIs
  <2>4. QED
    BY <2>2, <2>3
<1>6. LatestSafe \in -Latency .. MaxNow
  BY <1>1, <1>4
<1>7. QED
  BY <1>1, <1>3, <1>4, <1>5, <1>6

(* The clock after a jump is not before the last full window, if that may  *)
(* be shown, and never goes back.                                          *)
LEMMA JumpedIs ==
  ASSUME ScopeInv, Found # {}, NEW end \in Int
  PROVE  /\ Jumped(end) \in Int /\ Jumped(end) >= end
         /\ FullWindowEnds # {} /\ Max(FullWindowEnds) <= LatestSafe
              => Jumped(end) >= Max(FullWindowEnds)
BY LatestAre DEF Jumped

(* A frame moves the clock to no later than every ring ends, and no        *)
(* earlier than the oldest complete window (advance_scope_timeline).       *)
LEMMA RenderKeepsScope ==
  ASSUME ScopeInv, RenderFrame
  PROVE  ScopeInv'
<1>1. PICK elapsed \in Elapsed :
        displayEnd' = LeastIn(Jumped(IF started THEN displayEnd + elapsed ELSE LatestSafe),
                              LatestReceived)
  BY DEF RenderFrame
<1>2. /\ Found # {} /\ started' = TRUE /\ rendered' = TRUE
      /\ lastRender' = IF RealTime THEN csoundTime ELSE lastRender
      /\ UNCHANGED <<csoundTime, playing, source>> /\ scope' = scope
  BY DEF RenderFrame, csoundVars
<1>3. /\ csoundTime \in 0 .. MaxNow /\ displayEnd \in -Latency .. MaxNow
      /\ lastRender \in 0 .. MaxNow /\ lastRender <= csoundTime
      /\ MaxNow \in Nat /\ Latency \in Nat /\ MaxSamples \in Nat /\ WindowSamples \in Nat
  BY CapacityIs DEF ScopeInv, ScopeTypeOK
<1>4. elapsed \in Nat
  BY <1>3, ScopeAssumption DEF Elapsed
<1> DEFINE start == IF started THEN displayEnd + elapsed ELSE LatestSafe
<1>5. start \in Int /\ start >= -Latency
  <2>1. LatestSafe \in -Latency .. MaxNow
    BY <1>2, LatestAre
  <2>2. /\ LatestSafe \in Int /\ LatestSafe >= -Latency
        /\ displayEnd + elapsed \in Int /\ displayEnd + elapsed >= -Latency
    BY <1>3, <1>4, <2>1
  <2>3. QED
    BY <2>2
<1>6. displayEnd' = LeastIn(Jumped(start), LatestReceived)
  BY <1>1
<1> HIDE DEF start
<1>7. /\ Jumped(start) \in Int /\ Jumped(start) >= -Latency
      /\ FullWindowEnds # {} /\ Max(FullWindowEnds) <= LatestSafe
           => Jumped(start) >= Max(FullWindowEnds)
  <2>1. /\ Jumped(start) \in Int /\ Jumped(start) >= start
        /\ FullWindowEnds # {} /\ Max(FullWindowEnds) <= LatestSafe
             => Jumped(start) >= Max(FullWindowEnds)
    BY <1>2, <1>5, JumpedIs
  <2>2. QED
    BY <1>3, <1>5, <2>1
<1>8. /\ LatestReceived \in 0 .. MaxNow
      /\ \A i \in Found : LatestReceived <= scope[i].next
      /\ \E i \in Found : LatestReceived = scope[i].next
  BY <1>2, LatestAre
<1>9. displayEnd' \in -Latency .. MaxNow /\ displayEnd' <= LatestReceived
  BY <1>3, <1>6, <1>7, <1>8 DEF LeastIn
<1>10. lastRender' \in 0 .. MaxNow /\ lastRender' <= csoundTime
  BY <1>2, <1>3
<1>11. ScopeTypeOK'
  BY <1>2, <1>9, <1>10 DEF ScopeInv, ScopeTypeOK, RingIndices
<1>12. Found' = Found /\ KeepUp' = KeepUp
  BY <1>2 DEF Found, KeepUp
<1>13. \A i \in Found : displayEnd' <= scope[i].next
  <2>1. \A i \in Found : scope[i].next \in Int
    BY RingsAre
  <2>2. QED
    BY <1>3, <1>8, <1>9, <2>1
<1>14. ASSUME KeepUp, NEW i \in Found
       PROVE  displayEnd' >= scope[i].next - Latency - MaxSamples
  <2>1. /\ \A j \in Found : scope[j].next \in Int /\ scope[j].valid = Capacity
        /\ \A j, k \in Found : scope[j].next - scope[k].next <= MaxSamples
    BY <1>14, RingsAre DEF KeepUp
  <2>2. /\ Capacity = WindowSamples + Latency + MaxSamples
        /\ Capacity \in Int /\ Capacity >= WindowSamples
    BY <1>3 DEF Capacity
  <2>3. FullWindowEnds = {scope[j].next - Capacity + WindowSamples : j \in Found}
    BY <1>3, <2>1, <2>2 DEF FullWindowEnds
  <2>4. /\ scope[i].next - Capacity + WindowSamples \in FullWindowEnds
        /\ scope[i].next - Capacity + WindowSamples = scope[i].next - Latency - MaxSamples
    BY <1>3, <2>1, <2>2, <2>3
  <2>5. /\ Max(FullWindowEnds) \in FullWindowEnds /\ Max(FullWindowEnds) \in Int
        /\ scope[i].next - Latency - MaxSamples <= Max(FullWindowEnds)
    BY <1>2, <2>4, LatestAre
  <2>6. PICK j \in Found : Max(FullWindowEnds) = scope[j].next - Capacity + WindowSamples
    BY <2>3, <2>5
  <2>7. PICK k \in Found : LatestSafe = scope[k].next - Latency
    BY <1>2, LatestAre
  <2>8. Max(FullWindowEnds) <= LatestSafe
    BY <1>3, <2>1, <2>2, <2>6, <2>7
  <2>9. Jumped(start) >= scope[i].next - Latency - MaxSamples
    BY <1>3, <1>7, <2>1, <2>4, <2>5, <2>8
  <2>10. LatestReceived >= scope[i].next - Latency - MaxSamples
    BY <1>3, <1>8, <2>1
  <2>11. QED
    BY <1>6, <2>9, <2>10 DEF LeastIn
<1>15. ClockInv'
  BY <1>2, <1>12, <1>13, <1>14 DEF ClockInv
<1>16. (\A i \in StreamIds : StreamOK(scope[i], source[i]) /\ source[i] <= csoundTime)'
  BY <1>2 DEF ScopeInv, StreamOK, IsRing
<1>17. QED
  BY <1>2, <1>10, <1>11, <1>15, <1>16 DEF ScopeInv

(* Every step keeps the rings and the clock in order.                      *)
LEMMA NextScope == ScopeInv /\ [ScopeNext]_scopeVars => ScopeInv'
<1> SUFFICES ASSUME ScopeInv, [ScopeNext]_scopeVars PROVE ScopeInv'
  OBVIOUS
<1>1. ASSUME rendered' = FALSE, UNCHANGED <<source, scope, clockVars>>,
             playing' \subseteq StreamIds, csoundTime' \in 0 .. MaxNow, csoundTime <= csoundTime'
      PROVE  ScopeInv'
  <2>1. csoundTime \in 0 .. MaxNow /\ lastRender <= csoundTime /\ lastRender \in 0 .. MaxNow
    BY DEF ScopeInv, ScopeTypeOK
  <2>2. ScopeTypeOK'
    BY <1>1 DEF ScopeInv, ScopeTypeOK, RingIndices, clockVars
  <2>3. \A i \in StreamIds : source[i] <= csoundTime'
    <3>1. \A i \in StreamIds : source[i] \in 0 .. MaxNow /\ source[i] <= csoundTime
      BY DEF ScopeInv, ScopeTypeOK
    <3>2. QED
      BY <1>1, <2>1, <3>1
  <2>4. (\A i \in StreamIds : StreamOK(scope[i], source[i]) /\ source[i] <= csoundTime)'
    BY <1>1, <2>3 DEF ScopeInv, StreamOK, IsRing
  <2>5. lastRender' <= csoundTime'
    BY <1>1, <2>1 DEF clockVars
  <2>6. QED
    BY <1>1, <2>2, <2>4, <2>5 DEF ScopeInv, ClockInv
<1>2. /\ csoundTime \in 0 .. MaxNow /\ MaxNow \in Nat /\ playing \subseteq StreamIds
  BY CapacityIs DEF ScopeInv, ScopeTypeOK
<1>3. CASE PassTime
  <2>1. /\ rendered' = FALSE /\ UNCHANGED <<source, scope, clockVars>> /\ playing' = playing
        /\ csoundTime < MaxNow /\ csoundTime' = csoundTime + 1
    BY <1>3 DEF PassTime
  <2>2. csoundTime' \in 0 .. MaxNow /\ csoundTime <= csoundTime'
    BY <1>2, <2>1
  <2>3. QED
    BY <1>1, <1>2, <2>1, <2>2
<1>4. ASSUME NEW i \in StreamIds, EndStream(i) PROVE ScopeInv'
  <2>1. /\ rendered' = FALSE /\ UNCHANGED <<source, scope, clockVars>>
        /\ playing' = playing \ {i} /\ csoundTime' = csoundTime
    BY <1>4 DEF EndStream
  <2>2. csoundTime' \in 0 .. MaxNow /\ csoundTime <= csoundTime' /\ playing' \subseteq StreamIds
    BY <1>2, <2>1
  <2>3. QED
    BY <1>1, <2>1, <2>2
<1>5. CASE UNCHANGED scopeVars
  <2>1. UNCHANGED <<csoundTime, playing, source, scope, displayEnd, started, lastRender, rendered>>
    BY <1>5 DEF scopeVars, csoundVars, clockVars
  <2>2. ScopeTypeOK' /\ ClockInv'
    BY <2>1 DEF ScopeInv, ScopeTypeOK, RingIndices, ClockInv, Found, KeepUp
  <2>3. QED
    BY <2>1, <2>2 DEF ScopeInv, StreamOK, IsRing
<1>6. QED
  BY <1>3, <1>4, <1>5, StreamKeepsScope, RenderKeepsScope DEF ScopeNext

(* The invariant that the theorems about the scope rest on: every ring     *)
(* ends at the next sample it expects with its samples in their places,    *)
(* and the clock is behind all the rings and in reach of them.             *)
THEOREM ScopeIsInv == ScopeSpec => []ScopeInv
BY InitScope, NextScope, PTL DEF ScopeSpec

(* A stream with points on the screen is found by the clock.               *)
LEMMA DrawnIsFound ==
  ASSUME NEW i \in StreamIds, PointCount(scope[i]) > 0, ScopeInv
  PROVE  i \in Found
BY DEF PointCount, Found, ScopeInv, ScopeTypeOK

(* However the rings wrapped and whatever packets were lost, late or       *)
(* repeated, draw_scope_stream draws each sample at its own time or a      *)
(* zero.                                                                   *)
THEOREM PointsStandInPlace == ScopeSpec => []PointsAreInPlace
<1>1. ASSUME ScopeInv
      PROVE  PointsAreInPlace
  <2> SUFFICES ASSUME NEW i \in StreamIds, NEW t \in DrawnTimes(scope[i])
               PROVE  DrawnPoint(scope[i], t) \in {t, Zero}
    BY DEF PointsAreInPlace
  <2>1. source[i] \in 0 .. MaxNow /\ displayEnd \in Int /\ StreamOK(scope[i], source[i])
    BY <1>1, CapacityIs DEF ScopeInv, ScopeTypeOK
  <2>2. QED
    BY <2>1, DrawnIsInPlace
<1>2. QED
  BY <1>1, ScopeIsInv, PTL

(* Every stream that a frame draws ends at the time of the display clock.  *)
THEOREM StreamsStayInPhase == ScopeSpec => []StreamsInPhase
<1>1. ASSUME ScopeInv
      PROVE  StreamsInPhase
  <2> SUFFICES ASSUME rendered, NEW i \in StreamIds, PointCount(scope[i]) > 0
               PROVE  DrawnEnd(scope[i]) = displayEnd
    BY DEF StreamsInPhase
  <2>1. i \in Found
    BY <1>1, DrawnIsFound
  <2>2. displayEnd <= scope[i].next /\ displayEnd \in Int /\ scope[i].next \in Int
    BY <1>1, <2>1, RingsAre, CapacityIs DEF ScopeInv, ScopeTypeOK, ClockInv
  <2>3. QED
    BY <2>2 DEF DrawnEnd, LeastIn
<1>2. QED
  BY <1>1, ScopeIsInv, PTL

(* The capacity that ensure_scope_buffer computes is enough: streams that  *)
(* keep up to a packet all fill the window, at any size of window, packet  *)
(* and latency.                                                            *)
THEOREM FullWindowsAreDrawn == ScopeSpec => []FullWindowIsDrawn
<1>1. ASSUME ScopeInv
      PROVE  FullWindowIsDrawn
  <2> SUFFICES ASSUME rendered, KeepUp, NEW i \in Found
               PROVE  PointCount(scope[i]) = WindowSamples
    BY DEF FullWindowIsDrawn
  <2>1. /\ displayEnd <= scope[i].next /\ displayEnd >= scope[i].next - Latency - MaxSamples
        /\ displayEnd \in Int /\ scope[i].next \in Int
        /\ scope[i].valid = Capacity /\ scope[i].state = "ready"
    BY <1>1, RingsAre, CapacityIs DEF ScopeInv, ScopeTypeOK, ClockInv, KeepUp, Found
  <2>2. /\ Capacity = WindowSamples + Latency + MaxSamples
        /\ WindowSamples \in Nat \ {0} /\ Latency \in Nat /\ MaxSamples \in Nat \ {0}
    BY ScopeAssumption DEF Capacity
  <2>3. DrawnEnd(scope[i]) = displayEnd
    BY <2>1 DEF DrawnEnd, LeastIn
  <2>4. displayEnd - Oldest(scope[i]) >= WindowSamples /\ displayEnd > Oldest(scope[i])
    BY <2>1, <2>2 DEF Oldest
  <2>5. displayEnd - Oldest(scope[i]) \in Int /\ ~(displayEnd <= Oldest(scope[i]))
    BY <2>1, <2>2, <2>4 DEF Oldest
  <2>6. LeastIn(displayEnd - Oldest(scope[i]), WindowSamples) = WindowSamples
    BY <2>2, <2>4, <2>5 DEF LeastIn
  <2>7. scope[i].valid # 0
    BY <2>1, <2>2
  <2>8. QED
    BY <2>1, <2>3, <2>5, <2>6, <2>7 DEF PointCount
<1>2. QED
  BY <1>1, ScopeIsInv, PTL

(* Rings, their positions and the display clock stay in their ranges; the  *)
(* clock starts no earlier than the latency before the first sample.       *)
THEOREM ScopeTypeCorrect == ScopeSpec => []ScopeTypeOK
<1>1. ScopeInv => ScopeTypeOK
  BY DEF ScopeInv
<1>2. QED
  BY <1>1, ScopeIsInv, PTL
===============================================================================
