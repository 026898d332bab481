------------------------ MODULE TableAndMeter_proofs -------------------------
(***************************************************************************)
(* Proofs about the two graphs that show what one packet cannot tell.      *)
(*                                                                         *)
(* FtableTransfer, for every set of lengths and sample values, every size  *)
(* of a packet, every number of buckets, and packets that arrive in any    *)
(* order, repeatedly or never. MeterWindow, for every number of channels,  *)
(* every finite set of levels, every size of the queue and every length of *)
(* the hold: no level is lost or reported twice, and the marks are in      *)
(* their places and are held.                                              *)
(***************************************************************************)
EXTENDS FtableTransfer, MeterWindow, FiniteSetTheorems, NaturalsInduction, TLAPS

-----------------------------------------------------------------------------
(* FtableTransfer                                                          *)


(* The indices of the samples that have arrived.                           *)
Arrived(t) == {i \in Indices(Length) : i \div MaxStreamSamples \in t.receivedChunks}

(* value is the least, the greatest of a set of numbers.                   *)
IsLeast(value, values) == value \in values /\ \A v \in values : value <= v
IsMost(value, values) == value \in values /\ \A v \in values : v <= value

CopiedValues(indices) == {Finite(copied[i]) : i \in indices}

(* A buffer has the fields of one.                                         *)
IsTable(t) ==
  t = [allocated |-> t.allocated, unsupported |-> t.unsupported,
       assembling |-> t.assembling, samples |-> t.samples,
       receivedChunks |-> t.receivedChunks, receivedCount |-> t.receivedCount,
       minimum |-> t.minimum, maximum |-> t.maximum, hasRange |-> t.hasRange,
       envelope |-> t.envelope, displayReady |-> t.displayReady]

(* The copy, as long as there is one, and how far it was sent.             *)
CopyInv ==
  /\ Length \in Lengths /\ ftable \in Samples(Length)
  /\ copied \in Samples(Length) \cup {Gone}
  /\ snapshot # Gone =>
       /\ snapshot = copied
       /\ nextSample \in Indices(Length) /\ nextSample % MaxStreamSamples = 0

(* What a packet of the copy holds.                                        *)
IsChunk(p) ==
  /\ p.offset \in Indices(Length) /\ p.offset % MaxStreamSamples = 0
  /\ p.count = Least(Length - p.offset, MaxStreamSamples)
  /\ p.samples = [i \in p.offset .. p.offset + p.count - 1 |-> copied[i]]

ChunksInv == \A p \in sentChunks : copied # Gone /\ IsChunk(p)

(* What has arrived is in place and counted once, and so is its range.     *)
FillInv(t) ==
  /\ t.samples \in [Indices(Length) -> Values]
  /\ \A i \in Arrived(t) : t.samples[i] = Finite(copied[i])
  /\ t.receivedCount = Cardinality(Arrived(t))
  /\ t.hasRange <=> Arrived(t) # {}
  /\ t.hasRange => /\ IsLeast(t.minimum, CopiedValues(Arrived(t)))
                   /\ IsMost(t.maximum, CopiedValues(Arrived(t)))

(* What a table on display is.                                             *)
ShowInv(t) ==
  /\ copied # Gone
  /\ t.samples = [i \in Indices(Length) |-> Finite(copied[i])]
  /\ IsLeast(t.minimum, CopiedValues(Indices(Length)))
  /\ IsMost(t.maximum, CopiedValues(Indices(Length)))
  /\ t.envelope = Envelope(t.samples)

TableInv ==
  /\ IsTable(table)
  /\ table.allocated /\ table.assembling => copied # Gone /\ FillInv(table)
  /\ table.displayReady => ShowInv(table)

FtableInv == CopyInv /\ ChunksInv /\ TableInv

-----------------------------------------------------------------------------
(* Numbers                                                                 *)

(* A set of naturals has a least element.                                  *)
LEMMA LeastExists ==
  ASSUME NEW T \in SUBSET Nat, T # {}
  PROVE  \E x \in T : \A y \in T : x <= y
<1> DEFINE Less == {r \in Nat \X Nat : r[1] < r[2]}
<1>1. IsWellFoundedOn(Less, Nat)
  BY NatLessThanWellFounded DEF OpToRel
<1>2. \E x \in T : \A y \in T : <<y, x>> \notin Less
  <2> HIDE DEF Less
  <2>1. QED
    BY <1>1, WFMin
<1>3. PICK x \in T : \A y \in T : <<y, x>> \notin Less
  BY <1>2
<1>4. ASSUME NEW y \in T PROVE x <= y
  <2>1. x \in Nat /\ y \in Nat
    OBVIOUS
  <2>2. ~(y < x)
    BY <1>3, <2>1
  <2>3. QED
    BY <2>1, <2>2
<1>5. QED
  BY <1>4

(* A finite set of integers has a least and a greatest element: otherwise  *)
(* a smallest set without them would lose that by losing an element.       *)
HasBounds(S) == \E lowest, highest \in S : \A y \in S : lowest <= y /\ y <= highest

LEMMA BoundsExist ==
  ASSUME NEW S \in SUBSET Int, IsFiniteSet(S), S # {}
  PROVE  HasBounds(S)
<1> DEFINE Unbounded(n) == \E T \in SUBSET Int : /\ IsFiniteSet(T) /\ T # {}
                                                 /\ Cardinality(T) = n /\ ~HasBounds(T)
           Bad == {n \in Nat : Unbounded(n)}
<1> SUFFICES ASSUME ~HasBounds(S) PROVE FALSE
  OBVIOUS
<1>1. Cardinality(S) \in Bad
  BY FS_CardinalityType
<1>2. PICK n \in Bad : \A m \in Bad : n <= m
  <2>1. Bad \in SUBSET Nat /\ Bad # {}
    BY <1>1
  <2> HIDE DEF Bad
  <2>2. QED
    BY <2>1, LeastExists
<1>3. PICK T \in SUBSET Int : /\ IsFiniteSet(T) /\ T # {}
                              /\ Cardinality(T) = n /\ ~HasBounds(T)
  BY <1>2
<1>4. PICK x \in T : TRUE
  BY <1>3
<1> DEFINE U == T \ {x}
<1>5. /\ U \in SUBSET Int /\ IsFiniteSet(U) /\ Cardinality(U) \in Nat
      /\ Cardinality(U) = n - 1 /\ n \in Nat
  BY <1>2, <1>3, <1>4, FS_RemoveElement, FS_CardinalityType
<1>6. CASE U = {}
  <2>1. T = {x} /\ x \in Int
    BY <1>3, <1>4, <1>6
  <2>2. QED
    BY <1>3, <2>1 DEF HasBounds
<1>7. CASE U # {}
  <2>1. HasBounds(U)
    <3>1. SUFFICES ASSUME ~HasBounds(U) PROVE FALSE
      OBVIOUS
    <3>2. Cardinality(U) \in Bad
      BY <1>5, <1>7, <3>1
    <3>3. QED
      BY <1>2, <1>5, <3>2
  <2>2. PICK lowest, highest \in U : \A y \in U : lowest <= y /\ y <= highest
    BY <2>1 DEF HasBounds
  <2> DEFINE newLowest == IF x < lowest THEN x ELSE lowest
             newHighest == IF x > highest THEN x ELSE highest
  <2>3. /\ x \in Int /\ lowest \in Int /\ highest \in Int
        /\ newLowest \in T /\ newHighest \in T
    BY <1>3, <1>4, <1>5, <2>2
  <2>4. \A y \in T : newLowest <= y /\ y <= newHighest
    <3> SUFFICES ASSUME NEW y \in T PROVE newLowest <= y /\ y <= newHighest
      OBVIOUS
    <3>1. CASE y = x
      BY <2>3, <3>1
    <3>2. CASE y \in U
      BY <1>5, <2>2, <2>3, <3>2
    <3>3. QED
      BY <3>1, <3>2
  <2>5. QED
    BY <1>3, <2>3, <2>4 DEF HasBounds
<1>8. QED
  BY <1>6, <1>7

(* Min and Max of such a set are its least and its greatest element.       *)
LEMMA MinMax ==
  ASSUME NEW S \in SUBSET Int, IsFiniteSet(S), S # {}
  PROVE  IsLeast(Min(S), S) /\ IsMost(Max(S), S)
<1>1. PICK lowest, highest \in S : \A y \in S : lowest <= y /\ y <= highest
  BY BoundsExist DEF HasBounds
<1>2. \E x \in S : \A y \in S : x >= y
  BY <1>1
<1>3. QED
  BY <1>1, <1>2 DEF Min, Max, IsLeast, IsMost

(* ... and nothing else is.                                                *)
LEMMA ExtremesAreUnique ==
  ASSUME NEW S \in SUBSET Int, NEW lowest, IsLeast(lowest, S), NEW highest, IsMost(highest, S)
  PROVE  lowest = Min(S) /\ highest = Max(S)
<1>1. /\ Min(S) \in S /\ \A y \in S : Min(S) <= y
      /\ Max(S) \in S /\ \A y \in S : Max(S) >= y
  <2>1. \E x \in S : \A y \in S : x <= y
    BY DEF IsLeast
  <2>2. \E x \in S : \A y \in S : x >= y
    BY DEF IsMost
  <2>3. QED
    BY <2>1, <2>2 DEF Min, Max
<1>2. lowest \in Int /\ highest \in Int /\ Min(S) \in Int /\ Max(S) \in Int
  BY <1>1 DEF IsLeast, IsMost
<1>3. lowest <= Min(S) /\ Min(S) <= lowest /\ highest <= Max(S) /\ Max(S) <= highest
  BY <1>1 DEF IsLeast, IsMost
<1>4. QED
  BY <1>2, <1>3

LEMMA LeastOfTwo ==
  ASSUME NEW A \in SUBSET Int, NEW B \in SUBSET Int, NEW a, IsLeast(a, A), NEW b, IsLeast(b, B)
  PROVE  IsLeast(Least(a, b), A \cup B)
<1>1. a \in Int /\ b \in Int
  BY DEF IsLeast
<1>2. CASE a < b
  BY <1>1, <1>2 DEF IsLeast, Least
<1>3. CASE ~(a < b)
  BY <1>1, <1>3 DEF IsLeast, Least
<1>4. QED
  BY <1>2, <1>3

LEMMA MostOfTwo ==
  ASSUME NEW A \in SUBSET Int, NEW B \in SUBSET Int, NEW a, IsMost(a, A), NEW b, IsMost(b, B)
  PROVE  IsMost(Most(a, b), A \cup B)
<1>1. a \in Int /\ b \in Int
  BY DEF IsMost
<1>2. CASE a > b
  BY <1>1, <1>2 DEF IsMost, Most
<1>3. CASE ~(a > b)
  BY <1>1, <1>3 DEF IsMost, Most
<1>4. QED
  BY <1>2, <1>3

(* The values of a function on an interval are finitely many.              *)
LEMMA ImageIsFinite ==
  ASSUME NEW S, IsFiniteSet(S), NEW f, DOMAIN f = S
  PROVE  IsFiniteSet({f[x] : x \in S})
<1> DEFINE T == {f[x] : x \in S}
           g == [x \in S |-> f[x]]
<1>1. g \in Surjection(S, T)
  BY DEF Surjection
<1>2. QED
  BY <1>1, FS_Surjection

LEMMA IndicesAreFinite ==
  ASSUME NEW n \in Nat
  PROVE  IsFiniteSet(Indices(n)) /\ Cardinality(Indices(n)) = n
BY FS_Interval DEF Indices

-----------------------------------------------------------------------------
(* Chunks                                                                  *)

LEMMA Sizes ==
  /\ \A n \in Lengths : n \in Nat \ {0}
  /\ MaxStreamSamples \in Nat \ {0} /\ MaxBuckets \in Nat \ {0}
  /\ Values \subseteq Int /\ 0 \in Values /\ NotFinite \notin Values
BY FtableAssumption

(* The quotient by a positive divisor is the one with a small remainder.   *)
LEMMA QuotientIsUnique ==
  ASSUME NEW i \in Nat, NEW m \in Nat \ {0}, NEW q \in Nat
  PROVE  (i \div m = q) <=> (q * m <= i /\ i < q * m + m)
<1>1. PICK d \in Int, r \in Int :
        /\ d = i \div m /\ i = d * m + r /\ 0 <= r /\ r < m
  <2>1. /\ (i \div m) \in Int /\ (i % m) \in 0 .. m - 1
        /\ i = (i \div m) * m + (i % m)
    OBVIOUS
  <2>2. QED
    BY <2>1
<1>2. q * m \in Int /\ d * m \in Int
  OBVIOUS
<1>3. ASSUME d = q PROVE q * m <= i /\ i < q * m + m
  BY <1>1, <1>2, <1>3
<1>4. ASSUME q * m <= i, i < q * m + m PROVE d = q
  <2>1. /\ (d - q) * m = d * m - q * m /\ (q - d) * m = q * m - d * m
    OBVIOUS
  <2>2. \A z \in Int : z >= 1 => z * m >= m
    OBVIOUS
  <2>3. /\ d - q >= 1 => (d - q) * m >= m
        /\ q - d >= 1 => (q - d) * m >= m
    BY <1>1, <2>2
  <2>4. QED
    BY <1>1, <1>2, <1>4, <2>1, <2>3
<1>5. QED
  BY <1>1, <1>3, <1>4

LEMMA SumOfMultiples ==
  ASSUME NEW i \in Nat, NEW m \in Nat \ {0}, i % m = 0
  PROVE  (i + m) % m = 0
<1>1. PICK q \in Nat : i = q * m /\ q * m \in Nat
  <2>1. (i \div m) \in Nat /\ i = (i \div m) * m + (i % m) /\ (i \div m) * m \in Nat
    OBVIOUS
  <2>2. QED
    BY <2>1
<1>2. /\ q + 1 \in Nat /\ i + m \in Nat
      /\ (q + 1) * m <= i + m /\ i + m < (q + 1) * m + m /\ (q + 1) * m = i + m
  BY <1>1
<1>3. (i + m) \div m = q + 1
  BY <1>2, QuotientIsUnique
<1>4. (i + m) = ((i + m) \div m) * m + ((i + m) % m) /\ ((i + m) % m) \in Int
  BY <1>2
<1>5. QED
  BY <1>1, <1>2, <1>3, <1>4

(* A packet holds the samples of its chunk index, all of them.             *)
LEMMA ChunkHolds ==
  ASSUME NEW n \in Nat \ {0}, NEW m \in Nat \ {0}, NEW o \in Indices(n), o % m = 0
  PROVE  /\ o .. o + Least(n - o, m) - 1 = {i \in Indices(n) : i \div m = o \div m}
         /\ Least(n - o, m) \in Nat \ {0} /\ o \div m \in Nat
         /\ o \in o .. o + Least(n - o, m) - 1
<1>1. o \in Nat /\ o < n /\ n \in Nat /\ m \in Nat /\ m > 0
  BY DEF Indices
<1>2. PICK q \in Nat : q = o \div m /\ o = q * m /\ q * m \in Nat
  <2>1. /\ (o \div m) \in Nat /\ o = (o \div m) * m + (o % m) /\ (o \div m) * m \in Nat
    BY <1>1
  <2>2. QED
    BY <2>1
<1> DEFINE count == Least(n - o, m)
<1>3. /\ count \in Nat \ {0} /\ count <= m /\ count <= n - o
      /\ count = m \/ count = n - o
  BY <1>1 DEF Least
<1> HIDE DEF count
<1>4. ASSUME NEW i \in Indices(n)
      PROVE  (i \div m = o \div m) <=> i \in o .. o + count - 1
  <2>1. i \in Nat /\ i < n
    BY <1>1 DEF Indices
  <2>2. (i \div m = q) <=> (q * m <= i /\ i < q * m + m)
    BY <1>2, <2>1, QuotientIsUnique
  <2>3. (i \div m = o \div m) <=> (o <= i /\ i < o + m)
    BY <1>2, <2>2
  <2>4. QED
    BY <1>1, <1>3, <2>1, <2>3
<1>5. o .. o + count - 1 \subseteq Indices(n)
  BY <1>1, <1>3 DEF Indices
<1>6. QED
  BY <1>1, <1>2, <1>3, <1>4, <1>5 DEF count

LEMMA FiniteValues ==
  ASSUME NEW sample \in Values \cup {NotFinite}
  PROVE  Finite(sample) \in Values
BY Sizes DEF Finite

(* What a packet of the copy says.                                         *)
LEMMA ChunkContent ==
  ASSUME CopyInv, copied # Gone, NEW p, IsChunk(p)
  PROVE  /\ DOMAIN p.samples = {i \in Indices(Length) : i \div MaxStreamSamples = ChunkIndex(p)}
         /\ DOMAIN p.samples # {}
         /\ p.count = Cardinality(DOMAIN p.samples)
         /\ \A i \in DOMAIN p.samples : p.samples[i] = copied[i]
         /\ ChunkValues(p) = CopiedValues(DOMAIN p.samples)
<1> DEFINE n == Length
           D == p.offset .. p.offset + p.count - 1
<1>1. n \in Nat \ {0} /\ MaxStreamSamples \in Nat \ {0}
  BY Sizes DEF CopyInv
<1>2. /\ p.offset \in Indices(n) /\ p.offset % MaxStreamSamples = 0
      /\ p.count = Least(n - p.offset, MaxStreamSamples)
      /\ p.samples = [i \in D |-> copied[i]]
  BY DEF IsChunk
<1>3. /\ D = {i \in Indices(n) : i \div MaxStreamSamples = p.offset \div MaxStreamSamples}
      /\ p.count \in Nat \ {0} /\ p.offset \in D
  <2> HIDE DEF n
  <2>1. QED
    BY <1>1, <1>2, ChunkHolds
<1>4. DOMAIN p.samples = D /\ \A i \in D : p.samples[i] = copied[i]
  BY <1>2
<1>5. p.count = Cardinality(D)
  <2> DEFINE last == p.offset + p.count - 1
  <2>1. /\ p.offset \in Int /\ last \in Int /\ p.count \in Int
        /\ ~(p.offset > last) /\ last - p.offset + 1 = p.count
    BY <1>1, <1>2, <1>3 DEF Indices
  <2> HIDE DEF last
  <2>2. Cardinality(p.offset .. last) = p.count
    BY <2>1, FS_Interval
  <2>3. QED
    BY <2>2 DEF last
<1> HIDE DEF D, n
<1>6. ChunkValues(p) = CopiedValues(DOMAIN p.samples)
  BY <1>4 DEF ChunkValues, CopiedValues
<1>7. QED
  BY <1>3, <1>4, <1>5, <1>6 DEF ChunkIndex, n

(* The values of a nonempty set of places of the copy are finitely many    *)
(* integers.                                                               *)
LEMMA CopiedAreIntegers ==
  ASSUME CopyInv, copied # Gone, NEW D \in SUBSET Indices(Length)
  PROVE  /\ CopiedValues(D) \subseteq Values /\ CopiedValues(D) \subseteq Int
         /\ IsFiniteSet(CopiedValues(D))
         /\ D # {} => CopiedValues(D) # {}
<1>1. \A i \in D : copied[i] \in Values \cup {NotFinite}
  BY DEF CopyInv, Samples
<1>2. CopiedValues(D) \subseteq Values
  BY <1>1, FiniteValues DEF CopiedValues
<1>3. IsFiniteSet(CopiedValues(D))
  <2> DEFINE f == [i \in D |-> Finite(copied[i])]
  <2>1. Length \in Nat
    BY Sizes DEF CopyInv
  <2>2. IsFiniteSet(D)
    BY <2>1, IndicesAreFinite, FS_Subset
  <2>3. IsFiniteSet({f[i] : i \in D})
    <3>1. DOMAIN f = D
      OBVIOUS
    <3> HIDE DEF f
    <3>2. QED
      BY <2>2, <3>1, ImageIsFinite
  <2>4. {f[i] : i \in D} = CopiedValues(D)
    BY DEF CopiedValues
  <2>5. QED
    BY <2>3, <2>4
<1>4. QED
  BY <1>2, <1>3, Sizes DEF CopiedValues

-----------------------------------------------------------------------------
(* The buffer                                                              *)

LEMMA ClearedIsTable == IsTable(ClearedTable) /\ IsTable(RejectedTable)
<1>1. IsTable(ClearedTable)
  BY DEF IsTable, ClearedTable
<1>2. IsTable(RejectedTable)
  <2>1. RejectedTable =
          [allocated |-> FALSE, unsupported |-> TRUE, assembling |-> FALSE,
           samples |-> Gone, receivedChunks |-> {}, receivedCount |-> 0,
           minimum |-> 0, maximum |-> 0, hasRange |-> FALSE,
           envelope |-> Gone, displayReady |-> FALSE]
    <3>1. RejectedTable = [ClearedTable EXCEPT !.unsupported = TRUE]
      BY DEF RejectedTable
    <3>2. QED
      BY <3>1 DEF ClearedTable
  <2>2. QED
    BY <2>1 DEF IsTable
<1>3. QED
  BY <1>1, <1>2

LEMMA AllocatedIsEmpty ==
  ASSUME CopyInv
  PROVE  /\ IsTable(AllocatedTable) /\ FillInv(AllocatedTable)
         /\ AllocatedTable.allocated /\ AllocatedTable.assembling
         /\ ~AllocatedTable.displayReady /\ AllocatedTable.receivedChunks = {}
<1> DEFINE t == AllocatedTable
           zeros == [i \in Indices(Length) |-> 0]
<1>0. zeros \in [Indices(Length) -> Values]
  BY Sizes
<1>1. t = [allocated |-> TRUE, unsupported |-> FALSE, assembling |-> TRUE,
           samples |-> zeros, receivedChunks |-> {},
           receivedCount |-> 0, minimum |-> 0, maximum |-> 0, hasRange |-> FALSE,
           envelope |-> Gone, displayReady |-> FALSE]
  <2> HIDE DEF zeros
  <2>1. AllocatedTable = [ClearedTable EXCEPT !.allocated = TRUE, !.assembling = TRUE,
                                              !.samples = zeros]
    BY DEF AllocatedTable, zeros
  <2>2. QED
    BY <2>1 DEF ClearedTable
<1> HIDE DEF zeros, t
<1>2. IsTable(t)
  BY <1>1 DEF IsTable
<1>3. Arrived(t) = {}
  BY <1>1 DEF Arrived
<1>4. FillInv(t)
  BY <1>0, <1>1, <1>3, FS_EmptySet DEF FillInv
<1>5. QED
  BY <1>1, <1>2, <1>4 DEF t

LEMMA WidenedFields ==
  ASSUME NEW t, IsTable(t), NEW values
  PROVE  LET w == Widened(t, values) IN
         /\ IsTable(w)
         /\ w.minimum = IF t.hasRange THEN Least(t.minimum, Min(values)) ELSE Min(values)
         /\ w.maximum = IF t.hasRange THEN Most(t.maximum, Max(values)) ELSE Max(values)
         /\ w.hasRange
         /\ w.samples = t.samples /\ w.receivedChunks = t.receivedChunks
         /\ w.receivedCount = t.receivedCount /\ w.displayReady = t.displayReady
         /\ w.allocated = t.allocated /\ w.assembling = t.assembling
<1> DEFINE minimum == IF t.hasRange THEN Least(t.minimum, Min(values)) ELSE Min(values)
           maximum == IF t.hasRange THEN Most(t.maximum, Max(values)) ELSE Max(values)
<1>1. Widened(t, values) = [t EXCEPT !.minimum = minimum, !.maximum = maximum,
                                     !.hasRange = TRUE]
  BY DEF Widened
<1> HIDE DEF minimum, maximum
<1>2. LET w == Widened(t, values) IN
      /\ IsTable(w) /\ w.minimum = minimum /\ w.maximum = maximum /\ w.hasRange
      /\ w.samples = t.samples /\ w.receivedChunks = t.receivedChunks
      /\ w.receivedCount = t.receivedCount /\ w.displayReady = t.displayReady
      /\ w.allocated = t.allocated /\ w.assembling = t.assembling
  BY <1>1 DEF IsTable
<1>3. QED
  BY <1>2 DEF minimum, maximum

LEMMA ReceivedFields ==
  ASSUME NEW t, IsTable(t), NEW p
  PROVE  LET r == Received(t, p) IN
         /\ IsTable(r)
         /\ r.minimum = IF t.hasRange THEN Least(t.minimum, Min(ChunkValues(p)))
                        ELSE Min(ChunkValues(p))
         /\ r.maximum = IF t.hasRange THEN Most(t.maximum, Max(ChunkValues(p)))
                        ELSE Max(ChunkValues(p))
         /\ r.hasRange
         /\ r.samples = [i \in DOMAIN t.samples |-> IF i \in DOMAIN p.samples
                                                    THEN Finite(p.samples[i])
                                                    ELSE t.samples[i]]
         /\ r.receivedChunks = t.receivedChunks \cup {ChunkIndex(p)}
         /\ r.receivedCount = t.receivedCount + p.count
         /\ r.displayReady = t.displayReady
         /\ r.allocated = t.allocated /\ r.assembling = t.assembling
<1> DEFINE w == Widened(t, ChunkValues(p))
           samples == [i \in DOMAIN w.samples |-> IF i \in DOMAIN p.samples
                                                  THEN Finite(p.samples[i])
                                                  ELSE w.samples[i]]
<1>1. /\ IsTable(w) /\ w.hasRange
      /\ w.minimum = IF t.hasRange THEN Least(t.minimum, Min(ChunkValues(p)))
                     ELSE Min(ChunkValues(p))
      /\ w.maximum = IF t.hasRange THEN Most(t.maximum, Max(ChunkValues(p)))
                     ELSE Max(ChunkValues(p))
      /\ w.samples = t.samples /\ w.receivedChunks = t.receivedChunks
      /\ w.receivedCount = t.receivedCount /\ w.displayReady = t.displayReady
      /\ w.allocated = t.allocated /\ w.assembling = t.assembling
  BY WidenedFields
<1>2. Received(t, p) = [w EXCEPT !.samples = samples,
                                 !.receivedChunks = w.receivedChunks \cup {ChunkIndex(p)},
                                 !.receivedCount = w.receivedCount + p.count]
  BY DEF Received
<1> HIDE DEF w, samples
<1>3. /\ IsTable(Received(t, p)) /\ Received(t, p).samples = samples
      /\ Received(t, p).receivedChunks = w.receivedChunks \cup {ChunkIndex(p)}
      /\ Received(t, p).receivedCount = w.receivedCount + p.count
      /\ Received(t, p).minimum = w.minimum /\ Received(t, p).maximum = w.maximum
      /\ Received(t, p).hasRange = w.hasRange /\ Received(t, p).displayReady = w.displayReady
      /\ Received(t, p).allocated = w.allocated /\ Received(t, p).assembling = w.assembling
  BY <1>1, <1>2 DEF IsTable
<1>4. samples = [i \in DOMAIN t.samples |-> IF i \in DOMAIN p.samples
                                            THEN Finite(p.samples[i]) ELSE t.samples[i]]
  BY <1>1 DEF samples
<1>5. QED
  BY <1>1, <1>3, <1>4

LEMMA ReceivedKeepsStage ==
  ASSUME NEW t, IsTable(t), NEW p
  PROVE  /\ IsTable(Received(t, p)) /\ Received(t, p).displayReady = t.displayReady
         /\ Received(t, p).allocated = t.allocated
         /\ Received(t, p).assembling = t.assembling
<1> DEFINE w == Widened(t, ChunkValues(p))
           samples == [i \in DOMAIN w.samples |-> IF i \in DOMAIN p.samples
                                                  THEN Finite(p.samples[i])
                                                  ELSE w.samples[i]]
<1>1. /\ IsTable(w) /\ w.displayReady = t.displayReady
      /\ w.allocated = t.allocated /\ w.assembling = t.assembling
  BY WidenedFields
<1>2. Received(t, p) = [w EXCEPT !.samples = samples,
                                 !.receivedChunks = w.receivedChunks \cup {ChunkIndex(p)},
                                 !.receivedCount = w.receivedCount + p.count]
  BY DEF Received
<1> HIDE DEF w, samples
<1>3. QED
  BY <1>1, <1>2 DEF IsTable

(* A chunk that has not arrived yet fills its own places.                  *)
LEMMA ReceivedFills ==
  ASSUME CopyInv, copied # Gone, NEW t, IsTable(t), FillInv(t), NEW p, IsChunk(p),
         ChunkIndex(p) \notin t.receivedChunks
  PROVE  FillInv(Received(t, p)) /\ Arrived(Received(t, p)) # {}
<1> DEFINE r == Received(t, p)
           D == DOMAIN p.samples
           old == Arrived(t)
<1>1. /\ D = {i \in Indices(Length) : i \div MaxStreamSamples = ChunkIndex(p)}
      /\ D # {} /\ p.count = Cardinality(D)
      /\ \A i \in D : p.samples[i] = copied[i]
      /\ ChunkValues(p) = CopiedValues(D)
  BY ChunkContent
<1>2. /\ r.minimum = IF t.hasRange THEN Least(t.minimum, Min(CopiedValues(D)))
                     ELSE Min(CopiedValues(D))
      /\ r.maximum = IF t.hasRange THEN Most(t.maximum, Max(CopiedValues(D)))
                     ELSE Max(CopiedValues(D))
      /\ r.hasRange
      /\ r.samples = [i \in DOMAIN t.samples |-> IF i \in D THEN Finite(p.samples[i])
                                                 ELSE t.samples[i]]
      /\ r.receivedChunks = t.receivedChunks \cup {ChunkIndex(p)}
      /\ r.receivedCount = t.receivedCount + p.count
  BY <1>1, ReceivedFields
<1>3. Arrived(r) = old \cup D /\ old \cap D = {} /\ old \subseteq Indices(Length)
  BY <1>1, <1>2 DEF Arrived
<1>4. \A i \in Indices(Length) : copied[i] \in Values \cup {NotFinite}
  BY DEF CopyInv, Samples
<1>5. /\ t.samples \in [Indices(Length) -> Values]
      /\ \A i \in old : t.samples[i] = Finite(copied[i])
      /\ t.receivedCount = Cardinality(old)
      /\ t.hasRange <=> old # {}
      /\ t.hasRange => /\ IsLeast(t.minimum, CopiedValues(old))
                       /\ IsMost(t.maximum, CopiedValues(old))
  BY DEF FillInv
<1> HIDE DEF r, D, old
<1>6. /\ r.samples \in [Indices(Length) -> Values]
      /\ \A i \in old \cup D : r.samples[i] = Finite(copied[i])
  <2>1. D \subseteq Indices(Length)
    BY <1>1
  <2>2. \A i \in D : Finite(p.samples[i]) \in Values /\ r.samples[i] = Finite(copied[i])
    BY <1>1, <1>2, <1>4, <1>5, <2>1, FiniteValues
  <2>3. \A i \in old \ D : r.samples[i] = Finite(copied[i])
    BY <1>2, <1>3, <1>5
  <2>4. QED
    BY <1>2, <1>5, <2>2, <2>3
<1>7. r.receivedCount = Cardinality(old \cup D)
  <2>1. Length \in Nat
    BY Sizes DEF CopyInv
  <2>2. IsFiniteSet(old) /\ IsFiniteSet(D) /\ D \subseteq Indices(Length)
    BY <1>1, <1>3, <2>1, IndicesAreFinite, FS_Subset
  <2>3. /\ Cardinality(old \cup D) = Cardinality(old) + Cardinality(D) - Cardinality(old \cap D)
        /\ Cardinality(old \cap D) = 0 /\ Cardinality(old) \in Nat /\ Cardinality(D) \in Nat
    BY <1>3, <2>2, FS_Union, FS_EmptySet, FS_CardinalityType
  <2>4. QED
    BY <1>1, <1>2, <1>5, <2>3
<1>8. /\ CopiedValues(D) \subseteq Int /\ CopiedValues(old) \subseteq Int
      /\ IsFiniteSet(CopiedValues(D)) /\ CopiedValues(D) # {}
  BY <1>1, <1>3, CopiedAreIntegers
<1>9. IsLeast(Min(CopiedValues(D)), CopiedValues(D)) /\ IsMost(Max(CopiedValues(D)), CopiedValues(D))
  BY <1>8, MinMax
<1>10. CopiedValues(old \cup D) = CopiedValues(old) \cup CopiedValues(D)
  BY DEF CopiedValues
<1>11. /\ IsLeast(r.minimum, CopiedValues(old \cup D))
       /\ IsMost(r.maximum, CopiedValues(old \cup D))
  <2>1. CASE t.hasRange
    <3> DEFINE A == CopiedValues(old)
               B == CopiedValues(D)
    <3>1. /\ A \in SUBSET Int /\ B \in SUBSET Int
          /\ IsLeast(t.minimum, A) /\ IsLeast(Min(B), B)
          /\ IsMost(t.maximum, A) /\ IsMost(Max(B), B)
      BY <1>5, <1>8, <1>9, <2>1
    <3>2. r.minimum = Least(t.minimum, Min(B)) /\ r.maximum = Most(t.maximum, Max(B))
      BY <1>2, <2>1
    <3> HIDE DEF A, B
    <3>3. IsLeast(r.minimum, A \cup B)
      BY <3>1, <3>2, LeastOfTwo
    <3>4. IsMost(r.maximum, A \cup B)
      BY <3>1, <3>2, MostOfTwo
    <3>5. QED
      BY <1>10, <3>3, <3>4 DEF A, B
  <2>2. CASE ~t.hasRange
    <3>1. old \cup D = D
      BY <1>5, <2>2
    <3>2. QED
      BY <1>2, <1>9, <2>2, <3>1
  <2>3. QED
    BY <2>1, <2>2
<1>12. FillInv(r)
  BY <1>1, <1>2, <1>3, <1>6, <1>7, <1>11 DEF FillInv
<1>13. QED
  BY <1>1, <1>3, <1>12 DEF r

(* When every sample has arrived, the table is the copy.                   *)
LEMMA FullIsCopied ==
  ASSUME CopyInv, copied # Gone, NEW t, FillInv(t), t.receivedCount = Length
  PROVE  /\ t.samples = [i \in Indices(Length) |-> Finite(copied[i])]
         /\ IsLeast(t.minimum, CopiedValues(Indices(Length)))
         /\ IsMost(t.maximum, CopiedValues(Indices(Length)))
<1>1. Length \in Nat \ {0}
  BY Sizes DEF CopyInv
<1>2. Arrived(t) = Indices(Length)
  <2>1. IsFiniteSet(Indices(Length)) /\ Cardinality(Indices(Length)) = Length
    BY <1>1, IndicesAreFinite
  <2>2. Arrived(t) \in SUBSET Indices(Length) /\ Cardinality(Arrived(t)) = Length
    BY DEF Arrived, FillInv
  <2>3. QED
    BY <2>1, <2>2, FS_Subset
<1>3. 0 \in Indices(Length)
  BY <1>1 DEF Indices
<1>4. t.hasRange
  BY <1>2, <1>3 DEF FillInv
<1>5. /\ t.samples \in [Indices(Length) -> Values]
      /\ \A i \in Indices(Length) : t.samples[i] = Finite(copied[i])
  BY <1>2 DEF FillInv
<1>6. QED
  BY <1>2, <1>4, <1>5 DEF FillInv

LEMMA FinishedFields ==
  ASSUME NEW t, IsTable(t), NEW ready \in BOOLEAN
  PROVE  LET u == Finished(t, ready) IN
         /\ IsTable(u) /\ ~u.assembling /\ u.displayReady = ready
         /\ u.samples = t.samples /\ u.minimum = t.minimum /\ u.maximum = t.maximum
         /\ u.receivedCount = t.receivedCount
         /\ ready => u.envelope = Envelope(t.samples)
<1> DEFINE envelope == IF ready THEN Envelope(t.samples) ELSE Gone
<1>1. Finished(t, ready) = [t EXCEPT !.receivedChunks = {}, !.assembling = FALSE,
                                     !.envelope = envelope, !.displayReady = ready]
  BY DEF Finished
<1> HIDE DEF envelope
<1>2. LET u == Finished(t, ready) IN
      /\ IsTable(u) /\ ~u.assembling /\ u.displayReady = ready
      /\ u.samples = t.samples /\ u.minimum = t.minimum /\ u.maximum = t.maximum
      /\ u.receivedCount = t.receivedCount
      /\ u.envelope = envelope
  BY <1>1 DEF IsTable
<1>3. QED
  BY <1>2 DEF envelope

-----------------------------------------------------------------------------
(* The steps                                                               *)

LEMMA TableLength ==
  ASSUME NEW n \in Lengths, NEW f \in Samples(n)
  PROVE  DOMAIN f = Indices(n) /\ Cardinality(DOMAIN f) = n /\ f # Gone
<1>1. n \in Nat \ {0}
  BY Sizes
<1>2. DOMAIN f = Indices(n) /\ 0 \in Indices(n)
  BY <1>1 DEF Samples, Indices
<1>3. DOMAIN Gone = {}
  BY DEF Gone
<1>4. QED
  BY <1>1, <1>2, <1>3, IndicesAreFinite

(* A table keeps its length, so what was said of the copy stays true.      *)
LEMMA SameTable ==
  ASSUME TableInv, UNCHANGED <<table, copied>>, Length' = Length
  PROVE  TableInv'
<1>1. Arrived(table)' = Arrived(table)
  BY DEF Arrived
<1>2. FillInv(table)' <=> FillInv(table)
  BY <1>1 DEF FillInv, CopiedValues
<1>3. ShowInv(table)' <=> ShowInv(table)
  BY DEF ShowInv, CopiedValues
<1>4. QED
  BY <1>2, <1>3 DEF TableInv

LEMMA InitFtable == FtableInit => FtableInv
<1> SUFFICES ASSUME FtableInit PROVE FtableInv
  OBVIOUS
<1>1. PICK n \in Lengths : ftable \in Samples(n)
  BY DEF FtableInit
<1>2. Length = n
  BY <1>1, TableLength DEF Length
<1>3. CopyInv
  BY <1>1, <1>2 DEF FtableInit, CopyInv
<1>4. ChunksInv
  BY DEF FtableInit, ChunksInv
<1>5. IsTable(table) /\ ~table.allocated /\ ~table.displayReady
  BY ClearedIsTable DEF FtableInit, ClearedTable
<1>6. QED
  BY <1>3, <1>4, <1>5 DEF FtableInv, TableInv

LEMMA TakeSnapshotKeeps ==
  ASSUME FtableInv, TakeSnapshot
  PROVE  FtableInv'
<1>1. /\ CopyInv /\ ChunksInv /\ TableInv
      /\ copied = Gone /\ snapshot' = ftable /\ copied' = ftable /\ nextSample' = 0
      /\ UNCHANGED <<ftable, sentChunks, table>> /\ Length' = Length
  BY DEF FtableInv, TakeSnapshot, Length
<1>2. 0 \in Indices(Length) /\ 0 % MaxStreamSamples = 0
  <2>1. Length \in Nat \ {0} /\ MaxStreamSamples \in Nat \ {0}
    BY <1>1, Sizes DEF CopyInv
  <2>2. QED
    BY <2>1 DEF Indices
<1>3. CopyInv'
  BY <1>1, <1>2 DEF CopyInv
<1>4. ChunksInv'
  BY <1>1 DEF ChunksInv
<1>5. TableInv'
  BY <1>1 DEF TableInv, ShowInv
<1>6. QED
  BY <1>3, <1>4, <1>5 DEF FtableInv

LEMMA WriteTableKeeps ==
  ASSUME FtableInv, WriteTable
  PROVE  FtableInv'
<1>1. CopyInv /\ ChunksInv /\ TableInv /\ UNCHANGED <<snapshot, nextSample, sentChunks, table, copied>>
  BY DEF FtableInv, WriteTable
<1>2. PICK v \in Values : ftable' = [i \in DOMAIN ftable |-> v]
  BY DEF WriteTable
<1>3. DOMAIN ftable = Indices(Length) /\ Length \in Lengths
  BY <1>1, TableLength DEF CopyInv
<1>4. DOMAIN ftable' = DOMAIN ftable /\ ftable' \in Samples(Length)
  BY <1>2, <1>3 DEF Samples
<1>5. Length' = Length
  BY <1>4 DEF Length
<1>6. CopyInv'
  BY <1>1, <1>4, <1>5 DEF CopyInv
<1>7. ChunksInv'
  BY <1>1, <1>5 DEF ChunksInv, IsChunk
<1>8. QED
  BY <1>1, <1>5, <1>6, <1>7, SameTable DEF FtableInv

LEMMA SendTableChunkKeeps ==
  ASSUME FtableInv, SendTableChunk
  PROVE  FtableInv'
<1>1. /\ CopyInv /\ ChunksInv /\ TableInv
      /\ snapshot # Gone /\ sentChunks' = sentChunks \cup {NextChunk}
      /\ nextSample' = nextSample + ChunkCount
      /\ snapshot' = IF nextSample' = Length THEN Gone ELSE snapshot
      /\ UNCHANGED <<ftable, table, copied>> /\ Length' = Length
  BY DEF FtableInv, SendTableChunk, Length
<1>2. /\ snapshot = copied /\ nextSample \in Indices(Length)
      /\ nextSample % MaxStreamSamples = 0
      /\ Length \in Nat \ {0} /\ MaxStreamSamples \in Nat \ {0}
  BY <1>1, Sizes DEF CopyInv
<1>3. IsChunk(NextChunk)
  BY <1>2 DEF IsChunk, NextChunk, ChunkCount
<1>4. ChunksInv'
  <2>1. copied # Gone /\ copied' = copied
    BY <1>1, <1>2
  <2>2. ASSUME NEW p, IsChunk(p) PROVE IsChunk(p)'
    BY <1>1, <2>2 DEF IsChunk
  <2>3. \A p \in sentChunks' : IsChunk(p)
    BY <1>1, <1>3 DEF ChunksInv
  <2>4. QED
    BY <2>1, <2>2, <2>3 DEF ChunksInv
<1>5. ASSUME nextSample' # Length
      PROVE  nextSample' \in Indices(Length) /\ nextSample' % MaxStreamSamples = 0
  <2>1. ChunkCount = MaxStreamSamples /\ nextSample' \in Indices(Length)
    BY <1>1, <1>2, <1>5 DEF ChunkCount, Least, Indices
  <2>2. nextSample \in Nat
    BY <1>2 DEF Indices
  <2>3. (nextSample + MaxStreamSamples) % MaxStreamSamples = nextSample % MaxStreamSamples
    BY <1>2, <2>2, SumOfMultiples
  <2>4. QED
    BY <1>1, <1>2, <2>1, <2>3
<1>6. CopyInv'
  BY <1>1, <1>2, <1>5 DEF CopyInv
<1>7. QED
  BY <1>1, <1>4, <1>6, SameTable DEF FtableInv

(* A packet that is wanted fills the buffer it finds, or a new one.        *)
LEMMA FillingFills ==
  ASSUME FtableInv, NEW p \in sentChunks, Wanted(p)
  PROVE  /\ IsTable(Filling(p)) /\ FillInv(Filling(p)) /\ copied # Gone
         /\ Filling(p).allocated /\ Filling(p).assembling /\ ~Filling(p).displayReady
<1>1. CopyInv /\ copied # Gone /\ IsChunk(p) /\ TableInv
  BY DEF FtableInv, ChunksInv
<1>2. PICK t : t = IF table.allocated THEN table ELSE AllocatedTable
  OBVIOUS
<1>3. /\ IsTable(t) /\ FillInv(t) /\ ChunkIndex(p) \notin t.receivedChunks
      /\ t.allocated /\ t.assembling /\ ~t.displayReady
  <2>1. CASE table.allocated
    BY <1>1, <1>2, <2>1 DEF TableInv, Wanted, Complete
  <2>2. CASE ~table.allocated
    BY <1>1, <1>2, <2>2, AllocatedIsEmpty
  <2>3. QED
    BY <2>1, <2>2
<1>4. Filling(p) = Received(t, p)
  BY <1>2 DEF Filling
<1>5. FillInv(Received(t, p))
  BY <1>1, <1>3, ReceivedFills
<1>6. QED
  <2>1. /\ IsTable(Received(t, p)) /\ Received(t, p).displayReady = t.displayReady
        /\ Received(t, p).allocated = t.allocated
        /\ Received(t, p).assembling = t.assembling
    BY <1>3, ReceivedKeepsStage
  <2>2. QED
    BY <1>1, <1>3, <1>4, <1>5, <2>1

LEMMA ReceiveTableChunkKeeps ==
  ASSUME FtableInv, NEW p \in sentChunks, ReceiveTableChunk(p)
  PROVE  FtableInv'
<1>1. /\ CopyInv /\ ChunksInv /\ Wanted(p) /\ Length' = Length
      /\ UNCHANGED <<ftable, snapshot, nextSample, sentChunks, copied>>
  BY DEF FtableInv, ReceiveTableChunk, Length
<1>2. PICK ready \in BOOLEAN :
        table' = IF Filling(p).receivedCount = Length
                 THEN Finished(Filling(p), ready) ELSE Filling(p)
  BY DEF ReceiveTableChunk
<1>3. PICK t : t = Filling(p)
  OBVIOUS
<1>4. /\ IsTable(t) /\ FillInv(t) /\ copied # Gone
      /\ t.allocated /\ t.assembling /\ ~t.displayReady
  BY <1>1, <1>3, FillingFills
<1>5. CopyInv' /\ ChunksInv'
  BY <1>1 DEF CopyInv, ChunksInv, IsChunk
<1>6. TableInv'
  <2>1. CASE t.receivedCount = Length
    <3>1. table' = Finished(t, ready)
      BY <1>2, <1>3, <2>1
    <3>2. /\ IsTable(table') /\ ~table'.assembling /\ table'.displayReady = ready
          /\ table'.samples = t.samples
          /\ table'.minimum = t.minimum /\ table'.maximum = t.maximum
          /\ ready => table'.envelope = Envelope(t.samples)
      BY <1>2, <1>4, <3>1, FinishedFields
    <3>3. /\ t.samples = [i \in Indices(Length) |-> Finite(copied[i])]
          /\ IsLeast(t.minimum, CopiedValues(Indices(Length)))
          /\ IsMost(t.maximum, CopiedValues(Indices(Length)))
      BY <1>1, <1>4, <2>1, FullIsCopied
    <3>4. CopiedValues(Indices(Length))' = CopiedValues(Indices(Length))
      BY <1>1 DEF CopiedValues
    <3>5. ready => ShowInv(table)'
      BY <1>1, <1>4, <3>2, <3>3, <3>4 DEF ShowInv
    <3>6. IsTable(table)'
      BY <3>2 DEF IsTable
    <3>7. QED
      BY <3>2, <3>5, <3>6 DEF TableInv
  <2>2. CASE t.receivedCount # Length
    <3>1. table' = t
      BY <1>2, <1>3, <2>2
    <3>2. Arrived(table)' = Arrived(t)
      BY <1>1, <3>1 DEF Arrived
    <3>3. FillInv(table)'
      BY <1>1, <1>4, <3>1, <3>2 DEF FillInv, CopiedValues
    <3>4. IsTable(table)'
      BY <1>4, <3>1 DEF IsTable
    <3>5. QED
      BY <1>1, <1>4, <3>1, <3>3, <3>4 DEF TableInv
  <2>3. QED
    BY <2>1, <2>2
<1>7. QED
  BY <1>5, <1>6 DEF FtableInv

LEMMA RejectTableKeeps ==
  ASSUME FtableInv, NEW p \in sentChunks, RejectTable(p)
  PROVE  FtableInv'
<1>1. /\ CopyInv /\ ChunksInv /\ Length' = Length /\ table' = RejectedTable
      /\ UNCHANGED <<ftable, snapshot, nextSample, sentChunks, copied>>
  BY DEF FtableInv, RejectTable, Length
<1>2. CopyInv' /\ ChunksInv'
  BY <1>1 DEF CopyInv, ChunksInv, IsChunk
<1>3. IsTable(table)'
  BY <1>1, ClearedIsTable DEF IsTable
<1>4. ~table'.allocated /\ ~table'.displayReady
  BY <1>1 DEF RejectedTable, ClearedTable
<1>5. QED
  BY <1>2, <1>3, <1>4 DEF FtableInv, TableInv

LEMMA NextFtable == FtableInv /\ [FtableNext]_ftableVars => FtableInv'
<1> SUFFICES ASSUME FtableInv, [FtableNext]_ftableVars PROVE FtableInv'
  OBVIOUS
<1>1. CASE TakeSnapshot
  BY <1>1, TakeSnapshotKeeps
<1>2. CASE WriteTable
  BY <1>2, WriteTableKeeps
<1>3. CASE SendTableChunk
  BY <1>3, SendTableChunkKeeps
<1>4. ASSUME NEW p \in sentChunks, ReceiveTableChunk(p) PROVE FtableInv'
  BY <1>4, ReceiveTableChunkKeeps
<1>5. ASSUME NEW p \in sentChunks, RejectTable(p) PROVE FtableInv'
  BY <1>5, RejectTableKeeps
<1>6. CASE UNCHANGED ftableVars
  <2>1. Length' = Length /\ UNCHANGED <<ftable, snapshot, nextSample, sentChunks, table, copied>>
    BY <1>6 DEF ftableVars, Length
  <2>2. CopyInv' /\ ChunksInv' /\ TableInv
    BY <2>1 DEF FtableInv, CopyInv, ChunksInv, IsChunk
  <2>3. QED
    BY <2>1, <2>2, SameTable DEF FtableInv
<1>7. QED
  BY <1>1, <1>2, <1>3, <1>4, <1>5, <1>6 DEF FtableNext

LEMMA FtableInvariant == FtableSpec => []FtableInv
  BY InitFtable, NextFtable, PTL DEF FtableSpec

-----------------------------------------------------------------------------
(* The types of the buffer, which those of the packets and the copy do not *)
(* give once it is full or rejected                                        *)

TableTyped(t) ==
  /\ t.samples \in [Indices(Length) -> Values] \cup {Gone}
  /\ t.receivedCount \in 0 .. Length
  /\ t.minimum \in Values /\ t.maximum \in Values

TypedInv == TableTyped(table) /\ nextSample \in 0 .. Length

(* A buffer being filled, with at least one packet in it                   *)
LEMMA FilledIsTyped ==
  ASSUME CopyInv, copied # Gone, NEW t, FillInv(t), t.hasRange
  PROVE  TableTyped(t)
<1>1. Length \in Nat \ {0} /\ IsFiniteSet(Indices(Length)) /\ Cardinality(Indices(Length)) = Length
  BY Sizes, IndicesAreFinite DEF CopyInv
<1>2. Arrived(t) \subseteq Indices(Length)
  BY DEF Arrived
<1>3. t.receivedCount \in 0 .. Length
  <2>1. /\ Cardinality(Arrived(t)) \in Nat
        /\ Cardinality(Arrived(t)) <= Cardinality(Indices(Length))
    BY <1>1, <1>2, FS_Subset, FS_CardinalityType
  <2>2. QED
    BY <1>1, <2>1 DEF FillInv
<1>4. CopiedValues(Arrived(t)) \subseteq Values
  BY FtableAssumption DEF CopiedValues, Finite
<1>5. QED
  BY <1>3, <1>4 DEF FillInv, TableTyped, IsLeast, IsMost

(* The copy and the packets have their types.                              *)
LEMMA SourceIsTyped ==
  ASSUME FtableInv, TypedInv
  PROVE  FtableTypeOK
<1>1. CopyInv /\ ChunksInv
  BY DEF FtableInv
<1>2. Length \in Lengths /\ ftable \in Samples(Length) /\ Length \in Nat \ {0}
  BY <1>1, Sizes DEF CopyInv
<1>3. \A p \in sentChunks : p.offset \in 0 .. Length - 1 /\ p.count \in 1 .. MaxStreamSamples
  <2> SUFFICES ASSUME NEW p \in sentChunks
               PROVE  p.offset \in 0 .. Length - 1 /\ p.count \in 1 .. MaxStreamSamples
    OBVIOUS
  <2>1. p.offset \in 0 .. Length - 1 /\ p.count = Least(Length - p.offset, MaxStreamSamples)
    BY <1>1 DEF ChunksInv, IsChunk, Indices
  <2>2. MaxStreamSamples \in Nat \ {0}
    BY FtableAssumption
  <2>3. QED
    BY <1>2, <2>1, <2>2 DEF Least
<1>4. snapshot \in Samples(Length) \cup {Gone} /\ copied \in Samples(Length) \cup {Gone}
  BY <1>1 DEF CopyInv
<1>5. QED
  BY <1>2, <1>3, <1>4 DEF FtableTypeOK, TypedInv, TableTyped

(* Every step keeps them: a packet is received into a typed buffer, and a  *)
(* buffer is finished or rejected as one.                                  *)
LEMMA TypedNext ==
  ASSUME FtableInv, FtableInv', TypedInv, [FtableNext]_ftableVars
  PROVE  TypedInv'
<1>1. Length' = Length /\ Length \in Nat \ {0}
  <2>1. CASE WriteTable
    <3>1. PICK v \in Values : ftable' = [i \in DOMAIN ftable |-> v]
      BY <2>1 DEF WriteTable
    <3>2. DOMAIN ftable' = DOMAIN ftable
      BY <3>1
    <3>3. QED
      BY <3>2, Sizes DEF Length, FtableInv, CopyInv
  <2>2. CASE ftable' = ftable
    BY <2>2, Sizes DEF Length, FtableInv, CopyInv
  <2>3. WriteTable \/ ftable' = ftable
    BY DEF FtableNext, TakeSnapshot, SendTableChunk, ReceiveTableChunk, RejectTable, ftableVars
  <2>4. QED
    BY <2>1, <2>2, <2>3
<1>2. nextSample' \in 0 .. Length'
  <2>1. CASE SendTableChunk
    <3>1. snapshot' # Gone => nextSample' \in Indices(Length)'
      BY DEF FtableInv, CopyInv
    <3>2. snapshot' = Gone => nextSample' = Length'
      BY <2>1, <1>1 DEF SendTableChunk, Length
    <3>3. QED
      BY <1>1, <3>1, <3>2 DEF Indices
  <2>2. CASE nextSample' = nextSample \/ nextSample' = 0
    BY <1>1, <2>2 DEF TypedInv
  <2>3. SendTableChunk \/ nextSample' = nextSample \/ nextSample' = 0
    BY DEF FtableNext, TakeSnapshot, WriteTable, ReceiveTableChunk, RejectTable, ftableVars
  <2>4. QED
    BY <2>1, <2>2, <2>3
<1>3. TableTyped(table)'
  <2>1. ASSUME NEW p \in sentChunks, ReceiveTableChunk(p) PROVE TableTyped(table)'
    <3>1. Wanted(p) /\ CopyInv /\ TableInv
      BY <2>1 DEF ReceiveTableChunk, FtableInv
    <3>2. PICK ready \in BOOLEAN :
            table' = IF Filling(p).receivedCount = Length
                     THEN Finished(Filling(p), ready) ELSE Filling(p)
      BY <2>1 DEF ReceiveTableChunk
    <3>3. PICK t : t = Filling(p)
      OBVIOUS
    <3>4. IsTable(t) /\ FillInv(t) /\ copied # Gone
      BY <3>1, <3>3, FillingFills
    <3>5. t.hasRange
      <4>1. CASE table.allocated
        BY <3>1, <3>3, <4>1, ReceivedFields DEF Filling, TableInv
      <4>2. CASE ~table.allocated
        BY <3>1, <3>3, <4>2, ReceivedFields, AllocatedIsEmpty DEF Filling
      <4>3. QED
        BY <4>1, <4>2
    <3>6. TableTyped(t)
      BY <3>1, <3>4, <3>5, FilledIsTyped
    <3>7. /\ table'.samples = t.samples /\ table'.receivedCount = t.receivedCount
          /\ table'.minimum = t.minimum /\ table'.maximum = t.maximum
      BY <3>2, <3>3, <3>4, FinishedFields
    <3>8. QED
      BY <1>1, <3>6, <3>7 DEF TableTyped
  <2>2. ASSUME NEW p \in sentChunks, RejectTable(p) PROVE TableTyped(table)'
    <3>1. table'.samples = Gone /\ table'.receivedCount = 0 /\ table'.minimum = 0 /\ table'.maximum = 0
      BY <2>2 DEF RejectTable, RejectedTable, ClearedTable
    <3>2. QED
      BY <1>1, <3>1, FtableAssumption DEF TableTyped
  <2>3. CASE table' = table
    BY <1>1, <2>3 DEF TypedInv, TableTyped
  <2>4. QED
    BY <2>1, <2>2, <2>3
       DEF FtableNext, TakeSnapshot, WriteTable, SendTableChunk, ftableVars
<1>4. QED
  BY <1>2, <1>3 DEF TypedInv

(* The copy, the packets and the buffer of the viewer keep their types,    *)
(* also a buffer that is full, rejected or found no memory for its         *)
(* envelope.                                                               *)
THEOREM FtableTypeCorrect == FtableSpec => []FtableTypeOK
<1>1. FtableInit => TypedInv
  <2> SUFFICES ASSUME FtableInit PROVE TypedInv
    OBVIOUS
  <2>1. Length \in Nat \ {0}
    BY InitFtable, Sizes DEF FtableInv, CopyInv
  <2>2. QED
    BY <2>1, FtableAssumption DEF FtableInit, ClearedTable, TypedInv, TableTyped
<1>2. FtableInv /\ FtableInv' /\ TypedInv /\ [FtableNext]_ftableVars => TypedInv'
  BY TypedNext
<1>3. FtableInv /\ TypedInv => FtableTypeOK
  BY SourceIsTyped
<1>4. QED
  BY <1>1, <1>2, <1>3, FtableInvariant, PTL DEF FtableSpec

-----------------------------------------------------------------------------
(* The table on display                                                    *)

(* A table on display is the table as it was when the opcode ran, with its *)
(* own range, however its packets were lost, repeated or reordered and     *)
(* whatever was written to the table since.                                *)
THEOREM ShownTableStaysSnapshot == FtableSpec => []ShownTableIsSnapshot
<1>1. FtableInv => ShownTableIsSnapshot
  <2> SUFFICES ASSUME FtableInv, table.displayReady
               PROVE  /\ table.samples = [i \in DOMAIN copied |-> Finite(copied[i])]
                      /\ table.minimum = Min({table.samples[i] : i \in DOMAIN copied})
                      /\ table.maximum = Max({table.samples[i] : i \in DOMAIN copied})
    BY DEF ShownTableIsSnapshot
  <2>1. CopyInv /\ ShowInv(table) /\ copied # Gone
    BY DEF FtableInv, TableInv, ShowInv
  <2>2. DOMAIN copied = Indices(Length)
    BY <2>1 DEF CopyInv, Samples
  <2> DEFINE S == CopiedValues(Indices(Length))
  <2>3. {table.samples[i] : i \in DOMAIN copied} = S
    BY <2>1, <2>2 DEF ShowInv, CopiedValues
  <2>4. /\ S \in SUBSET Int /\ IsLeast(table.minimum, S) /\ IsMost(table.maximum, S)
    BY <2>1, CopiedAreIntegers DEF ShowInv
  <2> HIDE DEF S
  <2>5. table.minimum = Min(S) /\ table.maximum = Max(S)
    BY <2>4, ExtremesAreUnique
  <2>6. QED
    BY <2>1, <2>2, <2>3, <2>5 DEF ShowInv
<1>2. QED
  BY <1>1, FtableInvariant, PTL

(* Every place of a table lies in a bucket: the first whose end is beyond  *)
(* it. The last bucket ends with the table.                                *)
LEMMA EveryPlaceHasBucket ==
  ASSUME NEW n \in Nat \ {0}, NEW i \in Indices(n)
  PROVE  /\ Buckets(n) \in Nat \ {0}
         /\ \E b \in 0 .. Buckets(n) - 1 : i \in Bucket(b, n)
<1> DEFINE B == Buckets(n)
           Edge(b) == (b * n) \div B
           Beyond == {b \in Nat : i < Edge(b + 1)}
<1>1. B \in Nat \ {0} /\ i \in Nat /\ i < n
  BY Sizes DEF Buckets, Least, Indices
<1> HIDE DEF B
<1>2. Edge(B) = n /\ Edge(0) = 0
  <2>1. B * n \in Nat /\ n * B <= B * n /\ B * n < n * B + B
    BY <1>1
  <2>2. (B * n) \div B = n
    BY <1>1, <2>1, QuotientIsUnique
  <2>3. 0 \div B = 0 /\ 0 * n = 0
    BY <1>1
  <2>4. QED
    BY <2>2, <2>3
<1>3. \A b \in Nat : Edge(b) \in Int
  BY <1>1
<1> HIDE DEF Edge
<1>4. B - 1 \in Beyond
  BY <1>1, <1>2
<1>5. PICK b \in Beyond : \A c \in Beyond : b <= c
  <2>1. Beyond \in SUBSET Nat /\ Beyond # {}
    BY <1>4
  <2> HIDE DEF Beyond
  <2>2. QED
    BY <2>1, LeastExists
<1>6. b \in Nat /\ b <= B - 1 /\ i < Edge(b + 1)
  BY <1>4, <1>5
<1>7. Edge(b) <= i
  <2>1. CASE b = 0
    BY <1>1, <1>2, <2>1
  <2>2. CASE b # 0
    <3>1. b - 1 \in Nat /\ b - 1 \notin Beyond /\ (b - 1) + 1 = b
      BY <1>5, <1>6, <2>2
    <3>2. ~(i < Edge(b))
      BY <3>1
    <3>3. QED
      BY <1>1, <1>3, <1>6, <3>2
  <2>3. QED
    BY <2>1, <2>2
<1>8. i \in Edge(b) .. Edge(b + 1) - 1
  BY <1>1, <1>3, <1>6, <1>7
<1>9. b \in 0 .. B - 1
  BY <1>1, <1>6
<1>10. i \in Bucket(b, n)
  BY <1>8 DEF Edge, B, Bucket
<1>11. QED
  BY <1>1, <1>9, <1>10 DEF B

LEMMA BucketInTable ==
  ASSUME NEW n \in Nat \ {0}, NEW b \in 0 .. Buckets(n) - 1
  PROVE  Bucket(b, n) \subseteq Indices(n) /\ IsFiniteSet(Bucket(b, n))
<1> DEFINE B == Buckets(n)
<1>1. B \in Nat \ {0} /\ b \in Nat /\ b + 1 <= B
  BY Sizes DEF Buckets, Least
<1> HIDE DEF B
<1>2. b * n \in Nat /\ (b + 1) * n \in Nat /\ (b + 1) * n <= B * n
  <2>1. B - (b + 1) \in Nat /\ (B - (b + 1)) * n \in Nat
    BY <1>1
  <2>2. (B - (b + 1)) * n = B * n - (b + 1) * n /\ b * n \in Nat /\ (b + 1) * n \in Nat
    BY <1>1
  <2>3. QED
    BY <1>1, <2>1, <2>2
<1>3. PICK first \in Nat : first = (b * n) \div B
  BY <1>1, <1>2
<1>4. PICK end \in Nat : end = ((b + 1) * n) \div B
  BY <1>1, <1>2
<1>5. end * B <= (b + 1) * n
  BY <1>1, <1>2, <1>4, QuotientIsUnique
<1>6. end <= n
  <2> SUFFICES ASSUME end >= n + 1 PROVE FALSE
    BY <1>4
  <2>1. end - n - 1 \in Nat /\ (end - n - 1) * B \in Nat
    BY <1>1, <1>4
  <2>2. (end - n - 1) * B = end * B - n * B - B /\ n * B = B * n
    BY <1>1, <1>4
  <2>3. end * B \in Nat /\ B * n \in Nat
    BY <1>1, <1>4
  <2>4. QED
    BY <1>1, <1>2, <1>5, <2>1, <2>2, <2>3
<1>7. Bucket(b, n) = first .. end - 1
  BY <1>3, <1>4 DEF Bucket, B
<1>8. QED
  <2>1. first .. end - 1 \subseteq 0 .. n - 1
    BY <1>3, <1>4, <1>6
  <2>2. first \in Int /\ end - 1 \in Int
    BY <1>3, <1>4
  <2>3. IsFiniteSet(first .. end - 1)
    BY <2>2, FS_Interval
  <2>4. QED
    BY <1>7, <2>1, <2>3 DEF Indices

(* The buckets of the envelope hide no sample of the table, for every      *)
(* length and every number of buckets.                                     *)
THEOREM EnvelopeAlwaysCovers == FtableSpec => []EnvelopeCoversTable
<1>1. FtableInv => EnvelopeCoversTable
  <2> SUFFICES ASSUME FtableInv, table.displayReady, NEW i \in DOMAIN table.samples
               PROVE  \E b \in DOMAIN table.envelope :
                        /\ i \in Bucket(b, Length)
                        /\ table.envelope[b][1] <= table.samples[i]
                        /\ table.samples[i] <= table.envelope[b][2]
    BY DEF EnvelopeCoversTable
  <2> DEFINE f == table.samples
             n == Length
  <2>1. /\ n \in Nat \ {0} /\ f \in [Indices(n) -> Int] /\ table.envelope = Envelope(f)
    <3>1. CopyInv /\ ShowInv(table)
      BY DEF FtableInv, TableInv
    <3>2. \A j \in Indices(Length) : Finite(copied[j]) \in Int
      BY <3>1, FiniteValues, Sizes DEF CopyInv, ShowInv, Samples
    <3>3. QED
      BY <3>1, <3>2, Sizes DEF ShowInv, CopyInv
  <2>2. i \in Indices(n) /\ DOMAIN f = Indices(n)
    BY <2>1
  <2>3. Cardinality(DOMAIN f) = n
    BY <2>1, <2>2, IndicesAreFinite
  <2>4. PICK b \in 0 .. Buckets(n) - 1 : i \in Bucket(b, n)
    BY <2>1, <2>2, EveryPlaceHasBucket
  <2> DEFINE inBucket == {f[j] : j \in Bucket(b, n)}
  <2>5. /\ DOMAIN Envelope(f) = 0 .. Buckets(n) - 1
        /\ Envelope(f)[b] = <<Min(inBucket), Max(inBucket)>>
    BY <2>3, <2>4 DEF Envelope
  <2>6. inBucket \in SUBSET Int /\ IsFiniteSet(inBucket) /\ f[i] \in inBucket
    <3> DEFINE g == [j \in Bucket(b, n) |-> f[j]]
    <3>1. Bucket(b, n) \subseteq Indices(n) /\ IsFiniteSet(Bucket(b, n))
      BY <2>1, <2>4, BucketInTable
    <3>2. IsFiniteSet({g[j] : j \in Bucket(b, n)})
      <4>1. DOMAIN g = Bucket(b, n)
        OBVIOUS
      <4> HIDE DEF g
      <4>2. QED
        BY <3>1, <4>1, ImageIsFinite
    <3>3. {g[j] : j \in Bucket(b, n)} = inBucket
      OBVIOUS
    <3>4. QED
      BY <2>1, <2>4, <3>1, <3>2, <3>3
  <2>7. IsLeast(Min(inBucket), inBucket) /\ IsMost(Max(inBucket), inBucket)
    <3>1. inBucket # {}
      BY <2>6
    <3> HIDE DEF inBucket
    <3>2. QED
      BY <2>6, <3>1, MinMax
  <2>8. QED
    BY <2>1, <2>4, <2>5, <2>6, <2>7 DEF IsLeast, IsMost
<1>2. QED
  BY <1>1, FtableInvariant, PTL

-----------------------------------------------------------------------------
(* MeterWindow                                                             *)


(* The loudest of some levels, without a choice.                           *)
Loudest(level, levels) ==
  /\ level \in levels \union {Lowest}
  /\ \A l \in levels \union {Lowest} : l <= level

Carries(levels, heardLevels) == \A c \in Channels : Loudest(levels[c], heardLevels[c])

ReportInv ==
  /\ \A i \in 1 .. Len(meterQueue) : Carries(meterQueue[i].levels, meterQueue[i].heard)
  /\ onTheWay # Nothing => Carries(onTheWay.levels, onTheWay.heard)
  /\ Carries(peaks, heard)

InRange(m, c) ==
  /\ m.peak[c] >= m.level[c] /\ m.peak[c] >= AxisMin
  /\ \E level \in {AxisMin} \union CycleLevels : m.peak[c] <= level

MarkInv == meter.hasFrame => \A c \in Channels : InRange(meter, c)

(* A level that reached its mark keeps the mark from falling.              *)
HoldInv ==
  \A r \in recent : /\ meter.hasFrame
                    /\ meter.peak[r.channel] >= r.level
                    /\ meter.held[r.channel] <= r.age

MeterInv == MeterTypeOK /\ ReportInv /\ MarkInv /\ HoldInv

MeterRecords ==
  [hasFrame : BOOLEAN, level : [Channels -> Int], peak : [Channels -> Int],
   held : [Channels -> 0 .. LongHeld], elapsed : 0 .. LongSince]

-----------------------------------------------------------------------------
(* Levels                                                                  *)

LEMMA AgesAreNaturals ==
  /\ PeakHold \in Nat /\ LongestFrame \in Nat
  /\ LongHeld \in Nat \ {0} /\ LongSince \in Nat \ {0} /\ AxisMin \in Int
BY MeterAssumption DEF LongHeld, LongSince

LEMMA LevelsAreIntegers == PeakLevels \subseteq Int /\ CycleLevels \subseteq Int /\ Lowest \in Int
BY MeterAssumption DEF PeakLevels

(* The loudest level is the maximum.                                       *)
LEMMA LoudestIsMax ==
  ASSUME NEW levels \in SUBSET CycleLevels, NEW level, Loudest(level, levels)
  PROVE  level = Max(levels \union {Lowest})
<1> DEFINE S == levels \union {Lowest}
<1>1. S \subseteq Int
  BY LevelsAreIntegers
<1>2. level \in S /\ \A l \in S : level >= l
  BY <1>1 DEF Loudest
<1>3. Max(S) \in S /\ \A l \in S : Max(S) >= l
  BY <1>2 DEF Max
<1> HIDE DEF S
<1>4. level >= Max(S) /\ Max(S) >= level /\ level \in Int /\ Max(S) \in Int
  BY <1>1, <1>2, <1>3
<1>5. level = Max(S)
  BY <1>4
<1>6. QED
  BY <1>5 DEF S

(* One more level.                                                         *)
LEMMA OneMore ==
  ASSUME NEW levels \in SUBSET CycleLevels, NEW level, Loudest(level, levels),
         NEW new \in CycleLevels
  PROVE  Loudest(IF new > level THEN new ELSE level, levels \union {new})
BY LevelsAreIntegers DEF Loudest

LEMMA LouderIsLoudest ==
  ASSUME MeterTypeOK, Carries(peaks, heard),
         NEW levels \in [Channels -> CycleLevels \union {NotANumber}], NEW c \in Channels
  PROVE  /\ Loudest(Louder(levels, c), Heard(levels)[c])
         /\ Louder(levels, c) \in PeakLevels
         /\ Heard(levels)[c] \in SUBSET CycleLevels
<1>1. heard[c] \in SUBSET CycleLevels /\ peaks[c] \in PeakLevels /\ Loudest(peaks[c], heard[c])
  BY DEF MeterTypeOK, Carries
<1>2. Heard(levels)[c] = heard[c] \union ({levels[c]} \ {NotANumber})
  BY DEF Heard
<1>3. CASE levels[c] = NotANumber
  BY <1>1, <1>2, <1>3 DEF Louder
<1>4. CASE levels[c] # NotANumber
  <2>1. levels[c] \in CycleLevels /\ Heard(levels)[c] = heard[c] \union {levels[c]}
    BY <1>2, <1>4
  <2>2. Louder(levels, c) = IF levels[c] > peaks[c] THEN levels[c] ELSE peaks[c]
    BY <1>4 DEF Louder
  <2>3. Louder(levels, c) \in PeakLevels
    BY <2>1, <2>2, <1>1 DEF PeakLevels
  <2>4. Loudest(IF levels[c] > peaks[c] THEN levels[c] ELSE peaks[c], heard[c] \union {levels[c]})
    BY <1>1, <2>1, OneMore
  <2>5. QED
    BY <1>1, <2>1, <2>2, <2>3, <2>4
<1>5. QED
  BY <1>3, <1>4

(* Nothing was heard: the lowest level stands for it.                      *)
LEMMA NothingHeard ==
  ASSUME NEW quiet, NEW silence, quiet = [c \in Channels |-> Lowest],
         silence = [c \in Channels |-> {}]
  PROVE  Carries(quiet, silence)
BY LevelsAreIntegers DEF Carries, Loudest

-----------------------------------------------------------------------------
LEMMA InitMeter == MeterInit => MeterInv
<1> SUFFICES ASSUME MeterInit PROVE MeterInv
  OBVIOUS
<1>1. Carries(peaks, heard)
  BY NothingHeard DEF MeterInit
<1>2. meter \in MeterRecords
  BY MeterAssumption DEF MeterInit, BlankMeter, MeterRecords, LongHeld, LongSince
<1>3. MeterTypeOK
  BY <1>2, MeterAssumption DEF MeterInit, MeterTypeOK, MeterRecords, PeakLevels
<1>4. QED
  BY <1>1, <1>3 DEF MeterInit, MeterInv, ReportInv, MarkInv, HoldInv, BlankMeter

(* What the opcode and the sender thread do leaves the display alone.      *)
LEMMA DisplayKept ==
  ASSUME MeterInv, UNCHANGED displayVars
  PROVE  /\ meter' \in MeterRecords /\ MarkInv' /\ HoldInv'
         /\ recent' \subseteq [age : 0 .. PeakHold, channel : Channels, level : PeakLevels]
BY DEF MeterInv, MeterTypeOK, MeterRecords, MarkInv, HoldInv, displayVars, InRange

LEMMA WatchMeterKeeps ==
  ASSUME MeterInv, NEW levels \in [Channels -> CycleLevels \union {NotANumber}],
         WatchMeter(levels)
  PROVE  MeterInv'
<1> DEFINE loudest == [c \in Channels |-> Louder(levels, c)]
           packet == [levels |-> loudest, heard |-> Heard(levels)]
<1>1. /\ MeterTypeOK /\ ReportInv /\ Carries(peaks, heard)
  BY DEF MeterInv, ReportInv
<1>2. /\ loudest \in [Channels -> PeakLevels]
      /\ Heard(levels) \in [Channels -> SUBSET CycleLevels]
      /\ Carries(loudest, Heard(levels))
  <2>1. Heard(levels) = [c \in Channels |-> Heard(levels)[c]]
    BY DEF Heard
  <2>2. QED
    BY <1>1, <2>1, LouderIsLoudest DEF Carries
<1> HIDE DEF loudest
<1>3. packet \in MeterPackets
  BY <1>2 DEF MeterPackets
<1>4. cycles' \in 0 .. FramesPerPacket - 1
  BY <1>1, MeterAssumption DEF WatchMeter, MeterTypeOK
<1>5. meter' \in MeterRecords /\ MarkInv' /\ HoldInv'
      /\ recent' \subseteq [age : 0 .. PeakHold, channel : Channels, level : PeakLevels]
  BY DisplayKept DEF WatchMeter
<1>6. onTheWay' \in MeterPackets \union {Nothing}
      /\ (onTheWay' # Nothing => Carries(onTheWay'.levels, onTheWay'.heard))
  BY <1>1 DEF WatchMeter, MeterTypeOK, ReportInv
<1>7. CASE cycles + 1 = FramesPerPacket /\ ~MeterQueueFull
  <2>1. /\ meterQueue' = Append(meterQueue, packet)
        /\ peaks' = SilentPeaks /\ heard' = [c \in Channels |-> {}]
    BY <1>7 DEF WatchMeter, loudest
  <2>2. Carries(peaks', heard')
    BY <2>1, NothingHeard DEF SilentPeaks
  <2>3. /\ peaks' \in [Channels -> PeakLevels] /\ heard' \in [Channels -> SUBSET CycleLevels]
    BY <2>1 DEF SilentPeaks, PeakLevels
  <2> HIDE DEF packet
  <2>4. meterQueue' \in Seq(MeterPackets) /\ Len(meterQueue') < MeterQueue
    BY <1>1, <1>3, <1>7, <2>1, MeterAssumption DEF MeterTypeOK, MeterQueueFull
  <2>5. Carries(packet.levels, packet.heard)
    BY <1>2 DEF packet
  <2>6. ASSUME NEW i \in 1 .. Len(meterQueue')
        PROVE  Carries(meterQueue'[i].levels, meterQueue'[i].heard)
    <3>1. meterQueue \in Seq(MeterPackets)
      BY <1>1 DEF MeterTypeOK
    <3>2. \/ i \in 1 .. Len(meterQueue) /\ meterQueue'[i] = meterQueue[i]
          \/ meterQueue'[i] = packet
      BY <2>1, <1>3, <3>1
    <3>3. QED
      BY <3>2, <2>5, <1>1 DEF ReportInv
  <2>7. QED
    BY <1>4, <1>5, <1>6, <2>2, <2>3, <2>4, <2>6
       DEF MeterInv, MeterTypeOK, ReportInv, MeterRecords
<1>8. CASE ~(cycles + 1 = FramesPerPacket /\ ~MeterQueueFull)
  <2>1. peaks' = loudest /\ heard' = Heard(levels) /\ UNCHANGED meterQueue
    BY <1>8 DEF WatchMeter, loudest
  <2>2. QED
    BY <1>1, <1>2, <1>4, <1>5, <1>6, <2>1
       DEF MeterInv, MeterTypeOK, ReportInv, MeterRecords
<1>9. QED
  BY <1>7, <1>8

LEMMA SendMeterPacketKeeps ==
  ASSUME MeterInv, SendMeterPacket
  PROVE  MeterInv'
<1>1. meterQueue \in Seq(MeterPackets) /\ meterQueue # <<>>
  BY DEF MeterInv, MeterTypeOK, SendMeterPacket
<1>2. /\ Len(meterQueue') = Len(meterQueue) - 1 /\ Len(meterQueue) \in Nat \ {0}
      /\ meterQueue' \in Seq(MeterPackets) /\ onTheWay' = meterQueue[1]
      /\ \A i \in 1 .. Len(meterQueue') : meterQueue'[i] = meterQueue[i + 1]
  BY <1>1 DEF SendMeterPacket
<1>3. meterQueue[1] \in MeterPackets /\ Len(meterQueue') < MeterQueue
  BY <1>1, <1>2, MeterAssumption DEF MeterInv, MeterTypeOK
<1>4. /\ \A i \in 1 .. Len(meterQueue') : Carries(meterQueue'[i].levels, meterQueue'[i].heard)
      /\ Carries(onTheWay'.levels, onTheWay'.heard)
  BY <1>2 DEF MeterInv, ReportInv
<1>5. UNCHANGED <<peaks, heard, cycles>> /\ UNCHANGED displayVars
  BY DEF SendMeterPacket, opcodeVars
<1>6. QED
  BY <1>2, <1>3, <1>4, <1>5, DisplayKept DEF MeterInv, MeterTypeOK, ReportInv, MeterRecords

LEMMA LoseMeterPacketKeeps ==
  ASSUME MeterInv, LoseMeterPacket
  PROVE  MeterInv'
BY DisplayKept DEF LoseMeterPacket, MeterInv, MeterTypeOK, ReportInv, MeterRecords, opcodeVars

-----------------------------------------------------------------------------
(* The display                                                             *)

LEMMA OlderKeepsRange ==
  ASSUME NEW oldest \in Nat, NEW age \in 0 .. oldest
  PROVE  /\ Older(age, oldest) \in 0 .. oldest
         /\ Older(age, oldest) <= age + 1
BY DEF Older

(* What the display does leaves the opcode and the queue alone.            *)
LEMMA PathKept ==
  ASSUME MeterInv, UNCHANGED <<opcodeVars, meterQueue>>,
         onTheWay' = onTheWay \/ onTheWay' = Nothing,
         meter' \in MeterRecords,
         recent' \subseteq [age : 0 .. PeakHold, channel : Channels, level : PeakLevels]
  PROVE  MeterTypeOK' /\ ReportInv'
BY DEF MeterInv, MeterTypeOK, ReportInv, MeterRecords, opcodeVars

LEMMA MeterTickKeeps ==
  ASSUME MeterInv, MeterTick
  PROVE  MeterInv'
<1>1. /\ meter \in MeterRecords /\ meter.hasFrame
      /\ recent \subseteq [age : 0 .. PeakHold, channel : Channels, level : PeakLevels]
      /\ LongHeld \in Nat /\ LongSince \in Nat /\ PeakHold \in Nat
  BY AgesAreNaturals DEF MeterInv, MeterTypeOK, MeterTick, MeterRecords
<1>2. [c \in Channels |-> Older(meter.held[c], LongHeld)] \in [Channels -> 0 .. LongHeld]
  BY <1>1, OlderKeepsRange DEF MeterRecords
<1>3. Older(meter.elapsed, LongSince) \in 0 .. LongSince
  BY <1>1, OlderKeepsRange DEF MeterRecords
<1>4. /\ meter' \in MeterRecords /\ meter'.hasFrame
      /\ meter'.level = meter.level /\ meter'.peak = meter.peak
      /\ meter'.held = [c \in Channels |-> Older(meter.held[c], LongHeld)]
  BY <1>1, <1>2, <1>3 DEF MeterTick, MeterRecords
<1>5. recent' = {[r EXCEPT !.age = @ + 1] : r \in {r \in recent : r.age < PeakHold}}
  BY DEF MeterTick
<1>6. ASSUME NEW r \in recent'
      PROVE  /\ r \in [age : 0 .. PeakHold, channel : Channels, level : PeakLevels]
             /\ meter'.peak[r.channel] >= r.level /\ meter'.held[r.channel] <= r.age
  <2>1. PICK old \in recent : r = [old EXCEPT !.age = @ + 1] /\ old.age < PeakHold
    BY <1>5
  <2>2. old \in [age : 0 .. PeakHold, channel : Channels, level : PeakLevels]
    BY <1>1, <2>1
  <2>3. /\ r \in [age : 0 .. PeakHold, channel : Channels, level : PeakLevels]
        /\ r.age = old.age + 1 /\ r.channel = old.channel /\ r.level = old.level
    BY <1>1, <2>1, <2>2
  <2>4. meter.peak[old.channel] >= old.level /\ meter.held[old.channel] <= old.age
    BY <2>1 DEF MeterInv, HoldInv
  <2>5. meter.held[old.channel] \in 0 .. LongHeld /\ old.channel \in Channels /\ old.age \in Nat
    BY <1>1, <2>2 DEF MeterRecords
  <2>6. meter'.held[r.channel] <= r.age
    <3>1. meter'.held[r.channel] = Older(meter.held[old.channel], LongHeld)
      BY <1>4, <2>3, <2>5
    <3>2. /\ Older(meter.held[old.channel], LongHeld) <= meter.held[old.channel] + 1
          /\ Older(meter.held[old.channel], LongHeld) \in 0 .. LongHeld
      BY <1>1, <2>5, OlderKeepsRange
    <3>3. QED
      BY <1>1, <3>1, <3>2, <2>3, <2>4, <2>5
  <2>7. QED
    BY <1>4, <2>3, <2>4, <2>6
<1>7. MarkInv'
  BY <1>1, <1>4 DEF MeterInv, MarkInv, InRange
<1>8. HoldInv'
  BY <1>4, <1>6 DEF HoldInv
<1>9. QED
  BY <1>4, <1>6, <1>7, <1>8, PathKept DEF MeterInv, MeterTick

(* The display before a packet is put in it: silent at first.              *)
LEMMA SilenceIsInRange ==
  ASSUME MeterInv
  PROVE  /\ FromSilence \in MeterRecords /\ FromSilence.hasFrame
         /\ \A c \in Channels : InRange(FromSilence, c)
         /\ \A r \in recent : FromSilence = meter
<1>1. meter \in MeterRecords /\ AxisMin \in Int /\ LongSince \in Nat
  BY AgesAreNaturals DEF MeterInv, MeterTypeOK, MeterRecords
<1>2. CASE meter.hasFrame
  BY <1>1, <1>2 DEF FromSilence, MeterInv, MarkInv
<1>3. CASE ~meter.hasFrame
  <2> DEFINE silent == [c \in Channels |-> AxisMin]
  <2>0. silent \in [Channels -> Int]
    BY <1>1
  <2> HIDE DEF silent
  <2>1. /\ FromSilence \in MeterRecords /\ FromSilence.hasFrame
        /\ FromSilence.level = silent /\ FromSilence.peak = silent
    <3>1. FromSilence = [meter EXCEPT !.hasFrame = TRUE, !.elapsed = 0,
                                      !.level = silent, !.peak = silent]
      BY <1>3 DEF FromSilence, silent
    <3>2. 0 \in 0 .. LongSince
      BY <1>1
    <3>3. FromSilence = [hasFrame |-> TRUE, level |-> silent, peak |-> silent,
                         held |-> meter.held, elapsed |-> 0]
      BY <1>1, <3>1 DEF MeterRecords
    <3>4. meter.held \in [Channels -> 0 .. LongHeld]
      BY <1>1 DEF MeterRecords
    <3>5. QED
      BY <2>0, <3>2, <3>3, <3>4 DEF MeterRecords
  <2>2. recent = {}
    BY <1>3 DEF MeterInv, HoldInv
  <2>3. QED
    BY <1>1, <2>1, <2>2 DEF InRange, silent
<1>4. QED
  BY <1>2, <1>3

LEMMA ReceiveMeterPacketKeeps ==
  ASSUME MeterInv, ReceiveMeterPacket
  PROVE  MeterInv'
<1> DEFINE levels == onTheWay.levels
           shown == FromSilence
           Renewed(c) == Raises(levels[c], shown.peak[c])
<1>1. /\ levels \in [Channels -> PeakLevels] /\ levels \in [Channels -> Int]
  BY LevelsAreIntegers DEF MeterInv, MeterTypeOK, MeterPackets, ReceiveMeterPacket
<1>2. /\ shown \in MeterRecords /\ shown.hasFrame
      /\ \A c \in Channels : InRange(shown, c)
      /\ \A r \in recent : shown = meter
  BY SilenceIsInRange
<1>3. meter' = [shown EXCEPT
        !.level = levels,
        !.peak = [c \in Channels |-> IF Renewed(c) THEN levels[c] ELSE shown.peak[c]],
        !.held = [c \in Channels |-> IF Renewed(c) THEN 0 ELSE shown.held[c]]]
  BY DEF ReceiveMeterPacket
<1>4. recent' = recent \union
        {[age |-> 0, channel |-> c, level |-> levels[c]] :
           c \in {c \in Channels : levels[c] >= shown.peak[c]}}
  BY DEF ReceiveMeterPacket
<1> HIDE DEF levels, shown
<1>5. /\ meter' \in MeterRecords /\ meter'.hasFrame /\ meter'.level = levels
      /\ \A c \in Channels :
           /\ meter'.peak[c] = IF levels[c] >= shown.peak[c] THEN levels[c] ELSE shown.peak[c]
           /\ meter'.held[c] = IF levels[c] >= shown.peak[c] THEN 0 ELSE shown.held[c]
  <2>1. LongHeld \in Nat
    BY MeterAssumption DEF LongHeld
  <2>2. /\ [c \in Channels |-> IF Renewed(c) THEN levels[c] ELSE shown.peak[c]] \in [Channels -> Int]
        /\ [c \in Channels |-> IF Renewed(c) THEN 0 ELSE shown.held[c]]
             \in [Channels -> 0 .. LongHeld]
    BY <1>1, <1>2, <2>1 DEF MeterRecords
  <2>3. QED
    BY <1>1, <1>2, <1>3, <2>2 DEF MeterRecords, Raises
<1>6. ASSUME NEW c \in Channels
      PROVE  InRange(meter', c)
  <2>1. /\ levels[c] \in Int /\ levels[c] \in PeakLevels /\ shown.peak[c] \in Int
        /\ AxisMin \in Int /\ Lowest < AxisMin /\ InRange(shown, c)
    BY <1>1, <1>2, MeterAssumption DEF MeterRecords
  <2>2. CASE levels[c] >= shown.peak[c]
    <3>1. levels[c] >= AxisMin
      BY <2>1, <2>2 DEF InRange
    <3>2. levels[c] \in CycleLevels
      BY <2>1, <3>1, LevelsAreIntegers DEF PeakLevels
    <3>3. QED
      BY <1>5, <2>1, <2>2, <3>1, <3>2 DEF InRange
  <2>3. CASE ~(levels[c] >= shown.peak[c])
    BY <1>5, <2>1, <2>3 DEF InRange
  <2>4. QED
    BY <2>2, <2>3
<1>7. PeakHold \in Nat
  BY MeterAssumption
<1>8. ASSUME NEW r \in recent'
      PROVE  /\ r \in [age : 0 .. PeakHold, channel : Channels, level : PeakLevels]
             /\ meter'.peak[r.channel] >= r.level /\ meter'.held[r.channel] <= r.age
  <2>1. CASE r \in recent
    <3>1. /\ r \in [age : 0 .. PeakHold, channel : Channels, level : PeakLevels]
          /\ shown.peak[r.channel] >= r.level /\ shown.held[r.channel] <= r.age
      BY <2>1, <1>2 DEF MeterInv, MeterTypeOK, HoldInv
    <3>2. /\ r.level \in Int /\ r.age \in Nat /\ r.channel \in Channels
          /\ levels[r.channel] \in Int /\ shown.peak[r.channel] \in Int
          /\ shown.held[r.channel] \in Nat
      <4>1. r.channel \in Channels /\ r.age \in 0 .. PeakHold /\ r.level \in PeakLevels
        BY <3>1
      <4>2. shown.peak[r.channel] \in Int /\ shown.held[r.channel] \in 0 .. LongHeld
        BY <1>2, <4>1 DEF MeterRecords
      <4>3. r.level \in Int
        BY <4>1, LevelsAreIntegers
      <4>4. r.age \in Nat /\ shown.held[r.channel] \in Nat
        BY <4>1, <4>2
      <4>5. levels[r.channel] \in Int
        BY <1>1, <4>1
      <4>6. QED
        BY <4>1, <4>2, <4>3, <4>4, <4>5
    <3>3. QED
      BY <3>1, <3>2, <1>5
  <2>2. CASE r \notin recent
    <3>1. PICK c \in Channels : /\ levels[c] >= shown.peak[c]
                                /\ r = [age |-> 0, channel |-> c, level |-> levels[c]]
      BY <2>2, <1>4
    <3>2. levels[c] \in Int /\ levels[c] \in PeakLevels
      BY <1>1, <3>1
    <3>3. meter'.peak[c] = levels[c] /\ meter'.held[c] = 0
      BY <1>5, <3>1
    <3>4. QED
      BY <1>7, <3>1, <3>2, <3>3
  <2>3. QED
    BY <2>1, <2>2
<1>9. MarkInv' /\ HoldInv'
  <2>1. MarkInv'
    BY <1>6 DEF MarkInv, InRange
  <2>2. HoldInv'
    BY <1>5, <1>8 DEF HoldInv
  <2>3. QED
    BY <2>1, <2>2
<1>10. UNCHANGED <<opcodeVars, meterQueue>> /\ onTheWay' = Nothing
  BY DEF ReceiveMeterPacket
<1>11. QED
  BY <1>5, <1>8, <1>9, <1>10, PathKept DEF MeterInv

LEMMA RenderMeterKeeps ==
  ASSUME MeterInv, RenderMeter
  PROVE  MeterInv'
<1>1. /\ meter \in MeterRecords /\ meter.hasFrame
      /\ recent \subseteq [age : 0 .. PeakHold, channel : Channels, level : PeakLevels]
      /\ LongSince \in Nat /\ PeakHold \in Nat /\ AxisMin \in Int
  BY AgesAreNaturals DEF MeterInv, MeterTypeOK, RenderMeter, MeterRecords
<1>2. PICK released \in [Channels -> UNION {Release(c) : c \in Channels}] :
        /\ \A c \in Channels : released[c] \in Release(c)
        /\ meter' = [meter EXCEPT !.elapsed = 0,
                                  !.peak = [c \in Channels |-> Fallen(c, released[c])]]
  BY DEF RenderMeter
<1>3. ASSUME NEW c \in Channels
      PROVE  /\ meter.peak[c] \in Int /\ meter.level[c] \in Int
             /\ released[c] \in Int /\ released[c] >= AxisMin
             /\ released[c] <= meter.peak[c]
             /\ ~Falls(c) => released[c] = meter.peak[c]
             /\ Fallen(c, released[c]) \in Int
             /\ Fallen(c, released[c]) >= meter.level[c]
             /\ Fallen(c, released[c]) >= AxisMin
             /\ Fallen(c, released[c]) <= meter.peak[c]
             /\ released[c] = meter.peak[c] => Fallen(c, released[c]) = meter.peak[c]
  <2>1. /\ meter.peak[c] \in Int /\ meter.level[c] \in Int
        /\ meter.peak[c] >= meter.level[c] /\ meter.peak[c] >= AxisMin
    BY <1>1 DEF MeterRecords, MeterInv, MarkInv, InRange
  <2>2. released[c] \in Release(c)
    BY <1>2
  <2>3. /\ released[c] \in Int /\ released[c] >= AxisMin /\ released[c] <= meter.peak[c]
        /\ ~Falls(c) => released[c] = meter.peak[c]
    BY <1>1, <2>1, <2>2 DEF Release
  <2>4. QED
    BY <1>1, <2>1, <2>3 DEF Fallen
<1>4. /\ meter' \in MeterRecords /\ meter'.hasFrame
      /\ meter'.level = meter.level /\ meter'.held = meter.held
      /\ \A c \in Channels : meter'.peak[c] = Fallen(c, released[c])
  <2>1. [c \in Channels |-> Fallen(c, released[c])] \in [Channels -> Int]
    BY <1>3
  <2> DEFINE marks == [c \in Channels |-> Fallen(c, released[c])]
  <2> HIDE DEF marks
  <2>2. meter' = [meter EXCEPT !.elapsed = 0, !.peak = marks] /\ marks \in [Channels -> Int]
    BY <1>2, <2>1 DEF marks
  <2>3. /\ meter' \in MeterRecords /\ meter'.hasFrame /\ meter'.peak = marks
        /\ meter'.level = meter.level /\ meter'.held = meter.held
    <3>1. 0 \in 0 .. LongSince
      BY <1>1
    <3>2. meter' = [hasFrame |-> TRUE, level |-> meter.level, peak |-> marks,
                    held |-> meter.held, elapsed |-> 0]
      BY <1>1, <2>2 DEF MeterRecords
    <3>3. meter.held \in [Channels -> 0 .. LongHeld] /\ meter.level \in [Channels -> Int]
      BY <1>1 DEF MeterRecords
    <3>4. marks \in [Channels -> Int]
      BY <2>2
    <3>5. QED
      BY <3>1, <3>2, <3>3, <3>4 DEF MeterRecords
  <2>4. QED
    BY <2>3 DEF marks
<1>5. ASSUME NEW c \in Channels
      PROVE  InRange(meter', c)
  <2>1. PICK level \in {AxisMin} \union CycleLevels : meter.peak[c] <= level
    BY <1>1 DEF MeterInv, MarkInv, InRange
  <2>2. level \in Int
    BY <1>1, <2>1, LevelsAreIntegers
  <2>3. meter'.peak[c] <= level
    BY <1>3, <1>4, <2>1, <2>2
  <2>4. QED
    BY <1>3, <1>4, <2>1, <2>3 DEF InRange
<1>6. MarkInv'
  BY <1>5 DEF MarkInv, InRange
<1>7. HoldInv'
  <2> SUFFICES ASSUME NEW r \in recent
               PROVE  /\ meter'.peak[r.channel] >= r.level
                      /\ meter'.held[r.channel] <= r.age
    BY <1>4 DEF HoldInv, RenderMeter
  <2>1. /\ r.age \in 0 .. PeakHold /\ r.channel \in Channels
        /\ meter.peak[r.channel] >= r.level /\ meter.held[r.channel] <= r.age
        /\ meter.held[r.channel] \in Int
    BY <1>1, MeterAssumption DEF MeterInv, HoldInv, MeterRecords, LongHeld
  <2>2. ~Falls(r.channel)
    BY <1>1, <2>1 DEF Falls
  <2>3. meter'.peak[r.channel] = meter.peak[r.channel]
    BY <1>3, <1>4, <2>1, <2>2
  <2>4. QED
    BY <1>4, <2>1, <2>3
<1>8. UNCHANGED <<opcodeVars, meterQueue>> /\ onTheWay' = onTheWay /\ recent' = recent
  BY DEF RenderMeter
<1>9. QED
  BY <1>1, <1>4, <1>6, <1>7, <1>8, PathKept DEF MeterInv

-----------------------------------------------------------------------------
LEMMA NextMeter == MeterInv /\ [MeterNext]_meterVars => MeterInv'
<1> SUFFICES ASSUME MeterInv, [MeterNext]_meterVars PROVE MeterInv'
  OBVIOUS
<1>1. ASSUME NEW levels \in [Channels -> CycleLevels \union {NotANumber}], WatchMeter(levels)
      PROVE  MeterInv'
  BY <1>1, WatchMeterKeeps
<1>2. CASE SendMeterPacket
  BY <1>2, SendMeterPacketKeeps
<1>3. CASE LoseMeterPacket
  BY <1>3, LoseMeterPacketKeeps
<1>4. CASE MeterTick
  BY <1>4, MeterTickKeeps
<1>5. CASE ReceiveMeterPacket
  BY <1>5, ReceiveMeterPacketKeeps
<1>6. CASE RenderMeter
  BY <1>6, RenderMeterKeeps
<1>7. CASE UNCHANGED meterVars
  BY <1>7 DEF meterVars, opcodeVars, displayVars, MeterInv, MeterTypeOK, ReportInv, MarkInv,
              HoldInv, InRange
<1>8. QED
  BY <1>1, <1>2, <1>3, <1>4, <1>5, <1>6, <1>7 DEF MeterNext

LEMMA MeterInvariant == MeterSpec => []MeterInv
BY InitMeter, NextMeter, PTL DEF MeterSpec

LEMMA ReportsTheMaximum == MeterInv => EveryPeakReportedOnce
<1> SUFFICES ASSUME MeterInv PROVE EveryPeakReportedOnce
  OBVIOUS
<1>1. ASSUME NEW levels, NEW heardLevels \in [Channels -> SUBSET CycleLevels],
             Carries(levels, heardLevels), NEW c \in Channels
      PROVE  levels[c] = Max(heardLevels[c] \union {Lowest})
  BY <1>1, LoudestIsMax DEF Carries
<1>2. ASSUME NEW packet \in MeterPackets, Carries(packet.levels, packet.heard)
      PROVE  Reports(packet)
  <2>1. packet.heard \in [Channels -> SUBSET CycleLevels]
    BY <1>2 DEF MeterPackets
  <2>2. QED
    BY <1>1, <1>2, <2>1 DEF Reports
<1>3. ASSUME NEW i \in 1 .. Len(meterQueue)
      PROVE  Reports(meterQueue[i])
  BY <1>2 DEF MeterInv, MeterTypeOK, ReportInv
<1>4. onTheWay # Nothing => Reports(onTheWay)
  BY <1>2 DEF MeterInv, MeterTypeOK, ReportInv
<1>5. Reports([levels |-> peaks, heard |-> heard])
  <2>1. [levels |-> peaks, heard |-> heard] \in MeterPackets
    BY DEF MeterInv, MeterTypeOK, MeterPackets
  <2>2. QED
    BY <1>2, <2>1 DEF MeterInv, ReportInv
<1>6. QED
  BY <1>3, <1>4, <1>5 DEF EveryPeakReportedOnce

-----------------------------------------------------------------------------
(* The state of a meter has its type, along its whole way.                 *)
THEOREM MeterTypeCorrect == MeterSpec => []MeterTypeOK
<1>1. MeterInv => MeterTypeOK
  BY DEF MeterInv
<1>2. QED
  BY <1>1, MeterInvariant, PTL

(* watch_meter and its queue: every packet carries the loudest level since *)
(* the packet before it, also of the packets a full queue refused.         *)
THEOREM EveryPeakIsReported == MeterSpec => []EveryPeakReportedOnce
BY ReportsTheMaximum, MeterInvariant, PTL

(* process_meter_packet and render_meter: a mark never is within a bar,    *)
(* nor above everything that was received.                                 *)
THEOREM MarkStaysInPlace == MeterSpec => []MarkIsInPlace
<1>1. MeterInv => MarkIsInPlace
  BY DEF MeterInv, MarkInv, InRange, MarkIsInPlace
<1>2. QED
  BY <1>1, MeterInvariant, PTL

(* render_meter lets no mark fall below a level that reached it less than  *)
(* the hold ago, in whatever order packets arrive and frames are drawn.    *)
THEOREM MarkStaysHeld == MeterSpec => []MarkIsHeld
<1>1. MeterInv => MarkIsHeld
  BY DEF MeterInv, HoldInv, MarkIsHeld
<1>2. QED
  BY <1>1, MeterInvariant, PTL
==============================================================================
