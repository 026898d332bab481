------------------------- MODULE WatchRegistry_proofs --------------------------
(***************************************************************************)
(* Proofs about WatchRegistry for every size of the registry, every set of *)
(* opcode instances and handle variables, and every interleaving of init,  *)
(* perf and deinit calls with the sender thread.                           *)
(***************************************************************************)
EXTENDS WatchRegistry, FiniteSetTheorems, TLAPS

(* Slots that are taken, and what holds of the slots of a graph.           *)
Occupied(g) == {k \in StreamSlots : g.streams[k] # NoStream}

SlotsInv(g) ==
  /\ g.streamCount = Cardinality(Occupied(g))
  /\ \A j, k \in Occupied(g) : g.streams[j] = g.streams[k] => j = k

(* The counters agree with the slots; identifiers are unique.              *)
CountInv ==
  /\ graphCount = Cardinality(Registered)
  /\ \A i \in Registered : SlotsInv(graphs[i])
  /\ \A i, j \in Registered : graphs[i].id = graphs[j].id => i = j

(* What a call in progress is about, and what it has done already.         *)
OpInv ==
  /\ op.step \in {"replace", "drop"} => op.instance \in Displays
  /\ op.step = "register" =>
       op.instance \in Creators /\ handle[CellOf[op.instance]] = InvalidHandle
  /\ op.step = "attach" => op.instance \in Attachers
  /\ op.step = "fill" => op.instance \in Attachers /\ streamOf[op.instance] # NoStream
  /\ op.step \in {"replace", "register", "attach", "fill"} => op.instance \in active
  /\ op.step \in {"replace", "register", "attach", "drop"} /\ op.instance \in Attachers =>
       streamOf[op.instance] = NoStream
  /\ \A p \in Attachers : streamOf[p] # NoStream => p \in active
  /\ session = "reset" => Idle /\ active = {} /\ Registered = {}

(* Allocated streams and places in graphs correspond to each other, and an *)
(* instance has a stream of its own that is not released.                  *)
StreamInv ==
  /\ \A i \in Registered : \A s \in StreamsOf(graphs[i]) : heap[s] # Unused
  /\ \A i, j \in Registered :
       \A s \in StreamsOf(graphs[i]) \intersect StreamsOf(graphs[j]) : i = j
  /\ \A s \in Heap : heap[s] # Unused => \E i \in Registered : s \in StreamsOf(graphs[i])
  /\ \A p \in Attachers : streamOf[p] # NoStream =>
       heap[streamOf[p]] # Unused /\ ~heap[streamOf[p]].released
  /\ \A p, q \in Attachers : streamOf[p] # NoStream /\ streamOf[p] = streamOf[q] => p = q

(* Every stream has been released, or has an instance that will do so.     *)
OwnerInv ==
  \A s \in Heap : heap[s] # Unused =>
    heap[s].released \/ \E p \in active \intersect Attachers : streamOf[p] = s

(* A handle variable and the graph that is not to be destroyed name each   *)
(* other.                                                                  *)
HandleInv ==
  /\ \A c \in Cells : session # "reset" /\ handle[c] # InvalidHandle =>
       \E i \in Registered : /\ graphs[i].id = handle[c] /\ ~graphs[i].destroyRequested
                             /\ CellOf[graphs[i].owner] = c
  /\ \A i \in Registered : ~graphs[i].destroyRequested =>
       /\ handle[CellOf[graphs[i].owner]] = graphs[i].id
       /\ \/ graphs[i].owner \in active
          \/ op.step = "drop" /\ op.instance = graphs[i].owner

RegistryInv == TypeOK /\ CountInv /\ OpInv /\ StreamInv

(* Steps that leave the streams and the names of the graphs alone, and     *)
(* steps that neither allocate nor free a stream.                          *)
GraphArrays == [GraphSlots -> Graphs \union {NoGraph}]
Heaps == [Heap -> Streams \union {Unused}]

GraphsKept ==
  /\ graphs' \in GraphArrays /\ Registered' = Registered
  /\ \A i \in Registered :
       /\ graphs'[i].id = graphs[i].id /\ graphs'[i].owner = graphs[i].owner
       /\ graphs'[i].streams = graphs[i].streams
       /\ graphs'[i].streamCount = graphs[i].streamCount

HeapKept ==
  heap' \in Heaps /\ \A s \in Heap : (heap'[s] = Unused) <=> (heap[s] = Unused)

-----------------------------------------------------------------------------
(* Natural numbers and rings of identifiers                                *)

(* A set of naturals has a least element.                                  *)
LEMMA LeastExists ==
  ASSUME NEW T \in SUBSET Nat, T # {}
  PROVE  \E x \in T : \A y \in T : x <= y
<1> DEFINE Less == {r \in Nat \X Nat : r[1] < r[2]}
<1>1. IsWellFoundedOn(Less, Nat)
  BY NatLessThanWellFounded DEF OpToRel
<1>2. \E x \in T : \A y \in T : <<y, x>> \notin Less
  <2> HIDE DEF Less
  <2>1. QED
    BY <1>1, WFMin
<1>3. PICK x \in T : \A y \in T : <<y, x>> \notin Less
  BY <1>2
<1>4. ASSUME NEW y \in T PROVE x <= y
  <2>1. x \in Nat /\ y \in Nat
    OBVIOUS
  <2>2. ~(y < x)
    BY <1>3, <2>1
  <2>3. QED
    BY <2>1, <2>2
<1>5. QED
  BY <1>4

LEMMA LeastIsThere ==
  ASSUME NEW T \in SUBSET Nat, T # {}
  PROVE  Least(T) \in T
BY LeastExists DEF Least

(* Two places less than a round apart are different.                       *)
LEMMA OffsetsDiffer ==
  ASSUME NEW id \in Handles, NEW j \in 0 .. Capacity, NEW k \in 0 .. Capacity,
         Offset(id, j) = Offset(id, k)
  PROVE  j = k
<1>1. /\ MaxHandleId \in Nat \ {0} /\ Capacity \in Nat /\ Capacity < MaxHandleId
      /\ id \in Int /\ j \in Int /\ k \in Int
  BY RegistryAssumption DEF Handles
<1> DEFINE a == id + j - 1
           b == id + k - 1
           n == MaxHandleId
<1>2. a \in Int /\ b \in Int /\ n \in Nat \ {0} /\ b - a = k - j
  BY <1>1
<1>3. (a % n) = (b % n)
  BY <1>1 DEF Offset
<1>4. a = (a \div n) * n + (a % n) /\ b = (b \div n) * n + (b % n)
  <2> HIDE DEF a, b, n
  <2>1. QED
    BY <1>2
<1>5. PICK q \in Int, r \in Int : a = q * n + (a % n) /\ b = r * n + (b % n)
  <2> HIDE DEF a, b, n
  <2>1. (a \div n) \in Int /\ (b \div n) \in Int
    BY <1>2
  <2>2. QED
    BY <1>4, <2>1
<1> DEFINE m == a % n
<1>6. m \in Int /\ a = q * n + m /\ b = r * n + m
  <2>1. (a % n) \in Int
    BY <1>2
  <2>2. QED
    BY <1>3, <1>5, <2>1
<1> HIDE DEF a, b, n, m
<1>7. b - a = (r - q) * n
  <2>1. (r - q) * n = r * n - q * n /\ r * n \in Int /\ q * n \in Int
    BY <1>2
  <2>2. QED
    BY <1>6, <2>1
<1>8. ASSUME NEW z \in Int, z >= 1 PROVE z * n >= n
  BY <1>2, <1>8
<1>9. r - q <= 0
  <2> SUFFICES ASSUME r - q >= 1 PROVE FALSE
    OBVIOUS
  <2>1. (r - q) * n >= n /\ (r - q) * n \in Int
    BY <1>2, <1>8
  <2>2. k - j < n
    BY <1>1 DEF n
  <2>3. QED
    BY <1>1, <1>2, <1>7, <2>1, <2>2
<1>10. r - q >= 0
  <2> SUFFICES ASSUME q - r >= 1 PROVE FALSE
    OBVIOUS
  <2>1. (q - r) * n >= n /\ (q - r) * n = -((r - q) * n)
    BY <1>2, <1>8
  <2>2. j - k < n
    BY <1>1 DEF n
  <2>3. QED
    BY <1>1, <1>2, <1>7, <2>1, <2>2
<1>11. (r - q) * n = 0
  BY <1>2, <1>9, <1>10
<1>12. QED
  BY <1>1, <1>2, <1>7, <1>11

LEMMA OffsetIsHandle ==
  ASSUME NEW id \in Handles, NEW k \in Nat
  PROVE  Offset(id, k) \in Handles
<1>1. MaxHandleId \in Nat \ {0} /\ id + k - 1 \in Int
  BY RegistryAssumption DEF Handles
<1> DEFINE a == id + k - 1
<1>2. (a % MaxHandleId) \in 0 .. MaxHandleId - 1
  <2> HIDE DEF a
  <2>1. a \in Int
    BY <1>1 DEF a
  <2>2. QED
    BY <1>1, <2>1
<1>3. Offset(id, k) = (a % MaxHandleId) + 1
  BY DEF Offset
<1> HIDE DEF a
<1>4. QED
  BY <1>1, <1>2, <1>3 DEF Handles

-----------------------------------------------------------------------------
(* The registry                                                            *)

LEMMA RegistryIsFinite ==
  /\ IsFiniteSet(GraphSlots) /\ Cardinality(GraphSlots) = Capacity
  /\ IsFiniteSet(StreamSlots) /\ Cardinality(StreamSlots) = MaxStreams
  /\ Capacity \in Nat /\ MaxStreams \in Nat
<1>1. Capacity \in Nat \ {0} /\ MaxStreams \in Nat \ {0}
  BY RegistryAssumption
<1>2. ASSUME NEW n \in Nat \ {0}
      PROVE  IsFiniteSet(0 .. n - 1) /\ Cardinality(0 .. n - 1) = n
  BY FS_Interval
<1>3. QED
  BY <1>1, <1>2 DEF GraphSlots, StreamSlots

LEMMA RegisteredIsFinite ==
  /\ IsFiniteSet(Registered) /\ Cardinality(Registered) \in 0 .. Capacity
  /\ \A T \in SUBSET Registered : IsFiniteSet(T) /\ Cardinality(T) \in 0 .. Capacity
<1>1. Registered \subseteq GraphSlots
  BY DEF Registered
<1>2. ASSUME NEW T \in SUBSET GraphSlots
      PROVE  IsFiniteSet(T) /\ Cardinality(T) \in 0 .. Capacity
  <2>1. IsFiniteSet(T) /\ Cardinality(T) <= Capacity
    BY RegistryIsFinite, FS_Subset
  <2>2. Cardinality(T) \in Nat
    BY <2>1, FS_CardinalityType
  <2>3. QED
    BY <2>1, <2>2, RegistryIsFinite
<1>3. QED
  BY <1>1, <1>2

LEMMA OccupiedIsFinite ==
  ASSUME NEW g
  PROVE  IsFiniteSet(Occupied(g)) /\ Cardinality(Occupied(g)) \in 0 .. MaxStreams
<1>1. Occupied(g) \in SUBSET StreamSlots
  BY DEF Occupied
<1>2. IsFiniteSet(Occupied(g)) /\ Cardinality(Occupied(g)) <= MaxStreams
  BY <1>1, RegistryIsFinite, FS_Subset
<1>3. QED
  BY <1>2, RegistryIsFinite, FS_CardinalityType

(* There is a place for a graph that does not find the registry full.      *)
LEMMA FreeSlotExists ==
  ASSUME CountInv, graphCount < Capacity
  PROVE  Least(GraphSlots \ Registered) \in GraphSlots \ Registered
<1>1. GraphSlots \ Registered # {}
  <2> SUFFICES ASSUME GraphSlots \ Registered = {} PROVE FALSE
    OBVIOUS
  <2>1. Registered = GraphSlots
    BY DEF Registered
  <2>2. QED
    BY <2>1, RegistryIsFinite DEF CountInv
<1>2. GraphSlots \ Registered \in SUBSET Nat
  BY RegistryIsFinite DEF GraphSlots
<1>3. QED
  BY <1>1, <1>2, LeastIsThere

(* There are more identifiers than graphs.                                 *)
LEMMA FreeIdExists ==
  ASSUME TypeOK, CountInv, graphCount < Capacity
  PROVE  FreeOffsets # {}
<1> SUFFICES ASSUME FreeOffsets = {} PROVE FALSE
  OBVIOUS
<1>1. \A k \in 0 .. Capacity : Find(Offset(nextGraphId, k)) # {}
  BY DEF FreeOffsets
<1> DEFINE holder == [k \in 0 .. Capacity |-> CHOOSE i \in Registered :
                                                graphs[i].id = Offset(nextGraphId, k)]
<1>2. ASSUME NEW k \in 0 .. Capacity
      PROVE  holder[k] \in Registered /\ graphs[holder[k]].id = Offset(nextGraphId, k)
  <2>1. \E i \in Registered : graphs[i].id = Offset(nextGraphId, k)
    BY <1>1 DEF Find
  <2>2. QED
    BY <2>1
<1>3. holder \in [0 .. Capacity -> Registered]
  BY <1>2
<1> HIDE DEF holder
<1>4. /\ IsFiniteSet(0 .. Capacity) /\ Cardinality(0 .. Capacity) = Capacity + 1
      /\ IsFiniteSet(Registered) /\ Cardinality(Registered) < Capacity + 1
  BY RegistryIsFinite, RegisteredIsFinite, FS_Interval
<1>5. Cardinality(Registered) < Cardinality(0 .. Capacity)
  BY <1>4
<1>6. PICK j \in 0 .. Capacity, k \in 0 .. Capacity : j # k /\ holder[j] = holder[k]
  BY <1>3, <1>4, <1>5, FS_PigeonHole
<1>7. Offset(nextGraphId, j) = Offset(nextGraphId, k)
  BY <1>2, <1>6
<1>8. QED
  BY <1>6, <1>7, OffsetsDiffer DEF TypeOK

(* allocate_graph_id finds an identifier no registered graph has.          *)
LEMMA AllocatedIdIsNew ==
  ASSUME TypeOK, CountInv, graphCount < Capacity
  PROVE  /\ AllocatedId \in Handles /\ Offset(AllocatedId, 1) \in Handles
         /\ \A i \in Registered : graphs[i].id # AllocatedId
<1>1. FreeOffsets \in SUBSET Nat /\ FreeOffsets # {}
  BY FreeIdExists, RegistryIsFinite DEF FreeOffsets
<1>2. FirstFree \in FreeOffsets
  BY <1>1, LeastExists DEF FirstFree
<1>3. FirstFree \in Nat /\ Find(Offset(nextGraphId, FirstFree)) = {}
  BY <1>1, <1>2 DEF FreeOffsets
<1>4. AllocatedId \in Handles /\ Find(AllocatedId) = {}
  BY <1>3, OffsetIsHandle DEF AllocatedId, TypeOK
<1>5. Offset(AllocatedId, 1) \in Handles
  BY <1>4, OffsetIsHandle
<1>6. QED
  BY <1>4, <1>5 DEF Find

-----------------------------------------------------------------------------
(* What steps leave alone                                                  *)

LEMMA GraphsAreNotNothing ==
  ASSUME TypeOK, NEW i \in GraphSlots
  PROVE  i \in Registered <=> graphs[i] \in Graphs
BY NothingAssumption DEF TypeOK, Registered

(* request_graph_destroy changes only the requests.                        *)
LEMMA DestroyKeepsGraphs ==
  ASSUME TypeOK, NEW id, NEW closeWindow \in BOOLEAN, RequestDestroy(id, closeWindow)
  PROVE  /\ GraphsKept
         /\ \A i \in Registered :
              /\ graphs'[i].sequence = graphs[i].sequence
              /\ graphs'[i].isConfigAcked = graphs[i].isConfigAcked
              /\ graphs'[i].destroyRequested <=>
                   (graphs[i].destroyRequested \/ graphs[i].id = id)
<1>1. ASSUME NEW i \in GraphSlots, graphs[i] \in Graphs
      PROVE  /\ [graphs[i] EXCEPT !.destroyRequested = TRUE,
                                  !.closeRequested = @ \/ closeWindow] \in Graphs
  BY <1>1 DEF Graphs
<1>2. ASSUME NEW i \in GraphSlots
      PROVE  /\ graphs'[i] \in Graphs \union {NoGraph}
             /\ graphs'[i] \in Graphs <=> graphs[i] \in Graphs
  BY <1>1, GraphsAreNotNothing, NothingAssumption DEF RequestDestroy, TypeOK, Find
<1>3. graphs' \in GraphArrays
  BY <1>2 DEF RequestDestroy, GraphArrays
<1>4. Registered' = Registered
  BY <1>2, NothingAssumption DEF Registered, TypeOK
<1>5. ASSUME NEW i \in Registered
      PROVE  /\ graphs'[i].id = graphs[i].id /\ graphs'[i].owner = graphs[i].owner
             /\ graphs'[i].streams = graphs[i].streams
             /\ graphs'[i].streamCount = graphs[i].streamCount
             /\ graphs'[i].sequence = graphs[i].sequence
             /\ graphs'[i].isConfigAcked = graphs[i].isConfigAcked
             /\ graphs'[i].destroyRequested <=>
                  (graphs[i].destroyRequested \/ graphs[i].id = id)
  <2>1. i \in GraphSlots /\ graphs[i] \in Graphs
    BY GraphsAreNotNothing DEF Registered
  <2>2. CASE graphs[i].id = id
    <3>1. graphs'[i] = [graphs[i] EXCEPT !.destroyRequested = TRUE,
                                         !.closeRequested = @ \/ closeWindow]
      BY <2>1, <2>2 DEF RequestDestroy, Find
    <3>2. QED
      BY <2>1, <2>2, <3>1 DEF Graphs
  <2>3. CASE graphs[i].id # id
    <3>1. graphs'[i] = graphs[i]
      BY <2>1, <2>3 DEF RequestDestroy, Find
    <3>2. QED
      BY <2>3, <3>1
  <2>4. QED
    BY <2>2, <2>3
<1>6. QED
  BY <1>3, <1>4, <1>5 DEF GraphsKept

LEMMA UnchangedKeepsGraphs ==
  ASSUME TypeOK, UNCHANGED graphs
  PROVE  GraphsKept
BY DEF GraphsKept, TypeOK, Registered, GraphArrays

LEMMA KeptStreams ==
  GraphsKept => \A i \in Registered : StreamsOf(graphs'[i]) = StreamsOf(graphs[i])
BY DEF GraphsKept, StreamsOf

LEMMA KeptSlots ==
  GraphsKept => \A i \in Registered : SlotsInv(graphs'[i]) <=> SlotsInv(graphs[i])
BY DEF GraphsKept, SlotsInv, Occupied

LEMMA KeptCounts ==
  ASSUME CountInv, GraphsKept, UNCHANGED graphCount
  PROVE  CountInv'
<1>1. \A i \in Registered : SlotsInv(graphs'[i])
  BY KeptSlots DEF CountInv
<1>2. Registered' = Registered
  BY DEF GraphsKept
<1>3. \A i, j \in Registered : graphs'[i].id = graphs'[j].id => i = j
  BY DEF GraphsKept, CountInv
<1>4. CountInv' <=> /\ graphCount' = Cardinality(Registered')
                    /\ \A i \in Registered' : SlotsInv(graphs'[i])
                    /\ \A i, j \in Registered' : graphs'[i].id = graphs'[j].id => i = j
  BY DEF CountInv, SlotsInv, Occupied
<1>5. QED
  BY <1>1, <1>2, <1>3, <1>4 DEF CountInv

(* Streams that are allocated are records.                                 *)
LEMMA AllocatedIsStream ==
  ASSUME TypeOK, NEW s \in Heap, heap[s] # Unused
  PROVE  heap[s] \in Streams
BY DEF TypeOK

LEMMA UnchangedKeepsHeap ==
  ASSUME TypeOK, UNCHANGED heap
  PROVE  HeapKept
BY DEF HeapKept, TypeOK, Heaps

(* release_stream                                                          *)
LEMMA ReleaseKeepsHeap ==
  ASSUME TypeOK, StreamInv, NEW p \in Attachers, Release(p)
  PROVE  /\ HeapKept /\ streamOf' \in [Attachers -> Heap \union {NoStream}]
         /\ streamOf'[p] = NoStream
         /\ \A q \in Attachers \ {p} : streamOf'[q] = streamOf[q]
         /\ \A s \in Heap : s # streamOf[p] => heap'[s] = heap[s]
         /\ streamOf[p] # NoStream => heap'[streamOf[p]].released
<1>1. /\ streamOf \in [Attachers -> Heap \union {NoStream}] /\ heap \in Heaps
      /\ streamOf' = [streamOf EXCEPT ![p] = NoStream]
  BY DEF TypeOK, Heaps, Release
<1>2. CASE streamOf[p] = NoStream
  <2>1. heap' = heap
    BY <1>2 DEF Release
  <2>2. QED
    BY <1>1, <1>2, <2>1 DEF HeapKept
<1>3. CASE streamOf[p] # NoStream
  <2> DEFINE s == streamOf[p]
  <2>1. s \in Heap /\ heap[s] # Unused
    BY <1>1, <1>3 DEF StreamInv
  <2>2. heap[s] \in Streams
    BY <2>1, AllocatedIsStream
  <2>3. heap' = [heap EXCEPT ![s].released = TRUE]
    BY <1>3 DEF Release
  <2> DEFINE freed == [heap[s] EXCEPT !.released = TRUE]
  <2>4. freed \in Streams /\ freed.released
    BY <2>2 DEF Streams
  <2>5. heap' = [heap EXCEPT ![s] = freed] /\ freed # Unused
    BY <2>3, <2>4, NothingAssumption
  <2> HIDE DEF s, freed
  <2>6. HeapKept
    BY <1>1, <2>1, <2>4, <2>5 DEF HeapKept, Heaps
  <2>7. heap'[s].released /\ \A other \in Heap : other # s => heap'[other] = heap[other]
    BY <1>1, <2>1, <2>4, <2>5 DEF Heaps
  <2>8. QED
    BY <1>1, <2>6, <2>7 DEF s
<1>4. QED
  BY <1>2, <1>3

(* The content of an allocated stream: something is left to send.          *)
LEMMA BacklogKeepsHeap ==
  ASSUME TypeOK, StreamInv, NEW p \in Attachers, streamOf[p] # NoStream,
         heap' = [heap EXCEPT ![streamOf[p]].backlog = TRUE]
  PROVE  HeapKept /\ \A s \in Heap : heap[s] # Unused => heap'[s].released = heap[s].released
<1> DEFINE s == streamOf[p]
           filled == [heap[s] EXCEPT !.backlog = TRUE]
<1>1. s \in Heap /\ heap[s] # Unused /\ heap \in Heaps
  BY DEF TypeOK, StreamInv, Heaps
<1>2. heap[s] \in Streams
  BY <1>1, AllocatedIsStream
<1>3. filled \in Streams /\ filled.released = heap[s].released
  BY <1>2 DEF Streams
<1>4. heap' = [heap EXCEPT ![s] = filled] /\ filled # Unused
  BY <1>3, NothingAssumption
<1> HIDE DEF s, filled
<1>5. QED
  BY <1>1, <1>3, <1>4 DEF HeapKept, Heaps

(* Steps that leave the streams and their places alone keep StreamInv,     *)
(* when an instance releases what it gives up.                             *)
LEMMA KeptStreamInv ==
  ASSUME TypeOK, StreamInv, GraphsKept, HeapKept,
         \A p \in Attachers : streamOf'[p] \in {streamOf[p], NoStream},
         \A p \in Attachers :
           streamOf'[p] # NoStream => heap'[streamOf'[p]].released = heap[streamOf'[p]].released
  PROVE  StreamInv'
<1>1. Registered' = Registered /\ \A i \in Registered : StreamsOf(graphs'[i]) = StreamsOf(graphs[i])
  <2>1. Registered' = Registered
    BY DEF GraphsKept
  <2>2. \A i \in Registered : StreamsOf(graphs'[i]) = StreamsOf(graphs[i])
    BY KeptStreams
  <2>3. QED
    BY <2>1, <2>2
<1>2. \A i \in Registered : StreamsOf(graphs[i]) \subseteq Heap
  BY GraphsAreNotNothing DEF TypeOK, StreamsOf, Registered, Graphs
<1>3. \A p \in Attachers : streamOf[p] # NoStream => streamOf[p] \in Heap
  BY DEF TypeOK
<1>4. StreamInv' <=>
        /\ \A i \in Registered' : \A s \in StreamsOf(graphs'[i]) : heap'[s] # Unused
        /\ \A i, j \in Registered' :
             \A s \in StreamsOf(graphs'[i]) \intersect StreamsOf(graphs'[j]) : i = j
        /\ \A s \in Heap : heap'[s] # Unused =>
             \E i \in Registered' : s \in StreamsOf(graphs'[i])
        /\ \A p \in Attachers : streamOf'[p] # NoStream =>
             heap'[streamOf'[p]] # Unused /\ ~heap'[streamOf'[p]].released
        /\ \A p, q \in Attachers : streamOf'[p] # NoStream /\ streamOf'[p] = streamOf'[q] => p = q
  BY DEF StreamInv, StreamsOf
<1>5. /\ \A i \in Registered' : \A s \in StreamsOf(graphs'[i]) : heap'[s] # Unused
      /\ \A i, j \in Registered' :
           \A s \in StreamsOf(graphs'[i]) \intersect StreamsOf(graphs'[j]) : i = j
      /\ \A s \in Heap : heap'[s] # Unused =>
           \E i \in Registered' : s \in StreamsOf(graphs'[i])
  BY <1>1, <1>2 DEF StreamInv, HeapKept
<1>6. /\ \A p \in Attachers : streamOf'[p] # NoStream =>
           heap'[streamOf'[p]] # Unused /\ ~heap'[streamOf'[p]].released
      /\ \A p, q \in Attachers : streamOf'[p] # NoStream /\ streamOf'[p] = streamOf'[q] => p = q
  BY <1>3 DEF StreamInv, HeapKept
<1>7. QED
  BY <1>4, <1>5, <1>6

(* Releasing a stream keeps those of the other instances as they are.      *)
LEMMA ReleaseKeepsOthers ==
  ASSUME TypeOK, StreamInv, NEW p \in Attachers, Release(p)
  PROVE  /\ \A q \in Attachers : streamOf'[q] \in {streamOf[q], NoStream}
         /\ \A q \in Attachers : streamOf'[q] # NoStream =>
              heap'[streamOf'[q]].released = heap[streamOf'[q]].released
<1>1. /\ streamOf'[p] = NoStream
      /\ \A q \in Attachers \ {p} : streamOf'[q] = streamOf[q]
      /\ \A s \in Heap : s # streamOf[p] => heap'[s] = heap[s]
  BY ReleaseKeepsHeap
<1>2. ASSUME NEW q \in Attachers, streamOf'[q] # NoStream
      PROVE  heap'[streamOf'[q]].released = heap[streamOf'[q]].released
  <2>1. q # p /\ streamOf'[q] = streamOf[q] /\ streamOf[q] # NoStream
    BY <1>1, <1>2
  <2>2. streamOf[q] # streamOf[p] /\ streamOf[q] \in Heap
    BY <2>1 DEF StreamInv, TypeOK
  <2>3. QED
    BY <1>1, <2>1, <2>2
<1>3. QED
  BY <1>1, <1>2

SmallTypesOK ==
  /\ handle \in [Cells -> Handles \union {InvalidHandle}]
  /\ streamOf \in [Attachers -> Heap \union {NoStream}]
  /\ active \subseteq Instances
  /\ op \in [step : Steps, instance : Instances \union {NoInstance},
             graphId : Handles \union {InvalidHandle}]
  /\ session \in {"none", "running", "reset"}
  /\ sentConfigs \subseteq Handles \X (0 .. MaxThemes)

StreamsKept ==
  /\ \A p \in Attachers : streamOf'[p] \in {streamOf[p], NoStream}
  /\ \A p \in Attachers :
       streamOf'[p] # NoStream => heap'[streamOf'[p]].released = heap[streamOf'[p]].released

LEMMA KeptInv ==
  ASSUME RegistryInv, GraphsKept, HeapKept, StreamsKept, UNCHANGED <<graphCount, nextGraphId>>,
         SmallTypesOK'
  PROVE  TypeOK' /\ CountInv' /\ StreamInv'
<1>1. TypeOK /\ CountInv /\ StreamInv
  BY DEF RegistryInv
<1>2. TypeOK'
  BY <1>1 DEF TypeOK, SmallTypesOK, GraphsKept, GraphArrays, HeapKept, Heaps
<1>3. CountInv'
  BY <1>1, KeptCounts
<1>4. StreamInv'
  BY <1>1, KeptStreamInv DEF StreamsKept
<1>5. QED
  BY <1>2, <1>3, <1>4

LEMMA UnchangedKeepsStreams ==
  ASSUME UNCHANGED <<heap, streamOf>>
  PROVE  StreamsKept
BY DEF StreamsKept

LEMMA SmallTypes == TypeOK => SmallTypesOK
BY DEF TypeOK, SmallTypesOK

(* The graph a handle names is asked to go, and the handle forgotten.      *)
LEMMA StepsAreTyped ==
  ASSUME NEW step \in Steps, NEW p \in Instances \union {NoInstance},
         NEW id \in Handles \union {InvalidHandle}, GoTo(step, p, id)
  PROVE  /\ op' \in [step : Steps, instance : Instances \union {NoInstance},
                     graphId : Handles \union {InvalidHandle}]
         /\ op'.step = step /\ op'.instance = p
BY DEF GoTo

LEMMA InstancesAre ==
  /\ Scopes \subseteq Creators /\ Displays \subseteq Creators /\ Tables \subseteq Displays
  /\ Meters \subseteq Displays /\ Displays \subseteq Attachers /\ Adders \subseteq Attachers
  /\ Creators \subseteq Instances /\ Attachers \subseteq Instances
  /\ SpectralAdders \subseteq Adders
  /\ \A c \in Scopes : c \notin Attachers
  /\ \A c \in Creators : CellOf[c] \in Cells
BY RegistryAssumption DEF Creators, Displays, Attachers, Instances, Cells

-----------------------------------------------------------------------------
(* Init calls                                                              *)

LEMMA RejectArgumentsKeeps ==
  ASSUME RegistryInv, NEW c \in Scopes, RejectArguments(c)
  PROVE  RegistryInv'
<1>1. TypeOK /\ CountInv /\ OpInv /\ StreamInv /\ GraphsKept /\ HeapKept /\ StreamsKept
  BY UnchangedKeepsGraphs, UnchangedKeepsHeap, UnchangedKeepsStreams
     DEF RegistryInv, RejectArguments
<1>2. SmallTypesOK'
  BY <1>1, SmallTypes, InstancesAre DEF RejectArguments, Starts, SmallTypesOK
<1>3. OpInv'
  BY <1>1 DEF RejectArguments, Starts, OpInv, Idle, GraphsKept
<1>4. QED
  BY <1>1, <1>2, <1>3, KeptInv DEF RegistryInv, RejectArguments

LEMMA CreateInitKeeps ==
  ASSUME RegistryInv, NEW c \in Scopes, CreateInit(c)
  PROVE  RegistryInv'
<1>1. TypeOK /\ CountInv /\ OpInv /\ StreamInv /\ GraphsKept /\ HeapKept /\ StreamsKept
  BY DestroyKeepsGraphs, UnchangedKeepsHeap, UnchangedKeepsStreams
     DEF RegistryInv, CreateInit
<1>2. op' \in [step : Steps, instance : Instances \union {NoInstance},
               graphId : Handles \union {InvalidHandle}]
      /\ op'.step = "register" /\ op'.instance = c
  BY InstancesAre, StepsAreTyped DEF CreateInit, Steps
<1>3. SmallTypesOK'
  BY <1>1, <1>2, SmallTypes, InstancesAre DEF CreateInit, Starts, SmallTypesOK
<1>4. OpInv'
  BY <1>1, <1>2, InstancesAre DEF CreateInit, Starts, OpInv, Idle, GraphsKept, TypeOK
<1>5. QED
  BY <1>1, <1>3, <1>4, KeptInv DEF RegistryInv, CreateInit

LEMMA TableInitKeeps ==
  ASSUME RegistryInv, NEW d \in Displays, TableInit(d)
  PROVE  RegistryInv'
<1>1. TypeOK /\ CountInv /\ OpInv /\ StreamInv /\ GraphsKept
  BY UnchangedKeepsGraphs DEF RegistryInv, TableInit
<1>2. HeapKept /\ StreamsKept
  BY <1>1, InstancesAre, ReleaseKeepsHeap, ReleaseKeepsOthers DEF TableInit, StreamsKept
<1>3. op' \in [step : Steps, instance : Instances \union {NoInstance},
               graphId : Handles \union {InvalidHandle}]
      /\ op'.step = "replace" /\ op'.instance = d
  BY <1>1, InstancesAre, StepsAreTyped DEF TableInit, Return, Steps, TypeOK, OpInv
<1>4. SmallTypesOK'
  BY <1>1, <1>3, SmallTypes, InstancesAre, ReleaseKeepsHeap DEF TableInit, Starts, Ends, SmallTypesOK
<1>5. OpInv'
  BY <1>1, <1>3, InstancesAre, ReleaseKeepsHeap DEF TableInit, Starts, Ends, OpInv, Idle, GraphsKept, TypeOK
<1>6. QED
  BY <1>1, <1>2, <1>4, <1>5, KeptInv DEF RegistryInv, TableInit

LEMMA MeterInitKeeps ==
  ASSUME RegistryInv, NEW d \in Displays, MeterInit(d)
  PROVE  RegistryInv'
<1>1. TypeOK /\ CountInv /\ OpInv /\ StreamInv /\ GraphsKept
  BY UnchangedKeepsGraphs DEF RegistryInv, MeterInit
<1>2. HeapKept /\ StreamsKept
  BY <1>1, InstancesAre, ReleaseKeepsHeap, ReleaseKeepsOthers DEF MeterInit, StreamsKept
<1>3. op' \in [step : Steps, instance : Instances \union {NoInstance},
               graphId : Handles \union {InvalidHandle}]
      /\ op'.step = "replace" /\ op'.instance = d
  BY <1>1, InstancesAre, StepsAreTyped DEF MeterInit, Return, Steps, TypeOK, OpInv
<1>4. SmallTypesOK'
  BY <1>1, <1>3, SmallTypes, InstancesAre, ReleaseKeepsHeap DEF MeterInit, Starts, Ends, SmallTypesOK
<1>5. OpInv'
  BY <1>1, <1>3, InstancesAre, ReleaseKeepsHeap DEF MeterInit, Starts, Ends, OpInv, Idle, GraphsKept, TypeOK
<1>6. QED
  BY <1>1, <1>2, <1>4, <1>5, KeptInv DEF RegistryInv, MeterInit

LEMMA ReplaceGraphKeeps ==
  ASSUME RegistryInv, ReplaceGraph
  PROVE  RegistryInv'
<1>1. TypeOK /\ CountInv /\ OpInv /\ StreamInv /\ GraphsKept
  BY DestroyKeepsGraphs DEF RegistryInv, ReplaceGraph
<1>2. HeapKept /\ StreamsKept
  BY <1>1, UnchangedKeepsHeap, UnchangedKeepsStreams DEF ReplaceGraph
<1>3. op' \in [step : Steps, instance : Instances \union {NoInstance},
               graphId : Handles \union {InvalidHandle}]
      /\ op'.step = "register" /\ op'.instance = op.instance
  BY <1>1, InstancesAre, StepsAreTyped DEF ReplaceGraph, Return, Steps, TypeOK, OpInv
<1>4. SmallTypesOK'
  BY <1>1, <1>3, SmallTypes, InstancesAre DEF ReplaceGraph, Starts, Ends, SmallTypesOK
<1>5. OpInv'
  BY <1>1, <1>3, InstancesAre DEF ReplaceGraph, Starts, Ends, OpInv, Idle, GraphsKept, TypeOK
<1>6. QED
  BY <1>1, <1>2, <1>4, <1>5, KeptInv DEF RegistryInv, ReplaceGraph

LEMMA RegistryFullKeeps ==
  ASSUME RegistryInv, RegistryFull
  PROVE  RegistryInv'
<1>1. TypeOK /\ CountInv /\ OpInv /\ StreamInv /\ GraphsKept
  BY UnchangedKeepsGraphs DEF RegistryInv, RegistryFull
<1>2. HeapKept /\ StreamsKept
  BY <1>1, UnchangedKeepsHeap, UnchangedKeepsStreams DEF RegistryFull
<1>3. op' \in [step : Steps, instance : Instances \union {NoInstance},
               graphId : Handles \union {InvalidHandle}]
      /\ op'.step = "idle" /\ op'.instance = NoInstance
  BY <1>1, InstancesAre, StepsAreTyped DEF RegistryFull, Return, Steps, TypeOK, OpInv
<1>4. SmallTypesOK'
  BY <1>1, <1>3, SmallTypes, InstancesAre DEF RegistryFull, Starts, Ends, SmallTypesOK
<1>5. OpInv'
  BY <1>1, <1>3, InstancesAre DEF RegistryFull, Starts, Ends, OpInv, Idle, GraphsKept, TypeOK
<1>6. QED
  BY <1>1, <1>2, <1>4, <1>5, KeptInv DEF RegistryInv, RegistryFull

LEMMA CreateFailsKeeps ==
  ASSUME RegistryInv, CreateFails
  PROVE  RegistryInv'
<1>1. TypeOK /\ CountInv /\ OpInv /\ StreamInv /\ GraphsKept
  BY UnchangedKeepsGraphs DEF RegistryInv, CreateFails
<1>2. HeapKept /\ StreamsKept
  BY <1>1, UnchangedKeepsHeap, UnchangedKeepsStreams DEF CreateFails
<1>3. op' \in [step : Steps, instance : Instances \union {NoInstance},
               graphId : Handles \union {InvalidHandle}]
      /\ op'.step = "idle" /\ op'.instance = NoInstance
  BY <1>1, InstancesAre, StepsAreTyped DEF CreateFails, Return, Steps, TypeOK, OpInv
<1>4. SmallTypesOK'
  BY <1>1, <1>3, SmallTypes, InstancesAre DEF CreateFails, Starts, Ends, SmallTypesOK
<1>5. OpInv'
  BY <1>1, <1>3, InstancesAre DEF CreateFails, Starts, Ends, OpInv, Idle, GraphsKept, TypeOK
<1>6. QED
  BY <1>1, <1>2, <1>4, <1>5, KeptInv DEF RegistryInv, CreateFails

LEMMA AddInitKeeps ==
  ASSUME RegistryInv, NEW a \in Adders, NEW id \in Handles \union {InvalidHandle}, AddInit(a, id)
  PROVE  RegistryInv'
<1>1. TypeOK /\ CountInv /\ OpInv /\ StreamInv /\ GraphsKept
  BY UnchangedKeepsGraphs DEF RegistryInv, AddInit
<1>2. HeapKept /\ StreamsKept
  BY <1>1, InstancesAre, ReleaseKeepsHeap, ReleaseKeepsOthers DEF AddInit, StreamsKept
<1>3. op' \in [step : Steps, instance : Instances \union {NoInstance},
               graphId : Handles \union {InvalidHandle}]
      /\ op'.step = "attach" /\ op'.instance = a
  BY <1>1, InstancesAre, StepsAreTyped DEF AddInit, Return, Steps, TypeOK, OpInv
<1>4. SmallTypesOK'
  BY <1>1, <1>3, SmallTypes, InstancesAre, ReleaseKeepsHeap DEF AddInit, Starts, Ends, SmallTypesOK
<1>5. OpInv'
  BY <1>1, <1>3, InstancesAre, ReleaseKeepsHeap DEF AddInit, Starts, Ends, OpInv, Idle, GraphsKept, TypeOK
<1>6. QED
  BY <1>1, <1>2, <1>4, <1>5, KeptInv DEF RegistryInv, AddInit

LEMMA CreateDeinitKeeps ==
  ASSUME RegistryInv, NEW c \in Scopes, CreateDeinit(c)
  PROVE  RegistryInv'
<1>1. TypeOK /\ CountInv /\ OpInv /\ StreamInv /\ GraphsKept
  BY DestroyKeepsGraphs DEF RegistryInv, CreateDeinit
<1>2. HeapKept /\ StreamsKept
  BY <1>1, UnchangedKeepsHeap, UnchangedKeepsStreams DEF CreateDeinit
<1>3. op' = op
  BY DEF CreateDeinit
<1>4. SmallTypesOK'
  BY <1>1, <1>3, SmallTypes, InstancesAre DEF CreateDeinit, Starts, Ends, SmallTypesOK
<1>5. OpInv'
  BY <1>1, <1>3, InstancesAre DEF CreateDeinit, Starts, Ends, OpInv, Idle, GraphsKept, TypeOK
<1>6. QED
  BY <1>1, <1>2, <1>4, <1>5, KeptInv DEF RegistryInv, CreateDeinit

LEMMA AddDeinitKeeps ==
  ASSUME RegistryInv, NEW a \in Adders, AddDeinit(a)
  PROVE  RegistryInv'
<1>1. TypeOK /\ CountInv /\ OpInv /\ StreamInv /\ GraphsKept
  BY UnchangedKeepsGraphs DEF RegistryInv, AddDeinit
<1>2. HeapKept /\ StreamsKept
  BY <1>1, InstancesAre, ReleaseKeepsHeap, ReleaseKeepsOthers DEF AddDeinit, StreamsKept
<1>3. op' = op
  BY DEF AddDeinit
<1>4. SmallTypesOK'
  BY <1>1, <1>3, SmallTypes, InstancesAre, ReleaseKeepsHeap DEF AddDeinit, Starts, Ends, SmallTypesOK
<1>5. OpInv'
  BY <1>1, <1>3, InstancesAre, ReleaseKeepsHeap DEF AddDeinit, Starts, Ends, OpInv, Idle, GraphsKept, TypeOK
<1>6. QED
  BY <1>1, <1>2, <1>4, <1>5, KeptInv DEF RegistryInv, AddDeinit

LEMMA DisplayDeinitKeeps ==
  ASSUME RegistryInv, NEW d \in Displays, DisplayDeinit(d)
  PROVE  RegistryInv'
<1>1. TypeOK /\ CountInv /\ OpInv /\ StreamInv /\ GraphsKept
  BY UnchangedKeepsGraphs DEF RegistryInv, DisplayDeinit
<1>2. HeapKept /\ StreamsKept
  BY <1>1, InstancesAre, ReleaseKeepsHeap, ReleaseKeepsOthers DEF DisplayDeinit, StreamsKept
<1>3. op' \in [step : Steps, instance : Instances \union {NoInstance},
               graphId : Handles \union {InvalidHandle}]
      /\ op'.step = "drop" /\ op'.instance = d
  BY <1>1, InstancesAre, StepsAreTyped DEF DisplayDeinit, Return, Steps, TypeOK, OpInv
<1>4. SmallTypesOK'
  BY <1>1, <1>3, SmallTypes, InstancesAre, ReleaseKeepsHeap DEF DisplayDeinit, Starts, Ends, SmallTypesOK
<1>5. OpInv'
  BY <1>1, <1>3, InstancesAre, ReleaseKeepsHeap DEF DisplayDeinit, Starts, Ends, OpInv, Idle, GraphsKept, TypeOK
<1>6. QED
  BY <1>1, <1>2, <1>4, <1>5, KeptInv DEF RegistryInv, DisplayDeinit

LEMMA DropGraphKeeps ==
  ASSUME RegistryInv, DropGraph
  PROVE  RegistryInv'
<1>1. TypeOK /\ CountInv /\ OpInv /\ StreamInv /\ GraphsKept
  BY DestroyKeepsGraphs DEF RegistryInv, DropGraph
<1>2. HeapKept /\ StreamsKept
  BY <1>1, UnchangedKeepsHeap, UnchangedKeepsStreams DEF DropGraph
<1>3. op' \in [step : Steps, instance : Instances \union {NoInstance},
               graphId : Handles \union {InvalidHandle}]
      /\ op'.step = "idle" /\ op'.instance = NoInstance
  BY <1>1, InstancesAre, StepsAreTyped DEF DropGraph, Return, Steps, TypeOK, OpInv
<1>4. SmallTypesOK'
  BY <1>1, <1>3, SmallTypes, InstancesAre DEF DropGraph, Starts, Ends, SmallTypesOK
<1>5. OpInv'
  BY <1>1, <1>3, InstancesAre DEF DropGraph, Starts, Ends, OpInv, Idle, GraphsKept, TypeOK
<1>6. QED
  BY <1>1, <1>2, <1>4, <1>5, KeptInv DEF RegistryInv, DropGraph

(* ... which forgets its stream without releasing it.                      *)
LEMMA AddSpectralInitKeeps ==
  ASSUME RegistryInv, NEW a \in Adders, NEW id \in Handles \union {InvalidHandle},
         AddSpectralInit(a, id)
  PROVE  RegistryInv'
<1>1. TypeOK /\ CountInv /\ OpInv /\ StreamInv /\ GraphsKept /\ HeapKept
  BY UnchangedKeepsGraphs, UnchangedKeepsHeap DEF RegistryInv, AddSpectralInit
<1>2. a \in Attachers /\ streamOf' \in [Attachers -> Heap \union {NoStream}]
      /\ streamOf'[a] = NoStream /\ \A q \in Attachers \ {a} : streamOf'[q] = streamOf[q]
  BY <1>1, InstancesAre DEF AddSpectralInit, TypeOK
<1>3. StreamsKept
  BY <1>2 DEF AddSpectralInit, StreamsKept
<1>4. op' \in [step : Steps, instance : Instances \union {NoInstance},
               graphId : Handles \union {InvalidHandle}]
      /\ op'.step = "attach" /\ op'.instance = a
  BY InstancesAre, StepsAreTyped DEF AddSpectralInit, Steps
<1>5. SmallTypesOK'
  BY <1>1, <1>2, <1>4, SmallTypes, InstancesAre DEF AddSpectralInit, Starts, SmallTypesOK
<1>6. OpInv'
  BY <1>1, <1>2, <1>4, InstancesAre
     DEF AddSpectralInit, Starts, OpInv, Idle, GraphsKept, TypeOK
<1>7. QED
  BY <1>1, <1>3, <1>5, <1>6, KeptInv DEF RegistryInv, AddSpectralInit

LEMMA AttachFailsKeeps ==
  ASSUME RegistryInv, AttachFails
  PROVE  RegistryInv'
<1>1. TypeOK /\ CountInv /\ OpInv /\ StreamInv /\ GraphsKept /\ HeapKept /\ StreamsKept
  BY UnchangedKeepsGraphs, UnchangedKeepsHeap, UnchangedKeepsStreams
     DEF RegistryInv, AttachFails
<1>2. op' \in [step : Steps, instance : Instances \union {NoInstance},
               graphId : Handles \union {InvalidHandle}]
      /\ \/ op'.step = "idle"
         \/ op'.step = "drop" /\ op'.instance = op.instance /\ op.instance \in Displays
  <2>1. CASE op.instance \in Displays
    BY <1>1, <2>1, InstancesAre DEF AttachFails, GoTo, Steps, TypeOK
  <2>2. CASE op.instance \notin Displays
    BY <1>1, <2>2, InstancesAre DEF AttachFails, GoTo, Return, Steps, TypeOK
  <2>3. QED
    BY <2>1, <2>2
<1>3. SmallTypesOK'
  BY <1>1, <1>2, SmallTypes DEF AttachFails, SmallTypesOK
<1>4. OpInv'
  BY <1>1, <1>2, InstancesAre DEF AttachFails, OpInv, Idle, GraphsKept, TypeOK
<1>5. QED
  BY <1>1, <1>3, <1>4, KeptInv DEF RegistryInv, AttachFails

LEMMA FillTableKeeps ==
  ASSUME RegistryInv, FillTable
  PROVE  RegistryInv'
<1>1. TypeOK /\ CountInv /\ OpInv /\ StreamInv /\ GraphsKept
  BY UnchangedKeepsGraphs DEF RegistryInv, FillTable
<1>2. op.instance \in Attachers /\ streamOf[op.instance] # NoStream
  BY <1>1 DEF OpInv, FillTable
<1>3. HeapKept /\ \A s \in Heap : heap[s] # Unused => heap'[s].released = heap[s].released
  BY <1>1, <1>2, BacklogKeepsHeap DEF FillTable
<1>4. StreamsKept
  BY <1>1, <1>3 DEF FillTable, StreamsKept, TypeOK, StreamInv
<1>5. op' \in [step : Steps, instance : Instances \union {NoInstance},
               graphId : Handles \union {InvalidHandle}]
      /\ op'.step = "idle"
  BY StepsAreTyped DEF FillTable, Return, Steps
<1>6. SmallTypesOK'
  BY <1>1, <1>5, SmallTypes DEF FillTable, SmallTypesOK
<1>7. OpInv'
  BY <1>1, <1>5, InstancesAre DEF FillTable, OpInv, Idle, GraphsKept, TypeOK
<1>8. QED
  BY <1>1, <1>3, <1>4, <1>6, <1>7, KeptInv DEF RegistryInv, FillTable

-----------------------------------------------------------------------------
(* Perf calls and a change of the theme                                    *)

LEMMA PerfKeeps ==
  ASSUME RegistryInv, NEW p \in Attachers, Perf(p)
  PROVE  RegistryInv'
<1>1. TypeOK /\ CountInv /\ OpInv /\ StreamInv /\ GraphsKept
  BY UnchangedKeepsGraphs DEF RegistryInv, Perf
<1>2. HeapKept /\ \A s \in Heap : heap[s] # Unused => heap'[s].released = heap[s].released
  BY <1>1, BacklogKeepsHeap DEF Perf
<1>3. StreamsKept
  BY <1>1, <1>2 DEF Perf, StreamsKept, TypeOK, StreamInv
<1>4. SmallTypesOK'
  BY <1>1, SmallTypes DEF Perf, SmallTypesOK
<1>5. OpInv'
  BY <1>1 DEF Perf, OpInv, Idle, GraphsKept
<1>6. QED
  BY <1>1, <1>2, <1>3, <1>4, <1>5, KeptInv DEF RegistryInv, Perf

(* The graphs when one of them gets another sequence or another answer.    *)
LEMMA SettingsKeepGraphs ==
  ASSUME TypeOK,
         \A i \in GraphSlots \ Registered : graphs'[i] = NoGraph,
         \A i \in Registered : \E sequence \in 0 .. MaxThemes, isConfigAcked \in BOOLEAN :
           graphs'[i] = [graphs[i] EXCEPT !.sequence = sequence,
                                          !.isConfigAcked = isConfigAcked],
         graphs' = [i \in GraphSlots |-> graphs'[i]]
  PROVE  GraphsKept
<1>1. ASSUME NEW i \in Registered
      PROVE  /\ graphs'[i] \in Graphs
             /\ graphs'[i].id = graphs[i].id /\ graphs'[i].owner = graphs[i].owner
             /\ graphs'[i].streams = graphs[i].streams
             /\ graphs'[i].streamCount = graphs[i].streamCount
  <2>1. graphs[i] \in Graphs
    BY GraphsAreNotNothing DEF Registered
  <2>2. QED
    BY <2>1 DEF Graphs
<1>2. ASSUME NEW i \in GraphSlots
      PROVE  graphs'[i] \in Graphs \union {NoGraph} /\ (graphs'[i] # NoGraph <=> i \in Registered)
  BY <1>1, NothingAssumption
<1>3. graphs' \in GraphArrays
  BY <1>2 DEF GraphArrays
<1>4. Registered' = Registered
  BY <1>2 DEF Registered
<1>5. QED
  BY <1>1, <1>3, <1>4 DEF GraphsKept

LEMMA ChangeThemeKeepsGraphs ==
  ASSUME RegistryInv, NEW id \in Handles, ChangeTheme(id)
  PROVE  GraphsKept
<1>1. TypeOK
  BY DEF RegistryInv
<1>2. PICK i \in Find(id) :
        /\ graphs[i].sequence < MaxThemes
        /\ graphs' = [graphs EXCEPT ![i].sequence = @ + 1, ![i].isConfigAcked = FALSE]
  BY DEF ChangeTheme
<1>3. i \in Registered /\ i \in GraphSlots /\ graphs[i] \in Graphs /\ graphs \in GraphArrays
  BY <1>1, <1>2, GraphsAreNotNothing DEF Find, Registered, TypeOK, GraphArrays
<1> DEFINE changed == [graphs[i] EXCEPT !.sequence = graphs[i].sequence + 1,
                                        !.isConfigAcked = FALSE]
<1>4. graphs' = [graphs EXCEPT ![i] = changed]
  BY <1>2, <1>3 DEF GraphArrays
<1>5. graphs[i].sequence + 1 \in 0 .. MaxThemes
  BY <1>2, <1>3, RegistryAssumption DEF Graphs
<1>6. ASSUME NEW j \in Registered
      PROVE  \E sequence \in 0 .. MaxThemes, isConfigAcked \in BOOLEAN :
               graphs'[j] = [graphs[j] EXCEPT !.sequence = sequence,
                                              !.isConfigAcked = isConfigAcked]
  <2>1. CASE j = i
    <3>1. graphs'[j] = changed
      BY <1>3, <1>4, <2>1 DEF GraphArrays
    <3>2. QED
      BY <1>5, <2>1, <3>1
  <2>2. CASE j # i
    <3>1. graphs'[j] = graphs[j] /\ graphs[j] \in Graphs
      BY <1>1, <1>3, <1>4, <2>2, GraphsAreNotNothing DEF GraphArrays, Registered
    <3>2. graphs[j] = [graphs[j] EXCEPT !.sequence = graphs[j].sequence,
                                        !.isConfigAcked = graphs[j].isConfigAcked]
          /\ graphs[j].sequence \in 0 .. MaxThemes /\ graphs[j].isConfigAcked \in BOOLEAN
      BY <3>1 DEF Graphs
    <3>3. QED
      BY <3>1, <3>2
  <2>3. QED
    BY <2>1, <2>2
<1> HIDE DEF changed
<1>7. \A j \in GraphSlots \ Registered : graphs'[j] = NoGraph
  BY <1>3, <1>4 DEF GraphArrays, Registered
<1>8. graphs' = [j \in GraphSlots |-> graphs'[j]]
  BY <1>3, <1>4 DEF GraphArrays
<1>9. QED
  BY <1>1, <1>6, <1>7, <1>8, SettingsKeepGraphs

LEMMA ChangeThemeKeeps ==
  ASSUME RegistryInv, NEW id \in Handles, ChangeTheme(id)
  PROVE  RegistryInv'
<1>1. TypeOK /\ CountInv /\ OpInv /\ StreamInv /\ HeapKept /\ StreamsKept
  BY UnchangedKeepsHeap, UnchangedKeepsStreams DEF RegistryInv, ChangeTheme
<1>2. GraphsKept
  BY ChangeThemeKeepsGraphs
<1>3. SmallTypesOK'
  BY <1>1, SmallTypes DEF ChangeTheme, SmallTypesOK
<1>4. OpInv'
  BY <1>1, <1>2 DEF ChangeTheme, OpInv, Idle, GraphsKept
<1>5. QED
  BY <1>1, <1>2, <1>3, <1>4, KeptInv DEF RegistryInv, ChangeTheme

LEMMA ReceiveAckKeepsGraphs ==
  ASSUME RegistryInv, NEW id \in Handles, NEW sequence \in 0 .. MaxThemes,
         ReceiveAck(id, sequence)
  PROVE  GraphsKept
<1>1. TypeOK
  BY DEF RegistryInv
<1>2. graphs' = [i \in GraphSlots |->
        IF i \in Find(id) /\ graphs[i].sequence = sequence
        THEN [graphs[i] EXCEPT !.isConfigAcked = TRUE] ELSE graphs[i]]
  BY DEF ReceiveAck
<1>3. ASSUME NEW j \in Registered
      PROVE  \E number \in 0 .. MaxThemes, isConfigAcked \in BOOLEAN :
               graphs'[j] = [graphs[j] EXCEPT !.sequence = number,
                                              !.isConfigAcked = isConfigAcked]
  <2>1. j \in GraphSlots /\ graphs[j] \in Graphs
    BY <1>1, GraphsAreNotNothing DEF Registered
  <2>2. /\ graphs[j].sequence \in 0 .. MaxThemes /\ graphs[j].isConfigAcked \in BOOLEAN
        /\ graphs[j] = [graphs[j] EXCEPT !.sequence = graphs[j].sequence,
                                         !.isConfigAcked = graphs[j].isConfigAcked]
        /\ [graphs[j] EXCEPT !.isConfigAcked = TRUE] =
             [graphs[j] EXCEPT !.sequence = graphs[j].sequence, !.isConfigAcked = TRUE]
    BY <2>1 DEF Graphs
  <2>3. graphs'[j] = [graphs[j] EXCEPT !.isConfigAcked = TRUE] \/ graphs'[j] = graphs[j]
    BY <1>2, <2>1
  <2>4. QED
    BY <2>2, <2>3
<1>4. \A j \in GraphSlots \ Registered : graphs'[j] = NoGraph
  BY <1>2 DEF Registered, Find
<1>5. graphs' = [j \in GraphSlots |-> graphs'[j]]
  BY <1>2
<1>6. QED
  BY <1>1, <1>3, <1>4, <1>5, SettingsKeepGraphs

LEMMA ReceiveAckKeeps ==
  ASSUME RegistryInv, NEW id \in Handles, NEW sequence \in 0 .. MaxThemes,
         ReceiveAck(id, sequence)
  PROVE  RegistryInv'
<1>1. TypeOK /\ CountInv /\ OpInv /\ StreamInv /\ HeapKept /\ StreamsKept
  BY UnchangedKeepsHeap, UnchangedKeepsStreams DEF RegistryInv, ReceiveAck
<1>2. GraphsKept
  BY ReceiveAckKeepsGraphs
<1>3. SmallTypesOK'
  BY <1>1, SmallTypes DEF ReceiveAck, SmallTypesOK
<1>4. OpInv'
  BY <1>1, <1>2 DEF ReceiveAck, OpInv, Idle, GraphsKept
<1>5. QED
  BY <1>1, <1>2, <1>3, <1>4, KeptInv DEF RegistryInv, ReceiveAck

-----------------------------------------------------------------------------
(* Steps that change what is registered                                    *)

LEMMA NewGraphIsEmpty ==
  ASSUME NEW c \in Creators, AllocatedId \in Handles
  PROVE  /\ NewGraph(c) \in Graphs /\ NewGraph(c) # NoGraph
         /\ NewGraph(c).id = AllocatedId /\ NewGraph(c).owner = c
         /\ ~NewGraph(c).destroyRequested /\ ~NewGraph(c).isConfigAcked
         /\ StreamsOf(NewGraph(c)) = {} /\ SlotsInv(NewGraph(c))
<1>1. MaxStreams \in Nat /\ MaxThemes \in Nat
  BY RegistryAssumption
<1>2. [k \in StreamSlots |-> NoStream] \in [StreamSlots -> Heap \union {NoStream}]
  OBVIOUS
<1>3. NewGraph(c) \in Graphs
  BY <1>1, <1>2 DEF NewGraph, Graphs
<1>4. Occupied(NewGraph(c)) = {} /\ StreamsOf(NewGraph(c)) = {}
  BY DEF Occupied, StreamsOf, NewGraph
<1>5. SlotsInv(NewGraph(c))
  BY <1>4, FS_EmptySet DEF SlotsInv, NewGraph
<1>6. QED
  BY <1>3, <1>4, <1>5, NothingAssumption DEF NewGraph

(* register_graph fills a free slot with the new graph.                    *)
LEMMA RegisteredGraph ==
  ASSUME RegistryInv, RegisterGraph
  PROVE  /\ op.instance \in Creators /\ AllocatedId \in Handles
         /\ \E slot \in GraphSlots \ Registered :
              /\ graphs' = [graphs EXCEPT ![slot] = NewGraph(op.instance)]
              /\ Registered' = Registered \union {slot}
              /\ graphs'[slot] = NewGraph(op.instance)
              /\ \A i \in Registered : i # slot /\ graphs'[i] = graphs[i]
<1>1. TypeOK /\ CountInv /\ OpInv /\ op.step = "register" /\ graphCount < Capacity
  BY DEF RegistryInv, RegisterGraph
<1>2. op.instance \in Creators /\ AllocatedId \in Handles
  BY <1>1, AllocatedIdIsNew DEF OpInv
<1> DEFINE slot == Least(GraphSlots \ Registered)
<1>3. slot \in GraphSlots \ Registered
  BY <1>1, FreeSlotExists
<1>4. graphs' = [graphs EXCEPT ![slot] = NewGraph(op.instance)]
  BY DEF RegisterGraph
<1>5. NewGraph(op.instance) # NoGraph
  BY <1>2, NewGraphIsEmpty
<1> HIDE DEF slot
<1>6. /\ graphs'[slot] = NewGraph(op.instance)
      /\ \A i \in GraphSlots \ {slot} : graphs'[i] = graphs[i]
  BY <1>1, <1>3, <1>4 DEF TypeOK
<1>7. Registered' = Registered \union {slot}
  BY <1>3, <1>5, <1>6 DEF Registered
<1>8. \A i \in Registered : i # slot /\ graphs'[i] = graphs[i]
  BY <1>3, <1>6 DEF Registered
<1>9. QED
  BY <1>2, <1>3, <1>4, <1>6, <1>7, <1>8

LEMMA RegisterGraphKeeps ==
  ASSUME RegistryInv, RegisterGraph
  PROVE  RegistryInv'
<1>1. /\ TypeOK /\ CountInv /\ OpInv /\ StreamInv
      /\ op.step = "register" /\ graphCount < Capacity
  BY DEF RegistryInv, RegisterGraph
<1>2. op.instance \in Creators /\ AllocatedId \in Handles /\ Offset(AllocatedId, 1) \in Handles
      /\ \A i \in Registered : graphs[i].id # AllocatedId
  BY <1>1, RegisteredGraph, AllocatedIdIsNew
<1>3. PICK slot \in GraphSlots \ Registered :
        /\ graphs' = [graphs EXCEPT ![slot] = NewGraph(op.instance)]
        /\ Registered' = Registered \union {slot}
        /\ graphs'[slot] = NewGraph(op.instance)
        /\ \A i \in Registered : i # slot /\ graphs'[i] = graphs[i]
  BY RegisteredGraph
<1> DEFINE new == NewGraph(op.instance)
<1>4. /\ new \in Graphs /\ new.id = AllocatedId /\ StreamsOf(new) = {} /\ SlotsInv(new)
  BY <1>2, NewGraphIsEmpty
<1>5. graphs' \in GraphArrays
  BY <1>1, <1>3, <1>4 DEF TypeOK, GraphArrays
<1>6. op' \in [step : Steps, instance : Instances \union {NoInstance},
               graphId : Handles \union {InvalidHandle}]
      /\ \/ op'.step = "idle"
         \/ op'.step = "attach" /\ op'.instance = op.instance /\ op.instance \in Displays
  <2>1. CASE op.instance \in Scopes
    BY <1>1, <2>1 DEF RegisterGraph, GoTo, Return, Steps, TypeOK
  <2>2. CASE op.instance \notin Scopes
    BY <1>1, <1>2, <2>2, InstancesAre DEF RegisterGraph, GoTo, Steps, TypeOK, Creators
  <2>3. QED
    BY <2>1, <2>2
<1>7. SmallTypesOK'
  BY <1>1, <1>2, <1>6, SmallTypes, InstancesAre DEF RegisterGraph, SmallTypesOK
<1>8. graphCount' = graphCount + 1 /\ graphCount' \in 0 .. Capacity /\ nextGraphId' \in Handles
  BY <1>1, <1>2, RegistryIsFinite DEF RegisterGraph, TypeOK
<1>9. TypeOK'
  BY <1>1, <1>5, <1>7, <1>8 DEF TypeOK, SmallTypesOK, GraphArrays, RegisterGraph
<1>10. CountInv'
  <2>1. graphCount' = Cardinality(Registered')
    BY <1>1, <1>3, <1>8, RegisteredIsFinite, FS_AddElement DEF CountInv
  <2>2. \A i \in Registered' : SlotsInv(graphs'[i])
    BY <1>1, <1>3, <1>4 DEF CountInv
  <2>3. \A i, j \in Registered' : graphs'[i].id = graphs'[j].id => i = j
    BY <1>1, <1>2, <1>3, <1>4 DEF CountInv
  <2>4. QED
    BY <2>1, <2>2, <2>3 DEF CountInv, SlotsInv, Occupied
<1>11. OpInv'
  BY <1>1, <1>6, InstancesAre DEF RegisterGraph, OpInv, Idle
<1>12. StreamInv'
  <2>1. heap' = heap /\ streamOf' = streamOf
    BY DEF RegisterGraph
  <2>2. /\ \A i \in Registered' : \A s \in StreamsOf(graphs'[i]) : heap[s] # Unused
        /\ \A i, j \in Registered' :
             \A s \in StreamsOf(graphs'[i]) \intersect StreamsOf(graphs'[j]) : i = j
        /\ \A s \in Heap : heap[s] # Unused =>
             \E i \in Registered' : s \in StreamsOf(graphs'[i])
    BY <1>1, <1>3, <1>4 DEF StreamInv
  <2>3. QED
    BY <1>1, <2>1, <2>2 DEF StreamInv, StreamsOf
<1>13. QED
  BY <1>9, <1>10, <1>11, <1>12 DEF RegistryInv

(* A graph with one more stream.                                           *)
Extended(g, slot, s) ==
  [g EXCEPT !.streams = [g.streams EXCEPT ![slot] = s], !.streamCount = g.streamCount + 1]

LEMMA ExtendedGraph ==
  ASSUME NEW g \in Graphs, SlotsInv(g), NEW slot \in StreamSlots,
         g.streams[slot] = NoStream, NEW s \in Heap, s \notin StreamsOf(g)
  PROVE  /\ Extended(g, slot, s) \in Graphs /\ SlotsInv(Extended(g, slot, s))
         /\ StreamsOf(Extended(g, slot, s)) = StreamsOf(g) \union {s}
         /\ Extended(g, slot, s).id = g.id /\ Extended(g, slot, s).owner = g.owner
         /\ Extended(g, slot, s).sequence = g.sequence
         /\ Extended(g, slot, s).isConfigAcked = g.isConfigAcked
         /\ Extended(g, slot, s).destroyRequested = g.destroyRequested
<1> DEFINE streams == [g.streams EXCEPT ![slot] = s]
           h == Extended(g, slot, s)
<1>1. g.streams \in [StreamSlots -> Heap \union {NoStream}] /\ s # NoStream
  BY RegistryAssumption DEF Graphs
<1>2. /\ streams \in [StreamSlots -> Heap \union {NoStream}]
      /\ streams[slot] = s /\ \A k \in StreamSlots \ {slot} : streams[k] = g.streams[k]
  BY <1>1
<1> HIDE DEF streams
<1>3. h = [g EXCEPT !.streams = streams, !.streamCount = g.streamCount + 1]
  BY DEF Extended, streams
<1>4. h.streams = streams /\ h.streamCount = g.streamCount + 1
  BY <1>3 DEF Graphs
<1> HIDE DEF h
<1>5. Occupied(h) = Occupied(g) \union {slot} /\ slot \notin Occupied(g)
  BY <1>1, <1>2, <1>4 DEF Occupied
<1>6. Cardinality(Occupied(h)) = Cardinality(Occupied(g)) + 1
  BY <1>5, OccupiedIsFinite, FS_AddElement
<1>7. h.streamCount = Cardinality(Occupied(h)) /\ h.streamCount \in 0 .. MaxStreams
  BY <1>4, <1>6, OccupiedIsFinite DEF SlotsInv
<1>8. StreamsOf(h) = StreamsOf(g) \union {s}
  BY <1>1, <1>2, <1>4 DEF StreamsOf
<1>9. \A j, k \in Occupied(h) : h.streams[j] = h.streams[k] => j = k
  <2>1. \A k \in Occupied(g) : k \in StreamSlots /\ k # slot /\ g.streams[k] # s
    BY <1>1, <1>5 DEF Occupied, StreamsOf
  <2>2. QED
    BY <1>2, <1>4, <1>5, <2>1 DEF SlotsInv
<1>10. h \in Graphs /\ h.id = g.id /\ h.owner = g.owner /\ h.sequence = g.sequence
       /\ h.isConfigAcked = g.isConfigAcked /\ h.destroyRequested = g.destroyRequested
  <2>1. g.streamCount + 1 \in 0 .. MaxStreams
    BY <1>4, <1>7
  <2>2. QED
    BY <1>2, <1>3, <2>1 DEF Graphs
<1>11. QED
  BY <1>7, <1>8, <1>9, <1>10 DEF SlotsInv, h

(* create_stream registers a new stream with one graph.                    *)
LEMMA CreatedStream ==
  ASSUME RegistryInv, CreateStream
  PROVE  \E i \in Registered, s \in Heap :
           /\ heap[s] = Unused
           /\ heap' = [heap EXCEPT ![s] = [released |-> FALSE, backlog |-> FALSE]]
           /\ streamOf' = [streamOf EXCEPT ![op.instance] = s]
           /\ \E slot \in StreamSlots :
                /\ graphs[i].streams[slot] = NoStream
                /\ graphs'[i] = Extended(graphs[i], slot, s)
           /\ \A j \in GraphSlots \ {i} : graphs'[j] = graphs[j]
           /\ graphs' \in GraphArrays /\ Registered' = Registered
           /\ ~graphs[i].destroyRequested
           /\ graphs[i] \in Graphs /\ SlotsInv(graphs[i]) /\ s \notin StreamsOf(graphs[i])
<1>1. TypeOK /\ CountInv /\ StreamInv
  BY DEF RegistryInv
<1>2. PICK i \in Find(op.graphId), s \in Heap :
        /\ Accepts(i, op.instance)
        /\ heap[s] = Unused
        /\ heap' = [heap EXCEPT ![s] = [released |-> FALSE, backlog |-> FALSE]]
        /\ LET slot == Least({k \in StreamSlots : graphs[i].streams[k] = NoStream})
           IN graphs' = [graphs EXCEPT ![i].streams[slot] = s, ![i].streamCount = @ + 1]
        /\ streamOf' = [streamOf EXCEPT ![op.instance] = s]
  BY DEF CreateStream
<1>3. i \in Registered /\ i \in GraphSlots /\ graphs[i] \in Graphs /\ graphs \in GraphArrays
      /\ SlotsInv(graphs[i])
  BY <1>1, GraphsAreNotNothing DEF Find, Registered, TypeOK, GraphArrays, CountInv
<1> DEFINE free == {k \in StreamSlots : graphs[i].streams[k] = NoStream}
           slot == Least(free)
<1>4. slot \in free
  <2>1. free # {} /\ free \in SUBSET Nat
    BY <1>2, RegistryIsFinite DEF Accepts, StreamSlots
  <2> HIDE DEF free
  <2>2. QED
    BY <2>1, LeastIsThere
<1>5. graphs' = [graphs EXCEPT ![i].streams[slot] = s, ![i].streamCount = @ + 1]
  BY <1>2
<1>6. slot \in StreamSlots /\ graphs[i].streams[slot] = NoStream
  BY <1>4
<1> HIDE DEF slot, free
<1>7. graphs' = [graphs EXCEPT ![i] = Extended(graphs[i], slot, s)]
  BY <1>3, <1>5, <1>6 DEF Extended, Graphs, GraphArrays
<1>8. s \notin StreamsOf(graphs[i])
  BY <1>1, <1>2, <1>3 DEF StreamInv
<1>9. Extended(graphs[i], slot, s) \in Graphs
  BY <1>3, <1>6, <1>8, ExtendedGraph
<1>10. /\ graphs'[i] = Extended(graphs[i], slot, s) /\ graphs' \in GraphArrays
       /\ \A j \in GraphSlots \ {i} : graphs'[j] = graphs[j]
  BY <1>3, <1>7, <1>9 DEF GraphArrays
<1>11. Registered' = Registered
  BY <1>3, <1>9, <1>10, NothingAssumption DEF Registered
<1>12. QED
  BY <1>2, <1>3, <1>6, <1>8, <1>10, <1>11 DEF Accepts

LEMMA CreateStreamKeeps ==
  ASSUME RegistryInv, CreateStream
  PROVE  RegistryInv'
<1>1. TypeOK /\ CountInv /\ OpInv /\ StreamInv /\ op.step = "attach"
      /\ op.instance \in Attachers /\ streamOf[op.instance] = NoStream
  BY DEF RegistryInv, OpInv, CreateStream
<1>2. PICK i \in Registered, s \in Heap :
           /\ heap[s] = Unused
           /\ heap' = [heap EXCEPT ![s] = [released |-> FALSE, backlog |-> FALSE]]
           /\ streamOf' = [streamOf EXCEPT ![op.instance] = s]
           /\ \E slot \in StreamSlots :
                /\ graphs[i].streams[slot] = NoStream
                /\ graphs'[i] = Extended(graphs[i], slot, s)
           /\ \A j \in GraphSlots \ {i} : graphs'[j] = graphs[j]
           /\ graphs' \in GraphArrays /\ Registered' = Registered
           /\ graphs[i] \in Graphs /\ SlotsInv(graphs[i]) /\ s \notin StreamsOf(graphs[i])
  BY CreatedStream
<1>3. /\ SlotsInv(graphs'[i]) /\ StreamsOf(graphs'[i]) = StreamsOf(graphs[i]) \union {s}
      /\ graphs'[i].id = graphs[i].id
  BY <1>2, ExtendedGraph
<1> DEFINE stream == [released |-> FALSE, backlog |-> FALSE]
<1>4. stream \in Streams /\ stream # Unused /\ ~stream.released /\ s # NoStream
  <2>1. stream \in Streams /\ ~stream.released
    BY DEF Streams
  <2>2. s # NoStream
    BY <1>2, RegistryAssumption
  <2>3. QED
    BY <2>1, <2>2, NothingAssumption
<1>5. /\ heap' \in Heaps /\ heap'[s] = stream
      /\ \A other \in Heap \ {s} : heap'[other] = heap[other]
  BY <1>1, <1>2, <1>4 DEF TypeOK, Heaps
<1> HIDE DEF stream
<1>6. /\ streamOf' \in [Attachers -> Heap \union {NoStream}] /\ streamOf'[op.instance] = s
      /\ \A p \in Attachers \ {op.instance} : streamOf'[p] = streamOf[p]
  BY <1>1, <1>2 DEF TypeOK
<1>7. op' \in [step : Steps, instance : Instances \union {NoInstance},
               graphId : Handles \union {InvalidHandle}]
      /\ \/ op'.step = "idle"
         \/ op'.step = "fill" /\ op'.instance = op.instance
  <2>1. CASE op.instance \in Tables
    BY <1>1, <2>1 DEF CreateStream, GoTo, Steps, TypeOK
  <2>2. CASE op.instance \notin Tables
    BY <1>1, <2>2 DEF CreateStream, GoTo, Return, Steps, TypeOK
  <2>3. QED
    BY <2>1, <2>2
<1>8. SmallTypesOK'
  BY <1>1, <1>6, <1>7, SmallTypes DEF CreateStream, SmallTypesOK
<1>9. TypeOK'
  BY <1>1, <1>2, <1>5, <1>8 DEF TypeOK, SmallTypesOK, GraphArrays, Heaps, CreateStream
<1>10. \A j \in Registered : j # i => graphs'[j] = graphs[j]
  BY <1>2 DEF Registered
<1>11. CountInv'
  <2>1. graphCount' = Cardinality(Registered')
    BY <1>1, <1>2 DEF CountInv, CreateStream
  <2>2. \A j \in Registered' : SlotsInv(graphs'[j])
    BY <1>1, <1>2, <1>3, <1>10 DEF CountInv
  <2>3. \A j, k \in Registered' : graphs'[j].id = graphs'[k].id => j = k
    BY <1>1, <1>2, <1>3, <1>10 DEF CountInv
  <2>4. QED
    BY <2>1, <2>2, <2>3 DEF CountInv, SlotsInv, Occupied
<1>12. OpInv'
  <2>1. \A p \in Attachers : streamOf'[p] # NoStream => p \in active'
    BY <1>1, <1>6 DEF OpInv, CreateStream
  <2>2. session' = session /\ active' = active /\ handle' = handle
    BY DEF CreateStream
  <2>3. QED
    BY <1>1, <1>4, <1>6, <1>7, <2>1, <2>2 DEF OpInv, Idle
<1>13. StreamInv'
  <2>1. \A j \in Registered : s \notin StreamsOf(graphs[j])
    BY <1>1, <1>2 DEF StreamInv
  <2>2. \A j \in Registered : StreamsOf(graphs[j]) \subseteq Heap
    BY <1>1, GraphsAreNotNothing DEF StreamsOf, Registered, Graphs
  <2>3. \A j \in Registered' : \A t \in StreamsOf(graphs'[j]) : heap'[t] # Unused
    <3>1. ASSUME NEW j \in Registered, NEW t \in StreamsOf(graphs[j])
          PROVE  heap'[t] # Unused
      <4>1. t \in Heap /\ heap[t] # Unused /\ t # s
        BY <1>1, <1>2, <2>2 DEF StreamInv
      <4>2. QED
        BY <1>5, <4>1
    <3>2. heap'[s] # Unused
      BY <1>4, <1>5
    <3>3. QED
      BY <1>2, <1>3, <1>10, <3>1, <3>2
  <2>4. \A j, k \in Registered' :
          \A t \in StreamsOf(graphs'[j]) \intersect StreamsOf(graphs'[k]) : j = k
    BY <1>1, <1>2, <1>3, <1>10, <2>1 DEF StreamInv
  <2>5. \A t \in Heap : heap'[t] # Unused => \E j \in Registered' : t \in StreamsOf(graphs'[j])
    BY <1>1, <1>2, <1>3, <1>5, <1>10 DEF StreamInv
  <2>6. \A p \in Attachers : streamOf[p] # NoStream => streamOf[p] \in Heap /\ streamOf[p] # s
    BY <1>1, <1>2 DEF StreamInv, TypeOK
  <2>7. \A p \in Attachers : streamOf'[p] # NoStream =>
          heap'[streamOf'[p]] # Unused /\ ~heap'[streamOf'[p]].released
    BY <1>1, <1>4, <1>5, <1>6, <2>6 DEF StreamInv
  <2>8. \A p, q \in Attachers :
          streamOf'[p] # NoStream /\ streamOf'[p] = streamOf'[q] => p = q
    BY <1>1, <1>6, <2>6 DEF StreamInv
  <2>9. QED
    BY <2>3, <2>4, <2>5, <2>7, <2>8 DEF StreamInv, StreamsOf
<1>14. QED
  BY <1>9, <1>11, <1>12, <1>13 DEF RegistryInv

LEMMA ResetKeeps ==
  ASSUME RegistryInv, Reset
  PROVE  RegistryInv'
<1>1. TypeOK /\ CountInv /\ OpInv /\ StreamInv /\ Idle /\ active = {}
  BY DEF RegistryInv, Reset
<1>2. graphs' = [i \in GraphSlots |-> NoGraph] /\ Registered' = {}
  BY DEF Reset, Registered
<1>3. \A s \in Heap : heap[s] # Unused => \E i \in Registered : s \in StreamsOf(graphs[i])
  BY <1>1 DEF StreamInv
<1>4. heap' = [s \in Heap |-> Unused]
  BY <1>3 DEF Reset
<1>5. \A p \in Attachers : streamOf[p] = NoStream
  BY <1>1 DEF OpInv
<1>6. graphCount' = 0 /\ graphCount' \in 0 .. Capacity
  BY RegistryIsFinite DEF Reset
<1>7. UNCHANGED <<nextGraphId, handle, streamOf, active, op>> /\ sentConfigs' = {}
      /\ session' = "reset"
  BY DEF Reset
<1>8. TypeOK'
  BY <1>1, <1>2, <1>4, <1>6, <1>7 DEF TypeOK
<1>9. CountInv'
  BY <1>2, <1>6, FS_EmptySet DEF CountInv
<1>10. OpInv'
  BY <1>1, <1>2, <1>7 DEF OpInv, Idle
<1>11. StreamInv'
  BY <1>2, <1>4, <1>5, <1>7 DEF StreamInv
<1>12. QED
  BY <1>8, <1>9, <1>10, <1>11 DEF RegistryInv

-----------------------------------------------------------------------------
(* A pass of the sender thread                                             *)

(* A graph after its finished streams were freed.                          *)
LEMMA ServedGraph ==
  ASSUME TypeOK, NEW g \in Graphs, SlotsInv(g), NEW drained
  PROVE  /\ Served(g, drained) \in Graphs /\ SlotsInv(Served(g, drained))
         /\ StreamsOf(Served(g, drained)) = StreamsOf(g) \ Finished(g, drained)
         /\ Served(g, drained).id = g.id /\ Served(g, drained).owner = g.owner
         /\ Served(g, drained).sequence = g.sequence
         /\ Served(g, drained).isConfigAcked = g.isConfigAcked
         /\ Served(g, drained).destroyRequested = g.destroyRequested
<1> DEFINE gone == Finished(g, drained)
           h == Served(g, drained)
           left == [k \in StreamSlots |-> IF g.streams[k] \in gone THEN NoStream ELSE g.streams[k]]
           closed == g.closeSent \/ (g.isConfigAcked /\ g.closeRequested)
           emptied == {k \in Occupied(g) : g.streams[k] \in gone}
<1>1. /\ g.streams \in [StreamSlots -> Heap \union {NoStream}] /\ closed \in BOOLEAN
      /\ gone \subseteq StreamsOf(g) /\ NoStream \notin gone
  BY DEF Graphs, Finished, StreamsOf
<1>2. h = [g EXCEPT !.closeSent = closed, !.streams = left,
                    !.streamCount = g.streamCount - Cardinality(gone)]
  BY <1>1 DEF Served, Graphs
<1>3. left \in [StreamSlots -> Heap \union {NoStream}]
  BY <1>1
<1>4. h.streams = left /\ h.streamCount = g.streamCount - Cardinality(gone)
  <2> HIDE DEF left, closed, gone, h
  <2>1. QED
    BY <1>2 DEF Graphs
<1> HIDE DEF closed, h, gone
<1>5. Occupied(h) = Occupied(g) \ emptied
  BY <1>1, <1>4 DEF Occupied
<1>6. Cardinality(emptied) = Cardinality(gone) /\ IsFiniteSet(emptied)
  <2>1. IsFiniteSet(emptied)
    BY OccupiedIsFinite, FS_Subset
  <2> DEFINE content == [k \in emptied |-> g.streams[k]]
  <2>2. content \in [emptied -> gone]
    OBVIOUS
  <2>3. \A j, k \in emptied : content[j] = content[k] => j = k
    BY DEF SlotsInv
  <2>4. \A s \in gone : \E k \in emptied : content[k] = s
    BY <1>1 DEF StreamsOf, Occupied
  <2> HIDE DEF content, emptied
  <2>5. content \in Bijection(emptied, gone)
    BY <2>2, <2>3, <2>4 DEF Bijection, Injection, Surjection, IsInjective
  <2>6. ExistsBijection(emptied, gone)
    BY <2>5 DEF ExistsBijection
  <2>7. QED
    BY <2>1, <2>6, FS_Bijection
<1>7. Cardinality(Occupied(h)) = Cardinality(Occupied(g)) - Cardinality(emptied)
  <2>1. Occupied(g) \intersect emptied = emptied
    OBVIOUS
  <2> HIDE DEF emptied
  <2>2. QED
    BY <1>5, <2>1, OccupiedIsFinite, FS_Difference
<1>8. h.streamCount = Cardinality(Occupied(h)) /\ h.streamCount \in 0 .. MaxStreams
  <2>1. h.streamCount = Cardinality(Occupied(h))
    BY <1>4, <1>6, <1>7 DEF SlotsInv
  <2>2. QED
    BY <2>1, OccupiedIsFinite
<1>9. \A j, k \in Occupied(h) : h.streams[j] = h.streams[k] => j = k
  <2>1. \A k \in Occupied(h) : k \in Occupied(g) /\ h.streams[k] = g.streams[k]
    BY <1>4, <1>5 DEF Occupied
  <2>2. QED
    BY <2>1 DEF SlotsInv
<1>10. StreamsOf(h) = StreamsOf(g) \ gone
  BY <1>1, <1>4 DEF StreamsOf
<1> HIDE DEF left
<1>11. /\ h \in Graphs /\ h.id = g.id /\ h.owner = g.owner /\ h.sequence = g.sequence
       /\ h.isConfigAcked = g.isConfigAcked /\ h.destroyRequested = g.destroyRequested
  <2>1. g.streamCount - Cardinality(gone) \in 0 .. MaxStreams
    BY <1>4, <1>8
  <2>2. QED
    BY <1>1, <1>2, <1>3, <2>1 DEF Graphs
<1>12. QED
  BY <1>8, <1>9, <1>10, <1>11 DEF SlotsInv, h, gone

(* The graphs that stay, and what is left in them.                         *)
LEMMA PassedGraphs ==
  ASSUME RegistryInv, NEW drained \in SUBSET Sendable, PassThat(drained)
  PROVE  /\ graphs' \in GraphArrays /\ Registered' \subseteq Registered
         /\ \A i \in Registered \ Registered' :
              ~Waiting(graphs[i]) /\ graphs[i].destroyRequested
              /\ StreamsOf(graphs[i]) = Finished(graphs[i], drained)
         /\ \A i \in Registered :
              (i \in Registered') <=> (AfterPass(graphs[i], drained) # NoGraph)
         /\ \A i \in Registered' :
              /\ SlotsInv(graphs'[i])
              /\ StreamsOf(graphs'[i]) =
                   StreamsOf(graphs[i]) \ (IF Waiting(graphs[i]) THEN {}
                                           ELSE Finished(graphs[i], drained))
              /\ graphs'[i].id = graphs[i].id /\ graphs'[i].owner = graphs[i].owner
              /\ graphs'[i].sequence = graphs[i].sequence
              /\ graphs'[i].isConfigAcked = graphs[i].isConfigAcked
              /\ graphs'[i].destroyRequested = graphs[i].destroyRequested
<1>1. TypeOK /\ CountInv
  BY DEF RegistryInv
<1>2. graphs' = [i \in GraphSlots |->
        IF i \in Registered THEN AfterPass(graphs[i], drained) ELSE NoGraph]
  BY DEF PassThat
<1>3. ASSUME NEW i \in Registered
      PROVE  /\ i \in GraphSlots /\ graphs[i] \in Graphs /\ SlotsInv(graphs[i])
             /\ graphs'[i] = AfterPass(graphs[i], drained)
  BY <1>1, <1>2, GraphsAreNotNothing DEF Registered, CountInv
<1>4. ASSUME NEW i \in Registered
      PROVE  \/ Waiting(graphs[i]) /\ graphs'[i] = graphs[i]
             \/ ~Waiting(graphs[i]) /\ graphs'[i] = Served(graphs[i], drained)
             \/ /\ graphs'[i] = NoGraph /\ ~Waiting(graphs[i]) /\ graphs[i].destroyRequested
                /\ StreamsOf(graphs[i]) = Finished(graphs[i], drained)
  BY <1>3 DEF AfterPass
<1>5. ASSUME NEW i \in Registered
      PROVE  graphs'[i] \in Graphs \union {NoGraph}
  BY <1>1, <1>3, <1>4, ServedGraph
<1>6. graphs' \in GraphArrays
  <2>1. \A i \in GraphSlots : graphs'[i] \in Graphs \union {NoGraph}
    BY <1>2, <1>5
  <2>2. QED
    BY <1>2, <2>1 DEF GraphArrays
<1>7. Registered' \subseteq Registered
  BY <1>2 DEF Registered
<1>8. \A i \in Registered : (i \in Registered') <=> (graphs'[i] # NoGraph)
  BY <1>3 DEF Registered
<1>9. ASSUME NEW i \in Registered'
      PROVE  /\ SlotsInv(graphs'[i])
             /\ StreamsOf(graphs'[i]) =
                  StreamsOf(graphs[i]) \ (IF Waiting(graphs[i]) THEN {}
                                          ELSE Finished(graphs[i], drained))
             /\ graphs'[i].id = graphs[i].id /\ graphs'[i].owner = graphs[i].owner
             /\ graphs'[i].sequence = graphs[i].sequence
             /\ graphs'[i].isConfigAcked = graphs[i].isConfigAcked
             /\ graphs'[i].destroyRequested = graphs[i].destroyRequested
  <2>1. i \in Registered /\ graphs'[i] # NoGraph
    BY <1>7, <1>8
  <2>2. CASE Waiting(graphs[i]) /\ graphs'[i] = graphs[i]
    BY <1>3, <2>1, <2>2
  <2>3. CASE ~Waiting(graphs[i]) /\ graphs'[i] = Served(graphs[i], drained)
    BY <1>1, <1>3, <2>1, <2>3, ServedGraph
  <2>4. QED
    BY <1>4, <2>1, <2>2, <2>3
<1>10. \A i \in Registered \ Registered' :
         ~Waiting(graphs[i]) /\ graphs[i].destroyRequested
         /\ StreamsOf(graphs[i]) = Finished(graphs[i], drained)
  <2> SUFFICES ASSUME NEW i \in Registered, i \notin Registered'
               PROVE  ~Waiting(graphs[i]) /\ graphs[i].destroyRequested
                      /\ StreamsOf(graphs[i]) = Finished(graphs[i], drained)
    OBVIOUS
  <2>1. graphs'[i] = NoGraph
    BY <1>8
  <2>2. graphs[i] # NoGraph /\ Served(graphs[i], drained) # NoGraph
    BY <1>1, <1>3, ServedGraph, NothingAssumption
  <2>3. QED
    BY <1>4, <2>1, <2>2
<1>11. \A i \in Registered : (i \in Registered') <=> (AfterPass(graphs[i], drained) # NoGraph)
  BY <1>3, <1>8
<1>12. QED
  BY <1>6, <1>7, <1>9, <1>10, <1>11

(* The streams that stay.                                                  *)
LEMMA PassedHeap ==
  ASSUME RegistryInv, NEW drained \in SUBSET Sendable, PassThat(drained)
  PROVE  /\ heap' \in Heaps
         /\ \A s \in Heap : heap'[s] # Unused =>
              heap[s] # Unused /\ heap'[s].released = heap[s].released
         /\ \A s \in Heap : heap[s] # Unused => 
              (heap'[s] = Unused <=>
                 \E i \in Registered : ~Waiting(graphs[i]) /\ s \in Finished(graphs[i], drained))
<1>1. TypeOK /\ StreamInv
  BY DEF RegistryInv
<1> DEFINE Freed(s) ==
      \E i \in Registered : ~Waiting(graphs[i]) /\ s \in Finished(graphs[i], drained)
<1>2. heap' = [s \in Heap |->
        IF Freed(s) THEN Unused
        ELSE IF s \in drained THEN [heap[s] EXCEPT !.backlog = FALSE] ELSE heap[s]]
  BY DEF PassThat
<1> HIDE DEF Freed
<1>3. ASSUME NEW s \in Heap
      PROVE  /\ heap'[s] \in Streams \union {Unused}
             /\ heap'[s] # Unused => heap[s] # Unused /\ heap'[s].released = heap[s].released
             /\ heap[s] # Unused => (heap'[s] = Unused <=> Freed(s))
  <2>1. CASE Freed(s)
    BY <1>2, <2>1
  <2>2. CASE ~Freed(s) /\ s \in drained
    <3>1. heap[s] # Unused
      BY <2>2 DEF Sendable
    <3>2. heap[s] \in Streams
      BY <1>1, <3>1, AllocatedIsStream
    <3>3. heap'[s] = [heap[s] EXCEPT !.backlog = FALSE]
      BY <1>2, <2>2
    <3>4. heap'[s] \in Streams /\ heap'[s].released = heap[s].released
      BY <3>2, <3>3 DEF Streams
    <3>5. QED
      BY <2>2, <3>1, <3>4, NothingAssumption
  <2>3. CASE ~Freed(s) /\ s \notin drained
    BY <1>1, <1>2, <2>3 DEF TypeOK
  <2>4. QED
    BY <2>1, <2>2, <2>3
<1>4. heap' \in Heaps
  BY <1>2, <1>3 DEF Heaps
<1>5. QED
  BY <1>3, <1>4 DEF Freed

LEMMA PassKeeps ==
  ASSUME RegistryInv, NEW drained \in SUBSET Sendable, PassThat(drained)
  PROVE  RegistryInv'
<1>1. TypeOK /\ CountInv /\ OpInv /\ StreamInv
  BY DEF RegistryInv
<1>2. /\ graphs' \in GraphArrays /\ Registered' \subseteq Registered
      /\ \A i \in Registered \ Registered' :
           ~Waiting(graphs[i]) /\ StreamsOf(graphs[i]) = Finished(graphs[i], drained)
      /\ \A i \in Registered :
           (i \in Registered') <=> (AfterPass(graphs[i], drained) # NoGraph)
      /\ \A i \in Registered' :
           /\ SlotsInv(graphs'[i]) /\ graphs'[i].id = graphs[i].id
           /\ StreamsOf(graphs'[i]) =
                StreamsOf(graphs[i]) \ (IF Waiting(graphs[i]) THEN {}
                                        ELSE Finished(graphs[i], drained))
  BY PassedGraphs
<1>3. /\ heap' \in Heaps
      /\ \A s \in Heap : heap'[s] # Unused =>
           heap[s] # Unused /\ heap'[s].released = heap[s].released
      /\ \A s \in Heap : heap[s] # Unused => 
           (heap'[s] = Unused <=>
              \E i \in Registered : ~Waiting(graphs[i]) /\ s \in Finished(graphs[i], drained))
  BY PassedHeap
<1>4. UNCHANGED <<nextGraphId, handle, streamOf, active, op, session>>
  BY DEF PassThat
<1> DEFINE destroyed == {i \in Registered : AfterPass(graphs[i], drained) = NoGraph}
<1>5. graphCount' = graphCount - Cardinality(destroyed)
  BY DEF PassThat
<1>6. Registered' = Registered \ destroyed /\ destroyed \subseteq Registered
  BY <1>2
<1> HIDE DEF destroyed
<1>7. graphCount' = Cardinality(Registered') /\ graphCount' \in 0 .. Capacity
  <2>1. Cardinality(Registered') = Cardinality(Registered) - Cardinality(destroyed)
    <3>1. Registered \intersect destroyed = destroyed
      BY <1>6
    <3>2. Cardinality(Registered \ destroyed) =
            Cardinality(Registered) - Cardinality(Registered \intersect destroyed)
      BY RegisteredIsFinite, FS_Difference
    <3>3. QED
      BY <1>6, <3>1, <3>2
  <2>2. Cardinality(Registered') \in 0 .. Capacity
    BY <1>2, RegisteredIsFinite
  <2>3. QED
    BY <1>1, <1>5, <2>1, <2>2 DEF CountInv
<1>8. sentConfigs' \subseteq Handles \X (0 .. MaxThemes)
  <2>1. \A i \in Registered : graphs[i].id \in Handles /\ graphs[i].sequence \in 0 .. MaxThemes
    BY <1>1, GraphsAreNotNothing DEF Registered, Graphs
  <2>2. QED
    BY <1>1, <2>1 DEF PassThat, TypeOK
<1>9. TypeOK'
  BY <1>1, <1>2, <1>3, <1>4, <1>7, <1>8 DEF TypeOK, GraphArrays, Heaps
<1>10. CountInv'
  <2>1. \A i, j \in Registered' : graphs'[i].id = graphs'[j].id => i = j
    BY <1>1, <1>2 DEF CountInv
  <2>2. \A i \in Registered' : SlotsInv(graphs'[i])
    BY <1>2
  <2>3. QED
    BY <1>7, <2>1, <2>2 DEF CountInv, SlotsInv, Occupied
<1>11. OpInv'
  BY <1>1, <1>2, <1>4 DEF OpInv, Idle
<1>12. StreamInv'
  <2>1. \A i \in Registered : StreamsOf(graphs[i]) \subseteq Heap
    BY <1>1, GraphsAreNotNothing DEF StreamsOf, Registered, Graphs
  <2>2. \A i \in Registered : Finished(graphs[i], drained) \subseteq StreamsOf(graphs[i])
    BY DEF Finished
  <2>3. ASSUME NEW i \in Registered', NEW s \in StreamsOf(graphs'[i])
        PROVE  heap'[s] # Unused
    <3>1. i \in Registered /\ s \in StreamsOf(graphs[i]) /\ s \in Heap /\ heap[s] # Unused
          /\ (Waiting(graphs[i]) \/ s \notin Finished(graphs[i], drained))
      BY <1>1, <1>2, <2>1, <2>3 DEF StreamInv
    <3>2. \A j \in Registered : s \in StreamsOf(graphs[j]) => j = i
      BY <1>1, <3>1 DEF StreamInv
    <3>3. ~\E j \in Registered : ~Waiting(graphs[j]) /\ s \in Finished(graphs[j], drained)
      BY <2>2, <3>1, <3>2
    <3>4. QED
      BY <1>3, <3>1, <3>3
  <2>4. \A i, j \in Registered' :
          \A s \in StreamsOf(graphs'[i]) \intersect StreamsOf(graphs'[j]) : i = j
    BY <1>1, <1>2 DEF StreamInv
  <2>5. ASSUME NEW s \in Heap, heap'[s] # Unused
        PROVE  \E i \in Registered' : s \in StreamsOf(graphs'[i])
    <3>1. heap[s] # Unused
          /\ ~\E j \in Registered : ~Waiting(graphs[j]) /\ s \in Finished(graphs[j], drained)
      BY <1>3, <2>5
    <3>2. PICK i \in Registered : s \in StreamsOf(graphs[i])
      BY <1>1, <3>1 DEF StreamInv
    <3>3. i \in Registered'
      BY <1>2, <3>1, <3>2
    <3>4. QED
      BY <1>2, <3>1, <3>2, <3>3
  <2>6. ASSUME NEW p \in Attachers, streamOf[p] # NoStream
        PROVE  heap'[streamOf[p]] # Unused /\ ~heap'[streamOf[p]].released
    <3>1. streamOf[p] \in Heap /\ heap[streamOf[p]] # Unused /\ ~heap[streamOf[p]].released
      BY <1>1, <2>6 DEF StreamInv, TypeOK
    <3>2. \A i \in Registered : streamOf[p] \notin Finished(graphs[i], drained)
      BY <3>1 DEF Finished
    <3>3. QED
      BY <1>3, <3>1, <3>2
  <2>7. QED
    BY <1>1, <1>4, <2>3, <2>4, <2>5, <2>6 DEF StreamInv, StreamsOf
<1>13. QED
  BY <1>9, <1>10, <1>11, <1>12 DEF RegistryInv

-----------------------------------------------------------------------------
LEMMA InitRegistry == Init => RegistryInv
<1> SUFFICES ASSUME Init PROVE RegistryInv
  OBVIOUS
<1>1. Registered = {}
  BY DEF Init, Registered
<1>2. TypeOK
  BY RegistryIsFinite, RegistryAssumption DEF Init, TypeOK, Handles, Steps
<1>3. CountInv
  BY <1>1, FS_EmptySet DEF Init, CountInv
<1>4. OpInv
  BY DEF Init, OpInv, Idle
<1>5. StreamInv
  BY <1>1 DEF Init, StreamInv
<1>6. QED
  BY <1>2, <1>3, <1>4, <1>5 DEF RegistryInv

LEMMA NextRegistry == RegistryInv /\ [Next]_vars => RegistryInv'
<1> SUFFICES ASSUME RegistryInv, [Next]_vars PROVE RegistryInv'
  OBVIOUS
<1>1. ASSUME NEW c \in Scopes, RejectArguments(c) \/ CreateInit(c) \/ CreateDeinit(c)
      PROVE  RegistryInv'
  BY <1>1, RejectArgumentsKeeps, CreateInitKeeps, CreateDeinitKeeps
<1>2. ASSUME NEW d \in Displays, TableInit(d) \/ MeterInit(d) \/ DisplayDeinit(d)
      PROVE  RegistryInv'
  BY <1>2, TableInitKeeps, MeterInitKeeps, DisplayDeinitKeeps
<1>3. ASSUME NEW a \in Adders,
             NEW id \in {graphs[i].id : i \in Registered} \union {InvalidHandle},
             AddInit(a, id) \/ AddSpectralInit(a, id)
      PROVE  RegistryInv'
  <2>1. id \in Handles \union {InvalidHandle}
    BY GraphsAreNotNothing DEF RegistryInv, Registered, Graphs
  <2>2. QED
    BY <1>3, <2>1, AddInitKeeps, AddSpectralInitKeeps
<1>4. ASSUME NEW a \in Adders, AddDeinit(a) PROVE RegistryInv'
  BY <1>4, AddDeinitKeeps
<1>5. ASSUME NEW p \in Attachers, Perf(p) PROVE RegistryInv'
  BY <1>5, PerfKeeps
<1>6. ASSUME NEW id \in Handles, ChangeTheme(id) PROVE RegistryInv'
  BY <1>6, ChangeThemeKeeps
<1>7. CASE ReplaceGraph \/ RegisterGraph \/ RegistryFull \/ CreateFails
  BY <1>7, ReplaceGraphKeeps, RegisterGraphKeeps, RegistryFullKeeps, CreateFailsKeeps
<1>8. CASE CreateStream \/ AttachFails \/ FillTable \/ DropGraph \/ Reset
  BY <1>8, CreateStreamKeeps, AttachFailsKeeps, FillTableKeeps, DropGraphKeeps, ResetKeeps
<1>9. CASE SenderPass
  BY <1>9, PassKeeps DEF SenderPass
<1>10. ASSUME NEW id \in Handles, NEW sequence \in 0 .. MaxThemes, ReceiveAck(id, sequence)
       PROVE  RegistryInv'
  BY <1>10, ReceiveAckKeeps
<1>11. CASE UNCHANGED vars
  <2>1. GraphsKept /\ HeapKept /\ StreamsKept /\ SmallTypesOK'
    BY <1>11, UnchangedKeepsGraphs, UnchangedKeepsHeap, UnchangedKeepsStreams, SmallTypes
       DEF vars, RegistryInv, SmallTypesOK
  <2>2. OpInv'
    BY <1>11, <2>1 DEF vars, RegistryInv, OpInv, Idle, GraphsKept
  <2>3. QED
    BY <1>11, <2>1, <2>2, KeptInv DEF vars, RegistryInv
<1>12. QED
  BY <1>1, <1>2, <1>3, <1>4, <1>5, <1>6, <1>7, <1>8, <1>9, <1>10, <1>11
     DEF Next, OpcodeStep, SenderStep, SessionOver

LEMMA RegistryInvariant == Spec => []RegistryInv
BY InitRegistry, NextRegistry, PTL DEF Spec

(* The streams of a graph are as many as its slots that are taken.         *)
LEMMA StreamsAreCounted ==
  ASSUME NEW g, SlotsInv(g)
  PROVE  Cardinality(StreamsOf(g)) = g.streamCount
<1> DEFINE content == [k \in Occupied(g) |-> g.streams[k]]
<1>1. /\ content \in [Occupied(g) -> StreamsOf(g)]
      /\ \A j, k \in Occupied(g) : content[j] = content[k] => j = k
      /\ \A s \in StreamsOf(g) : \E k \in Occupied(g) : content[k] = s
  BY DEF SlotsInv, Occupied, StreamsOf
<1> HIDE DEF content
<1>2. content \in Bijection(Occupied(g), StreamsOf(g))
  BY <1>1 DEF Bijection, Injection, Surjection, IsInjective
<1>3. ExistsBijection(Occupied(g), StreamsOf(g))
  BY <1>2 DEF ExistsBijection
<1>4. QED
  BY <1>3, OccupiedIsFinite, FS_Bijection DEF SlotsInv

(* register_graph and release_finished_streams keep the counters and the   *)
(* slots in step, and allocate_graph_id never gives an identifier twice.   *)
THEOREM RegistryStaysConsistent == Spec => []RegistryConsistent
<1>1. RegistryInv => RegistryConsistent
  BY StreamsAreCounted DEF RegistryInv, CountInv, SlotsInv, RegistryConsistent, Occupied
<1>2. QED
  BY <1>1, RegistryInvariant, PTL

(* create_stream, release_stream and the sender thread: no perf call finds *)
(* its stream freed, released, or in the hands of another instance.        *)
THEOREM NoStreamDangles == Spec => []NoDanglingStream
<1>1. RegistryInv => NoDanglingStream
  <2> SUFFICES ASSUME RegistryInv, NEW p \in Attachers, streamOf[p] # NoStream
               PROVE  /\ heap[streamOf[p]] # Unused
                      /\ ~heap[streamOf[p]].released
                      /\ \E i \in Registered : streamOf[p] \in StreamsOf(graphs[i])
                      /\ \A q \in Attachers : streamOf[q] = streamOf[p] => q = p
    BY DEF NoDanglingStream
  <2>1. streamOf[p] \in Heap
    BY DEF RegistryInv, TypeOK
  <2>2. QED
    BY <2>1 DEF RegistryInv, StreamInv
<1>2. QED
  BY <1>1, RegistryInvariant, PTL

-----------------------------------------------------------------------------
(* Who releases a stream                                                   *)

LEMMA ReleaseKeepsOwners ==
  ASSUME RegistryInv, OwnerInv, NEW p \in Attachers, Release(p), active \ {p} \subseteq active'
  PROVE  OwnerInv'
<1>1. /\ HeapKept /\ \A q \in Attachers \ {p} : streamOf'[q] = streamOf[q]
      /\ \A s \in Heap : s # streamOf[p] => heap'[s] = heap[s]
      /\ streamOf[p] # NoStream => heap'[streamOf[p]].released
  BY ReleaseKeepsHeap DEF RegistryInv
<1> SUFFICES ASSUME NEW s \in Heap, heap'[s] # Unused, ~heap'[s].released
             PROVE  \E q \in active' \intersect Attachers : streamOf'[q] = s
  BY DEF OwnerInv
<1>2. s # streamOf[p]
  BY <1>1, RegistryAssumption
<1>3. heap[s] # Unused /\ ~heap[s].released
  BY <1>1, <1>2
<1>4. PICK q \in active \intersect Attachers : streamOf[q] = s
  BY <1>3 DEF OwnerInv
<1>5. QED
  BY <1>1, <1>2, <1>4

LEMMA NextOwners ==
  SpectralAdders = {} /\ RegistryInv /\ OwnerInv /\ [Next]_vars => OwnerInv'
<1> SUFFICES ASSUME SpectralAdders = {}, RegistryInv, OwnerInv, [Next]_vars PROVE OwnerInv'
  OBVIOUS
<1>1. TypeOK /\ OpInv /\ StreamInv
  BY DEF RegistryInv
<1>2. ASSUME UNCHANGED <<heap, streamOf>>, active \intersect Attachers \subseteq active'
      PROVE  OwnerInv'
  BY <1>2 DEF OwnerInv
<1>3. ASSUME NEW c \in Scopes, RejectArguments(c) \/ CreateInit(c) \/ CreateDeinit(c)
      PROVE  OwnerInv'
  <2>1. UNCHANGED <<heap, streamOf>>
    BY <1>3 DEF RejectArguments, CreateInit, CreateDeinit
  <2>2. active \intersect Attachers \subseteq active'
    BY <1>3, InstancesAre DEF RejectArguments, CreateInit, CreateDeinit, Starts, Ends
  <2>3. QED
    BY <1>2, <2>1, <2>2
<1>4. ASSUME NEW d \in Displays, TableInit(d) \/ MeterInit(d) \/ DisplayDeinit(d)
      PROVE  OwnerInv'
  <2>1. d \in Attachers /\ Release(d) /\ active \ {d} \subseteq active'
    BY <1>4, InstancesAre DEF TableInit, MeterInit, DisplayDeinit, Starts, Ends
  <2>2. QED
    BY <2>1, ReleaseKeepsOwners
<1>5. ASSUME NEW a \in Adders, NEW id, AddInit(a, id) \/ AddSpectralInit(a, id) \/ AddDeinit(a)
      PROVE  OwnerInv'
  <2>1. a \in Attachers /\ Release(a) /\ active \ {a} \subseteq active'
    BY <1>5, InstancesAre DEF AddInit, AddSpectralInit, AddDeinit, Starts, Ends
  <2>2. QED
    BY <2>1, ReleaseKeepsOwners
<1>6. ASSUME NEW p \in Attachers, streamOf[p] # NoStream,
             heap' = [heap EXCEPT ![streamOf[p]].backlog = TRUE],
             UNCHANGED <<streamOf, active>>
      PROVE  OwnerInv'
  <2>1. HeapKept /\ \A s \in Heap : heap[s] # Unused => heap'[s].released = heap[s].released
    BY <1>1, <1>6, BacklogKeepsHeap
  <2>2. QED
    BY <1>6, <2>1 DEF OwnerInv, HeapKept
<1>7. ASSUME NEW p \in Attachers, Perf(p) PROVE OwnerInv'
  BY <1>6, <1>7 DEF Perf
<1>8. CASE FillTable
  BY <1>1, <1>6, <1>8 DEF FillTable, OpInv
<1>9. ASSUME NEW id \in Handles, ChangeTheme(id) PROVE OwnerInv'
  BY <1>2, <1>9 DEF ChangeTheme
<1>10. CASE ReplaceGraph \/ RegisterGraph \/ RegistryFull \/ CreateFails \/ AttachFails \/ DropGraph
  BY <1>2, <1>10 DEF ReplaceGraph, RegisterGraph, RegistryFull, CreateFails, AttachFails, DropGraph
<1>11. CASE CreateStream
  <2>1. PICK s \in Heap :
          /\ heap[s] = Unused
          /\ heap' = [heap EXCEPT ![s] = [released |-> FALSE, backlog |-> FALSE]]
          /\ streamOf' = [streamOf EXCEPT ![op.instance] = s]
    BY <1>11, CreatedStream
  <2>2. /\ op.instance \in Attachers \intersect active /\ streamOf[op.instance] = NoStream
        /\ active' = active
    BY <1>1, <1>11 DEF OpInv, CreateStream
  <2>3. \A t \in Heap \ {s} : heap'[t] = heap[t]
    BY <1>1, <2>1 DEF TypeOK
  <2>4. /\ streamOf'[op.instance] = s
        /\ \A q \in Attachers : q # op.instance => streamOf'[q] = streamOf[q]
    BY <1>1, <2>1, <2>2 DEF TypeOK
  <2> SUFFICES ASSUME NEW t \in Heap, heap'[t] # Unused, ~heap'[t].released
               PROVE  \E q \in active' \intersect Attachers : streamOf'[q] = t
    BY DEF OwnerInv
  <2>5. CASE t = s
    BY <2>2, <2>4, <2>5
  <2>6. CASE t # s
    <3>1. heap[t] # Unused /\ ~heap[t].released
      BY <2>3, <2>6
    <3>2. PICK q \in active \intersect Attachers : streamOf[q] = t
      BY <3>1 DEF OwnerInv
    <3>3. q # op.instance
      BY <2>2, <3>2, RegistryAssumption
    <3>4. QED
      BY <2>2, <2>4, <3>2, <3>3
  <2>7. QED
    BY <2>5, <2>6
<1>12. CASE Reset
  <2>1. \A s \in Heap : heap'[s] = Unused
    BY <1>1, <1>12 DEF Reset, StreamInv
  <2>2. QED
    BY <2>1 DEF OwnerInv
<1>13. CASE SenderPass
  <2>1. PICK drained \in SUBSET Sendable : PassThat(drained)
    BY <1>13 DEF SenderPass
  <2>2. \A s \in Heap : heap'[s] # Unused =>
          heap[s] # Unused /\ heap'[s].released = heap[s].released
    BY <2>1, PassedHeap
  <2>3. UNCHANGED <<streamOf, active>>
    BY <2>1 DEF PassThat
  <2>4. QED
    BY <2>2, <2>3 DEF OwnerInv
<1>14. ASSUME NEW id \in Handles, NEW sequence \in 0 .. MaxThemes, ReceiveAck(id, sequence)
       PROVE  OwnerInv'
  BY <1>2, <1>14 DEF ReceiveAck
<1>15. CASE UNCHANGED vars
  BY <1>2, <1>15 DEF vars
<1>16. QED
  BY <1>3, <1>4, <1>5, <1>7, <1>8, <1>9, <1>10, <1>11, <1>12, <1>13, <1>14, <1>15
     DEF Next, OpcodeStep, SenderStep, SessionOver

(* Where no instance of watchadd adds an f-signal, whose init forgets its  *)
(* stream, every slot of a graph comes back: a stream is released, or its  *)
(* instance still plays and will release it.                               *)
THEOREM NoStreamLeaks == SpectralAdders = {} => (Spec => []NoLeakedStream)
<1> SUFFICES ASSUME SpectralAdders = {} PROVE Spec => []NoLeakedStream
  OBVIOUS
<1>1. Init => OwnerInv
  BY DEF Init, OwnerInv
<1>2. RegistryInv /\ OwnerInv /\ [Next]_vars => OwnerInv'
  BY NextOwners
<1>3. RegistryInv /\ OwnerInv => NoLeakedStream
  <2> SUFFICES ASSUME RegistryInv, OwnerInv, NEW s \in Heap, heap[s] # Unused
               PROVE  /\ \E i \in Registered : s \in StreamsOf(graphs[i])
                      /\ \A i, j \in Registered :
                           s \in StreamsOf(graphs[i]) /\ s \in StreamsOf(graphs[j]) => i = j
                      /\ heap[s].released \/ \E p \in active : p \in Attachers /\ streamOf[p] = s
    BY DEF NoLeakedStream
  <2>1. heap[s].released \/ \E p \in active : p \in Attachers /\ streamOf[p] = s
    BY DEF OwnerInv
  <2>2. QED
    BY <2>1 DEF RegistryInv, StreamInv
<1>4. QED
  BY <1>1, <1>2, <1>3, RegistryInvariant, PTL DEF Spec

-----------------------------------------------------------------------------
(* Handles                                                                 *)

RequestsKept == \A i \in Registered : graphs'[i].destroyRequested = graphs[i].destroyRequested

(* Who will ask for the end of a graph of c.                               *)
Responsible(c) == c \in active \/ (op.step = "drop" /\ op.instance = c)

(* The graph of a handle is asked to go, and the handle forgotten.         *)
LEMMA DestroyKeepsHandles ==
  ASSUME RegistryInv, HandleInv, NEW cell \in Cells, NEW closeWindow \in BOOLEAN,
         RequestDestroy(handle[cell], closeWindow),
         handle' = [handle EXCEPT ![cell] = InvalidHandle], session' = session,
         \A c \in Creators : CellOf[c] # cell /\ Responsible(c) => Responsible(c)'
  PROVE  HandleInv'
<1>1. TypeOK /\ CountInv
  BY DEF RegistryInv
<1>2. /\ GraphsKept /\ Registered' = Registered
      /\ \A i \in Registered :
           /\ graphs'[i].id = graphs[i].id /\ graphs'[i].owner = graphs[i].owner
           /\ graphs'[i].destroyRequested <=>
                (graphs[i].destroyRequested \/ graphs[i].id = handle[cell])
  BY <1>1, DestroyKeepsGraphs DEF GraphsKept
<1>3. /\ handle'[cell] = InvalidHandle
      /\ \A c \in Cells \ {cell} : handle'[c] = handle[c]
  BY <1>1 DEF TypeOK
<1>4. \A i \in Registered : /\ graphs[i].owner \in Creators /\ CellOf[graphs[i].owner] \in Cells
                            /\ graphs[i].id # InvalidHandle
  BY <1>1, GraphsAreNotNothing, InstancesAre
     DEF Registered, Graphs, Handles, InvalidHandle
<1>5. ASSUME NEW c \in Cells, session' # "reset", handle'[c] # InvalidHandle
      PROVE  \E i \in Registered' :
               /\ graphs'[i].id = handle'[c] /\ ~graphs'[i].destroyRequested
               /\ CellOf[graphs'[i].owner] = c
  <2>1. c # cell /\ handle'[c] = handle[c]
    BY <1>3, <1>5
  <2>2. PICK i \in Registered : /\ graphs[i].id = handle[c] /\ ~graphs[i].destroyRequested
                                /\ CellOf[graphs[i].owner] = c
    BY <1>5, <2>1 DEF HandleInv
  <2>3. graphs[i].id # handle[cell]
    <3> SUFFICES ASSUME graphs[i].id = handle[cell] PROVE FALSE
      OBVIOUS
    <3>1. PICK j \in Registered : graphs[j].id = handle[cell] /\ CellOf[graphs[j].owner] = cell
      BY <1>4, <1>5 DEF HandleInv
    <3>2. i = j
      BY <1>1, <3>1 DEF CountInv
    <3>3. QED
      BY <2>1, <2>2, <3>1, <3>2
  <2>4. QED
    BY <1>2, <2>1, <2>2, <2>3
<1>6. ASSUME NEW i \in Registered', ~graphs'[i].destroyRequested
      PROVE  /\ handle'[CellOf[graphs'[i].owner]] = graphs'[i].id
             /\ \/ graphs'[i].owner \in active'
                \/ op'.step = "drop" /\ op'.instance = graphs'[i].owner
  <2>1. /\ i \in Registered /\ ~graphs[i].destroyRequested /\ graphs[i].id # handle[cell]
        /\ graphs'[i].id = graphs[i].id /\ graphs'[i].owner = graphs[i].owner
    BY <1>2, <1>6
  <2>2. /\ handle[CellOf[graphs[i].owner]] = graphs[i].id /\ Responsible(graphs[i].owner)
    BY <2>1 DEF HandleInv, Responsible
  <2>3. CellOf[graphs[i].owner] # cell
    BY <2>1, <2>2
  <2>4. handle'[CellOf[graphs[i].owner]] = graphs[i].id
    BY <1>3, <1>4, <2>1, <2>2, <2>3
  <2>5. PICK q \in Creators : q = graphs[i].owner
    BY <1>4, <2>1
  <2>6. Responsible(q)'
    BY <2>2, <2>3, <2>5
  <2>7. QED
    BY <2>1, <2>4, <2>5, <2>6 DEF Responsible
<1>7. QED
  BY <1>5, <1>6 DEF HandleInv

LEMMA KeptHandles ==
  ASSUME RegistryInv, HandleInv, GraphsKept, RequestsKept, UNCHANGED <<handle, session>>,
         \A c \in Creators : Responsible(c) => Responsible(c)'
  PROVE  HandleInv'
<1>1. /\ Registered' = Registered
      /\ \A i \in Registered : /\ graphs'[i].id = graphs[i].id
                               /\ graphs'[i].owner = graphs[i].owner
                               /\ graphs'[i].destroyRequested = graphs[i].destroyRequested
  BY DEF GraphsKept, RequestsKept
<1>2. \A i \in Registered : graphs[i].owner \in Creators
  BY GraphsAreNotNothing DEF RegistryInv, Registered, Graphs
<1>3. \A c \in Cells : session' # "reset" /\ handle'[c] # InvalidHandle =>
        \E i \in Registered' :
          /\ graphs'[i].id = handle'[c] /\ ~graphs'[i].destroyRequested
          /\ CellOf[graphs'[i].owner] = c
  BY <1>1 DEF HandleInv
<1>4. \A i \in Registered' : ~graphs'[i].destroyRequested =>
        /\ handle'[CellOf[graphs'[i].owner]] = graphs'[i].id
        /\ \/ graphs'[i].owner \in active'
           \/ op'.step = "drop" /\ op'.instance = graphs'[i].owner
  BY <1>1, <1>2 DEF HandleInv, Responsible
<1>5. QED
  BY <1>3, <1>4 DEF HandleInv

LEMMA UnchangedKeepsHandles ==
  ASSUME RegistryInv, HandleInv, UNCHANGED <<graphs, handle, session>>,
         \A c \in Creators : Responsible(c) => Responsible(c)'
  PROVE  HandleInv'
BY KeptHandles, UnchangedKeepsGraphs DEF RegistryInv, RequestsKept

LEMMA RegisterKeepsHandles ==
  ASSUME RegistryInv, HandleInv, RegisterGraph
  PROVE  HandleInv'
<1>1. TypeOK /\ CountInv /\ OpInv /\ op.step = "register" /\ graphCount < Capacity
  BY DEF RegistryInv, RegisterGraph
<1> DEFINE p == op.instance
<1>2. /\ p \in Creators /\ p \in active /\ handle[CellOf[p]] = InvalidHandle
      /\ CellOf[p] \in Cells /\ AllocatedId \in Handles /\ session # "reset"
  BY <1>1, RegisteredGraph, InstancesAre DEF OpInv, Idle
<1>3. PICK slot \in GraphSlots \ Registered :
        /\ Registered' = Registered \union {slot}
        /\ graphs'[slot] = NewGraph(p)
        /\ \A i \in Registered : i # slot /\ graphs'[i] = graphs[i]
  BY RegisteredGraph
<1>4. /\ NewGraph(p).id = AllocatedId /\ NewGraph(p).owner = p
      /\ ~NewGraph(p).destroyRequested
  BY <1>2, NewGraphIsEmpty
<1>5. /\ handle'[CellOf[p]] = AllocatedId /\ active' = active
      /\ \A c \in Cells \ {CellOf[p]} : handle'[c] = handle[c]
  BY <1>1, <1>2 DEF RegisterGraph, TypeOK
<1>6. \A i \in Registered : graphs[i].owner \in Creators /\ CellOf[graphs[i].owner] \in Cells
                            /\ graphs[i].id # InvalidHandle
  BY <1>1, GraphsAreNotNothing, InstancesAre
     DEF Registered, Graphs, Handles, InvalidHandle
<1>7. \A c \in Cells : session' # "reset" /\ handle'[c] # InvalidHandle =>
        \E i \in Registered' :
          /\ graphs'[i].id = handle'[c] /\ ~graphs'[i].destroyRequested
          /\ CellOf[graphs'[i].owner] = c
  <2> SUFFICES ASSUME NEW c \in Cells, handle'[c] # InvalidHandle
               PROVE  \E i \in Registered' :
                        /\ graphs'[i].id = handle'[c] /\ ~graphs'[i].destroyRequested
                        /\ CellOf[graphs'[i].owner] = c
    OBVIOUS
  <2>1. CASE c = CellOf[p]
    BY <1>3, <1>4, <1>5, <2>1
  <2>2. CASE c # CellOf[p]
    BY <1>2, <1>3, <1>5, <2>2 DEF HandleInv
  <2>3. QED
    BY <2>1, <2>2
<1>8. ASSUME NEW i \in Registered', ~graphs'[i].destroyRequested
      PROVE  /\ handle'[CellOf[graphs'[i].owner]] = graphs'[i].id
             /\ graphs'[i].owner \in active'
  <2>1. CASE i = slot
    BY <1>2, <1>3, <1>4, <1>5, <2>1
  <2>2. CASE i # slot
    <3>1. i \in Registered /\ graphs'[i] = graphs[i]
      BY <1>3, <2>2
    <3>2. /\ handle[CellOf[graphs[i].owner]] = graphs[i].id /\ graphs[i].owner \in active
      BY <1>1, <1>8, <3>1 DEF HandleInv
    <3>3. CellOf[graphs[i].owner] # CellOf[p]
      BY <1>2, <1>6, <3>1, <3>2
    <3>4. QED
      BY <1>5, <1>6, <3>1, <3>2, <3>3
  <2>3. QED
    BY <2>1, <2>2
<1>9. QED
  BY <1>7, <1>8 DEF HandleInv

LEMMA PassKeepsHandles ==
  ASSUME RegistryInv, HandleInv, NEW drained \in SUBSET Sendable, PassThat(drained)
  PROVE  HandleInv'
<1>1. /\ Registered' \subseteq Registered
      /\ \A i \in Registered \ Registered' : graphs[i].destroyRequested
      /\ \A i \in Registered' :
           /\ graphs'[i].id = graphs[i].id /\ graphs'[i].owner = graphs[i].owner
           /\ graphs'[i].destroyRequested = graphs[i].destroyRequested
  BY PassedGraphs
<1>2. UNCHANGED <<handle, session, active, op>>
  BY DEF PassThat
<1>3. QED
  BY <1>1, <1>2 DEF HandleInv

LEMMA NextHandles == RegistryInv /\ HandleInv /\ [Next]_vars => HandleInv'
<1> SUFFICES ASSUME RegistryInv, HandleInv, [Next]_vars PROVE HandleInv'
  OBVIOUS
<1>1. TypeOK /\ CountInv /\ OpInv
  BY DEF RegistryInv
<1>2. ASSUME NEW c \in Scopes, RejectArguments(c)
      PROVE  HandleInv'
  BY <1>2, UnchangedKeepsHandles DEF RejectArguments, Starts, Responsible
<1>3. ASSUME NEW c \in Scopes, CreateInit(c)
      PROVE  HandleInv'
  <2>1. \A q \in Creators : Responsible(q) => Responsible(q)'
    BY <1>3 DEF CreateInit, Starts, Responsible, Idle
  <2>2. CellOf[c] \in Cells
    BY InstancesAre
  <2>3. QED
    BY <1>3, <2>1, <2>2, DestroyKeepsHandles DEF CreateInit
<1>4. ASSUME NEW c \in Scopes, CreateDeinit(c)
      PROVE  HandleInv'
  <2>1. \A q \in Creators : CellOf[q] # CellOf[c] /\ Responsible(q) => Responsible(q)'
    BY <1>4 DEF CreateDeinit, Ends, Responsible, Idle
  <2>2. CellOf[c] \in Cells
    BY InstancesAre
  <2>3. QED
    BY <1>4, <2>1, <2>2, DestroyKeepsHandles DEF CreateDeinit
<1>5. ASSUME NEW d \in Displays, TableInit(d) \/ MeterInit(d) \/ DisplayDeinit(d)
      PROVE  HandleInv'
  <2>1. UNCHANGED <<graphs, handle, session>>
    BY <1>5 DEF TableInit, MeterInit, DisplayDeinit
  <2>2. \A q \in Creators : Responsible(q) => Responsible(q)'
    BY <1>5 DEF TableInit, MeterInit, DisplayDeinit, Starts, Ends, Responsible, Idle, GoTo
  <2>3. QED
    BY <2>1, <2>2, UnchangedKeepsHandles
<1>6. ASSUME NEW a \in Adders, NEW id, AddInit(a, id) \/ AddSpectralInit(a, id) \/ AddDeinit(a)
      PROVE  HandleInv'
  <2>1. UNCHANGED <<graphs, handle, session>> /\ a \notin Creators
    BY <1>6, RegistryAssumption DEF AddInit, AddSpectralInit, AddDeinit
  <2>2. \A q \in Creators : Responsible(q) => Responsible(q)'
    BY <1>6, <2>1 DEF AddInit, AddSpectralInit, AddDeinit, Starts, Ends, Responsible, Idle, GoTo
  <2>3. QED
    BY <2>1, <2>2, UnchangedKeepsHandles
<1>7. ASSUME NEW p \in Attachers, Perf(p) PROVE HandleInv'
  BY <1>7, UnchangedKeepsHandles DEF Perf, Responsible
<1>8. ASSUME NEW id \in Handles, ChangeTheme(id) PROVE HandleInv'
  <2>1. GraphsKept
    BY <1>8, ChangeThemeKeepsGraphs
  <2>2. RequestsKept
    BY <1>1, <1>8, GraphsAreNotNothing DEF ChangeTheme, RequestsKept, Registered, Find, TypeOK, Graphs
  <2>3. QED
    BY <1>8, <2>1, <2>2, KeptHandles DEF ChangeTheme, Responsible
<1>9. CASE ReplaceGraph
  <2>1. \A q \in Creators : Responsible(q) => Responsible(q)'
    BY <1>9 DEF ReplaceGraph, Responsible
  <2>2. CellOf[op.instance] \in Cells
    BY <1>1, <1>9, InstancesAre DEF ReplaceGraph, OpInv
  <2>3. QED
    BY <1>9, <2>1, <2>2, DestroyKeepsHandles DEF ReplaceGraph
<1>10. CASE RegisterGraph
  BY <1>10, RegisterKeepsHandles
<1>11. CASE RegistryFull \/ AttachFails \/ FillTable
  BY <1>11, UnchangedKeepsHandles DEF RegistryFull, AttachFails, FillTable, Responsible
<1>12. CASE CreateFails
  <2>1. session # "reset" /\ session' # "reset" /\ UNCHANGED <<graphs, handle, active>>
        /\ op.step # "drop"
    BY <1>1, <1>12 DEF CreateFails, OpInv, Idle
  <2>2. Registered' = Registered
    BY <2>1 DEF Registered
  <2>3. QED
    BY <2>1, <2>2 DEF HandleInv
<1>13. CASE CreateStream
  <2>1. PICK i \in Registered, s \in Heap :
          /\ \E slot \in StreamSlots :
               graphs[i].streams[slot] = NoStream /\ graphs'[i] = Extended(graphs[i], slot, s)
          /\ \A j \in GraphSlots \ {i} : graphs'[j] = graphs[j]
          /\ Registered' = Registered
          /\ graphs[i] \in Graphs /\ SlotsInv(graphs[i]) /\ s \notin StreamsOf(graphs[i])
    BY <1>13, CreatedStream
  <2>2. /\ graphs'[i].id = graphs[i].id /\ graphs'[i].owner = graphs[i].owner
        /\ graphs'[i].destroyRequested = graphs[i].destroyRequested
    BY <2>1, ExtendedGraph
  <2>3. \A j \in Registered :
          /\ graphs'[j].id = graphs[j].id /\ graphs'[j].owner = graphs[j].owner
          /\ graphs'[j].destroyRequested = graphs[j].destroyRequested
    BY <2>1, <2>2 DEF Registered
  <2>4. UNCHANGED <<handle, active, session>> /\ op.step # "drop"
    BY <1>13 DEF CreateStream
  <2>5. QED
    BY <2>1, <2>3, <2>4 DEF HandleInv
<1>14. CASE DropGraph
  <2>1. \A q \in Creators : CellOf[q] # CellOf[op.instance] /\ Responsible(q) => Responsible(q)'
    BY <1>14 DEF DropGraph, Responsible
  <2>2. CellOf[op.instance] \in Cells
    BY <1>1, <1>14, InstancesAre DEF DropGraph, OpInv
  <2>3. QED
    BY <1>14, <2>1, <2>2, DestroyKeepsHandles DEF DropGraph
<1>15. CASE Reset
  BY <1>15 DEF Reset, HandleInv, Registered
<1>16. CASE SenderPass
  BY <1>16, PassKeepsHandles DEF SenderPass
<1>17. ASSUME NEW id \in Handles, NEW sequence \in 0 .. MaxThemes, ReceiveAck(id, sequence)
       PROVE  HandleInv'
  <2>1. GraphsKept
    BY <1>17, ReceiveAckKeepsGraphs
  <2>2. RequestsKept
    BY <1>1, <1>17, GraphsAreNotNothing DEF ReceiveAck, RequestsKept, Registered, Find, TypeOK, Graphs
  <2>3. QED
    BY <1>17, <2>1, <2>2, KeptHandles DEF ReceiveAck, Responsible
<1>18. CASE UNCHANGED vars
  BY <1>18, UnchangedKeepsHandles DEF vars, Responsible
<1>19. QED
  BY <1>2, <1>3, <1>4, <1>5, <1>6, <1>7, <1>8, <1>9, <1>10, <1>11, <1>12, <1>13, <1>14, <1>15,
     <1>16, <1>17, <1>18
     DEF Next, OpcodeStep, SenderStep, SessionOver

LEMMA HandlesInvariant == Spec => [](RegistryInv /\ HandleInv)
<1>1. Init => HandleInv
  BY DEF Init, HandleInv, Registered
<1>2. QED
  BY <1>1, InitRegistry, NextRegistry, NextHandles, PTL DEF Spec

(* A handle held by a playing creator always names a graph that is not     *)
(* ending: no other creator of the same variable ends it unnoticed.        *)
THEOREM HandlesStayUsable == Spec => []HandleUsable
<1>1. RegistryInv /\ HandleInv => HandleUsable
  <2> SUFFICES ASSUME RegistryInv, HandleInv, NEW c \in active \intersect Creators,
                      handle[CellOf[c]] # InvalidHandle
               PROVE  \E i \in Find(handle[CellOf[c]]) : ~graphs[i].destroyRequested
    BY DEF HandleUsable
  <2>1. CellOf[c] \in Cells /\ session # "reset"
    BY InstancesAre DEF RegistryInv, OpInv
  <2>2. QED
    BY <2>1 DEF HandleInv, Find
<1>2. QED
  BY <1>1, HandlesInvariant, PTL

(* A graph nobody has asked to destroy always has somebody who will ask.   *)
THEOREM NoGraphIsOrphaned == Spec => []NoOrphanGraph
<1>1. HandleInv => NoOrphanGraph
  BY DEF HandleInv, NoOrphanGraph
<1>2. QED
  BY <1>1, HandlesInvariant, PTL

-----------------------------------------------------------------------------
(* Configurations and their answers                                        *)

LEMMA KeptAcks ==
  ASSUME AckIsCurrent, sentConfigs \subseteq sentConfigs',
         \A i \in Registered' : graphs'[i].isConfigAcked =>
           /\ i \in Registered /\ graphs[i].isConfigAcked
           /\ graphs'[i].id = graphs[i].id /\ graphs'[i].sequence = graphs[i].sequence
  PROVE  AckIsCurrent'
BY DEF AckIsCurrent

LEMMA UnchangedKeepsAcks ==
  ASSUME AckIsCurrent, UNCHANGED <<graphs, sentConfigs>>
  PROVE  AckIsCurrent'
BY DEF AckIsCurrent, Registered

LEMMA DestroyKeepsAcks ==
  ASSUME TypeOK, AckIsCurrent, NEW id, NEW closeWindow \in BOOLEAN,
         RequestDestroy(id, closeWindow), UNCHANGED sentConfigs
  PROVE  AckIsCurrent'
<1>1. /\ GraphsKept
      /\ \A i \in Registered : /\ graphs'[i].sequence = graphs[i].sequence
                               /\ graphs'[i].isConfigAcked = graphs[i].isConfigAcked
  BY DestroyKeepsGraphs
<1>2. QED
  BY <1>1, KeptAcks DEF GraphsKept

LEMMA PassKeepsAcks ==
  ASSUME RegistryInv, AckIsCurrent, NEW drained \in SUBSET Sendable, PassThat(drained)
  PROVE  AckIsCurrent'
<1> SUFFICES ASSUME NEW i \in Registered', graphs'[i].isConfigAcked
             PROVE  <<graphs'[i].id, graphs'[i].sequence>> \in sentConfigs'
  BY DEF AckIsCurrent
<1>1. /\ i \in Registered /\ AfterPass(graphs[i], drained) # NoGraph
      /\ graphs'[i].id = graphs[i].id /\ graphs'[i].sequence = graphs[i].sequence
      /\ graphs[i].isConfigAcked
  BY PassedGraphs
<1> DEFINE c == <<graphs[i].id, graphs[i].sequence>>
<1>2. c \in sentConfigs /\ c[1] = graphs[i].id /\ i \in Find(c[1])
  BY <1>1 DEF AckIsCurrent, Find
<1>3. c \in sentConfigs'
  BY <1>1, <1>2 DEF PassThat
<1>4. QED
  BY <1>1, <1>3

LEMMA NextAcks == RegistryInv /\ AckIsCurrent /\ [Next]_vars => AckIsCurrent'
<1> SUFFICES ASSUME RegistryInv, AckIsCurrent, [Next]_vars PROVE AckIsCurrent'
  OBVIOUS
<1>1. TypeOK
  BY DEF RegistryInv
<1>2. ASSUME NEW c \in Scopes,
             RejectArguments(c) \/ CreateInit(c) \/ CreateDeinit(c)
      PROVE  AckIsCurrent'
  <2>1. CASE RejectArguments(c)
    BY <2>1, UnchangedKeepsAcks DEF RejectArguments
  <2>2. CASE CreateInit(c)
    BY <1>1, <2>2, DestroyKeepsAcks DEF CreateInit
  <2>3. CASE CreateDeinit(c)
    BY <1>1, <2>3, DestroyKeepsAcks DEF CreateDeinit
  <2>4. QED
    BY <1>2, <2>1, <2>2, <2>3
<1>3. ASSUME NEW d \in Displays, TableInit(d) \/ MeterInit(d) \/ DisplayDeinit(d)
      PROVE  AckIsCurrent'
  BY <1>3, UnchangedKeepsAcks DEF TableInit, MeterInit, DisplayDeinit
<1>4. ASSUME NEW a \in Adders, NEW id, AddInit(a, id) \/ AddSpectralInit(a, id) \/ AddDeinit(a)
      PROVE  AckIsCurrent'
  BY <1>4, UnchangedKeepsAcks DEF AddInit, AddSpectralInit, AddDeinit
<1>5. ASSUME NEW p \in Attachers, Perf(p) PROVE AckIsCurrent'
  BY <1>5, UnchangedKeepsAcks DEF Perf
<1>6. ASSUME NEW id \in Handles, ChangeTheme(id) PROVE AckIsCurrent'
  <2>1. GraphsKept
    BY <1>6, ChangeThemeKeepsGraphs
  <2>2. \A i \in Registered : graphs'[i].isConfigAcked =>
          graphs[i].isConfigAcked /\ graphs'[i].sequence = graphs[i].sequence
    BY <1>1, <1>6, GraphsAreNotNothing DEF ChangeTheme, Registered, Find, TypeOK, Graphs
  <2>3. QED
    BY <1>6, <2>1, <2>2, KeptAcks DEF ChangeTheme, GraphsKept
<1>7. CASE ReplaceGraph \/ DropGraph
  BY <1>1, <1>7, DestroyKeepsAcks DEF ReplaceGraph, DropGraph
<1>8. CASE RegisterGraph
  <2>1. PICK slot \in GraphSlots \ Registered :
          /\ Registered' = Registered \union {slot}
          /\ graphs'[slot] = NewGraph(op.instance)
          /\ \A i \in Registered : i # slot /\ graphs'[i] = graphs[i]
    BY <1>8, RegisteredGraph
  <2>2. ~NewGraph(op.instance).isConfigAcked
    BY <1>8, RegisteredGraph, NewGraphIsEmpty
  <2>3. QED
    BY <1>8, <2>1, <2>2, KeptAcks DEF RegisterGraph
<1>9. CASE RegistryFull \/ CreateFails \/ AttachFails \/ FillTable
  BY <1>9, UnchangedKeepsAcks DEF RegistryFull, CreateFails, AttachFails, FillTable
<1>10. CASE CreateStream
  <2>1. PICK i \in Registered, s \in Heap :
          /\ \E slot \in StreamSlots :
               graphs[i].streams[slot] = NoStream /\ graphs'[i] = Extended(graphs[i], slot, s)
          /\ \A j \in GraphSlots \ {i} : graphs'[j] = graphs[j]
          /\ Registered' = Registered
          /\ graphs[i] \in Graphs /\ SlotsInv(graphs[i]) /\ s \notin StreamsOf(graphs[i])
    BY <1>10, CreatedStream
  <2>2. /\ graphs'[i].id = graphs[i].id /\ graphs'[i].sequence = graphs[i].sequence
        /\ graphs'[i].isConfigAcked = graphs[i].isConfigAcked
    BY <2>1, ExtendedGraph
  <2>3. \A j \in Registered :
          /\ graphs'[j].id = graphs[j].id /\ graphs'[j].sequence = graphs[j].sequence
          /\ graphs'[j].isConfigAcked = graphs[j].isConfigAcked
    BY <2>1, <2>2 DEF Registered
  <2>4. QED
    BY <1>10, <2>1, <2>3, KeptAcks DEF CreateStream
<1>11. CASE Reset
  BY <1>11 DEF Reset, AckIsCurrent, Registered
<1>12. CASE SenderPass
  BY <1>12, PassKeepsAcks DEF SenderPass
<1>13. ASSUME NEW id \in Handles, NEW sequence \in 0 .. MaxThemes, ReceiveAck(id, sequence)
       PROVE  AckIsCurrent'
  <2>1. GraphsKept
    BY <1>13, ReceiveAckKeepsGraphs
  <2>2. \A i \in Registered :
          /\ graphs'[i].sequence = graphs[i].sequence
          /\ \/ graphs'[i].isConfigAcked = graphs[i].isConfigAcked
             \/ graphs[i].id = id /\ graphs[i].sequence = sequence
    BY <1>1, <1>13, GraphsAreNotNothing
       DEF ReceiveAck, Registered, Find, TypeOK, Graphs
  <2>3. <<id, sequence>> \in sentConfigs /\ sentConfigs' = sentConfigs
    BY <1>13 DEF ReceiveAck
  <2>4. QED
    BY <2>1, <2>2, <2>3 DEF AckIsCurrent, GraphsKept
<1>14. CASE UNCHANGED vars
  BY <1>14, UnchangedKeepsAcks DEF vars
<1>15. QED
  BY <1>2, <1>3, <1>4, <1>5, <1>6, <1>7, <1>8, <1>9, <1>10, <1>11, <1>12, <1>13, <1>14
     DEF Next, OpcodeStep, SenderStep, SessionOver

(* Streams are never drained towards a viewer that was not sent the        *)
(* configuration the graph has now, theme included.                        *)
THEOREM AcksStayCurrent == Spec => []AckIsCurrent
<1>1. Init => AckIsCurrent
  BY DEF Init, AckIsCurrent, Registered
<1>2. QED
  BY <1>1, NextAcks, RegistryInvariant, PTL DEF Spec

-----------------------------------------------------------------------------
(* The life of a graph                                                     *)

(* A window is asked to close with its graph, and only configurations of   *)
(* graphs in the registry are remembered.                                  *)
LifeInv ==
  /\ \A i \in Registered : graphs[i].closeRequested => graphs[i].destroyRequested
  /\ \A c \in sentConfigs : \E i \in Registered : graphs[i].id = c[1]

Themed(g) == [g EXCEPT !.sequence = @ + 1, !.isConfigAcked = FALSE]
Acked(g) == [g EXCEPT !.isConfigAcked = TRUE]
Ended(g, closeWindow) == [g EXCEPT !.destroyRequested = TRUE, !.closeRequested = closeWindow]

Lives ==
  [sequence : Nat, isConfigAcked : BOOLEAN, destroyRequested : BOOLEAN,
   closeRequested : BOOLEAN, closeSent : BOOLEAN]

(* Two lives are the same when their fields are.                           *)
LEMMA SameLives ==
  ASSUME NEW g \in Lives, NEW h \in Lives,
         g.sequence = h.sequence, g.isConfigAcked = h.isConfigAcked,
         g.destroyRequested = h.destroyRequested,
         g.closeRequested = h.closeRequested, g.closeSent = h.closeSent
  PROVE  g = h
BY DEF Lives

(* A graph of the registry has a life, with the fields of the graph.       *)
LEMMA GraphHasLife ==
  ASSUME NEW g \in Graphs
  PROVE  /\ LifeOf(g) \in Lives
         /\ LifeOf(g).sequence = g.sequence
         /\ LifeOf(g).isConfigAcked = g.isConfigAcked
         /\ LifeOf(g).destroyRequested = g.destroyRequested
         /\ LifeOf(g).closeRequested = g.closeRequested
         /\ LifeOf(g).closeSent = g.closeSent
BY RegistryAssumption DEF LifeOf, Lives, Graphs

(* What a theme and an answer leave of a graph's life, field by field.     *)
LEMMA LivesByField ==
  ASSUME NEW g \in Lives
  PROVE  /\ /\ Themed(g) \in Lives
            /\ Themed(g).sequence = g.sequence + 1
            /\ Themed(g).isConfigAcked = FALSE
            /\ Themed(g).destroyRequested = g.destroyRequested
            /\ Themed(g).closeRequested = g.closeRequested
            /\ Themed(g).closeSent = g.closeSent
         /\ /\ Acked(g) \in Lives
            /\ Acked(g).sequence = g.sequence
            /\ Acked(g).isConfigAcked = TRUE
            /\ Acked(g).destroyRequested = g.destroyRequested
            /\ Acked(g).closeRequested = g.closeRequested
            /\ Acked(g).closeSent = g.closeSent
<1>1. g.sequence + 1 \in Nat
  BY DEF Lives
<1>2. Themed(g) = [g EXCEPT !.sequence = g.sequence + 1, !.isConfigAcked = FALSE]
  BY DEF Themed
<1>3. /\ Themed(g) \in Lives
      /\ Themed(g).sequence = g.sequence + 1
      /\ Themed(g).isConfigAcked = FALSE
      /\ Themed(g).destroyRequested = g.destroyRequested
      /\ Themed(g).closeRequested = g.closeRequested
      /\ Themed(g).closeSent = g.closeSent
  BY <1>1, <1>2 DEF Lives
<1>4. QED
  BY <1>3 DEF Lives, Acked

(* A graph that changes by a theme, an answer or its end changes its life   *)
(* like this.                                                              *)
LEMMA LivesOfGraphs ==
  ASSUME NEW g \in Graphs, NEW h \in Graphs, NEW closeWindow \in BOOLEAN,
         h.closeSent = g.closeSent
  PROVE  /\ (/\ h.sequence = g.sequence + 1 /\ h.isConfigAcked = FALSE
             /\ h.destroyRequested = g.destroyRequested
             /\ h.closeRequested = g.closeRequested)
            => LifeOf(h) = Themed(LifeOf(g))
         /\ (/\ h.sequence = g.sequence /\ h.isConfigAcked = TRUE
             /\ h.destroyRequested = g.destroyRequested
             /\ h.closeRequested = g.closeRequested)
            => LifeOf(h) = Acked(LifeOf(g))
         /\ (/\ h.sequence = g.sequence /\ h.isConfigAcked = g.isConfigAcked
             /\ h.destroyRequested = TRUE /\ h.closeRequested = closeWindow)
            => LifeOf(h) = Ended(LifeOf(g), closeWindow)
<1> DEFINE a == LifeOf(g)
           b == LifeOf(h)
<1>1. /\ a \in Lives /\ a.sequence = g.sequence /\ a.isConfigAcked = g.isConfigAcked
      /\ a.destroyRequested = g.destroyRequested
      /\ a.closeRequested = g.closeRequested /\ a.closeSent = g.closeSent
  BY GraphHasLife
<1>2. /\ b \in Lives /\ b.sequence = h.sequence /\ b.isConfigAcked = h.isConfigAcked
      /\ b.destroyRequested = h.destroyRequested
      /\ b.closeRequested = h.closeRequested /\ b.closeSent = h.closeSent
  BY GraphHasLife
<1> HIDE DEF a, b
<1>3. ASSUME h.sequence = g.sequence + 1, h.isConfigAcked = FALSE,
             h.destroyRequested = g.destroyRequested,
             h.closeRequested = g.closeRequested
      PROVE  b = Themed(a)
  <2>1. /\ Themed(a) \in Lives /\ Themed(a).sequence = a.sequence + 1
        /\ Themed(a).isConfigAcked = FALSE
        /\ Themed(a).destroyRequested = a.destroyRequested
        /\ Themed(a).closeRequested = a.closeRequested /\ Themed(a).closeSent = a.closeSent
    BY <1>1, LivesByField
  <2>2. QED
    BY <1>1, <1>2, <1>3, <2>1, SameLives
<1>4. ASSUME h.sequence = g.sequence, h.isConfigAcked = TRUE,
             h.destroyRequested = g.destroyRequested,
             h.closeRequested = g.closeRequested
      PROVE  b = Acked(a)
  <2>1. /\ Acked(a) \in Lives /\ Acked(a).sequence = a.sequence
        /\ Acked(a).isConfigAcked = TRUE
        /\ Acked(a).destroyRequested = a.destroyRequested
        /\ Acked(a).closeRequested = a.closeRequested /\ Acked(a).closeSent = a.closeSent
    BY <1>1, LivesByField
  <2>2. QED
    BY <1>1, <1>2, <1>4, <2>1, SameLives
<1>5. ASSUME h.sequence = g.sequence, h.isConfigAcked = g.isConfigAcked,
             h.destroyRequested = TRUE, h.closeRequested = closeWindow
      PROVE  b = Ended(a, closeWindow)
  <2> DEFINE e == Ended(a, closeWindow)
  <2>1. /\ e \in Lives /\ e.sequence = a.sequence /\ e.isConfigAcked = a.isConfigAcked
        /\ e.destroyRequested = TRUE
        /\ e.closeRequested = closeWindow /\ e.closeSent = a.closeSent
    BY <1>1 DEF Lives, Ended
  <2> HIDE DEF e
  <2>2. b = e
    BY <1>1, <1>2, <1>5, <2>1, SameLives
  <2>3. QED
    BY <2>2 DEF e
<1>6. QED
  BY <1>3, <1>4, <1>5 DEF a, b

Told(g) == [g EXCEPT !.closeSent = TRUE]

(* What may become of a graph that stays, if nothing is announced.         *)
GraphSteps(i) ==
  LET g == LifeOf(graphs[i])
      h == LifeOf(graphs'[i])
  IN \/ h = g
     \/ session # "reset" /\ h = Themed(g)
     \/ session # "reset" /\ g.sequence \in PendingOf(i) /\ h = Acked(g)
     \/ /\ session # "reset" /\ ~g.destroyRequested
        /\ \E closeWindow \in BOOLEAN : h = Ended(g, closeWindow)
     \/ session # "reset" /\ g.isConfigAcked /\ g.closeRequested /\ h = Told(g)

(* A graph that stays.                                                     *)
LEMMA GraphLives ==
  ASSUME NEW i \in GraphSlots, i \in Registered, i \in Registered',
         (session' = "reset") <=> (session = "reset"),
         PendingOf(i)' \subseteq PendingOf(i), GraphSteps(i)
  PROVE  Life!Step(i)
<1> DEFINE g == LifeOf(graphs[i])
           h == LifeOf(graphs'[i])
<1>1. graphs[i] # NoGraph /\ graphs'[i] # NoGraph
  BY DEF Registered
<1>2. CASE h = g
  BY <1>1, <1>2 DEF Life!Step, Life!Stay, Life!NothingAnnounced
<1>3. CASE session # "reset" /\ h = Themed(g)
  <2>1. Life!ChangeTheme(i)
    BY <1>1, <1>3 DEF Life!ChangeTheme, Life!Becomes, Life!NothingAnnounced, Themed
  <2>2. QED
    BY <1>3, <2>1 DEF Life!Step, Life!GraphStep
<1>4. CASE session # "reset" /\ g.sequence \in PendingOf(i) /\ h = Acked(g)
  <2>1. Life!Answer(i)
    BY <1>1, <1>4 DEF Life!Answer, Life!Becomes, Life!NothingAnnounced, Acked
  <2>2. QED
    BY <1>4, <2>1 DEF Life!Step, Life!GraphStep
<1>5. ASSUME session # "reset", ~g.destroyRequested, NEW closeWindow \in BOOLEAN,
             h = Ended(g, closeWindow)
      PROVE  Life!Step(i)
  <2>1. Life!RequestDestroy(i)
    BY <1>1, <1>5 DEF Life!RequestDestroy, Life!Becomes, Life!NothingAnnounced, Ended
  <2>2. QED
    BY <1>5, <2>1 DEF Life!Step, Life!GraphStep
<1>6. CASE session # "reset" /\ g.isConfigAcked /\ g.closeRequested /\ h = Told(g)
  <2>1. Life!SendClose(i)
    BY <1>1, <1>6 DEF Life!SendClose, Life!Becomes, Life!NothingAnnounced, Told
  <2>2. QED
    BY <1>6, <2>1 DEF Life!Step, Life!GraphStep
<1>7. QED
  BY <1>2, <1>3, <1>4, <1>5, <1>6 DEF GraphSteps

(* A free place stays free.                                                *)
LEMMA NothingLives ==
  ASSUME NEW i \in GraphSlots, i \notin Registered, i \notin Registered',
         (session' = "reset") <=> (session = "reset")
  PROVE  Life!Step(i)
<1>1. graphs[i] = NoGraph /\ graphs'[i] = NoGraph
  BY DEF Registered
<1>2. PendingOf(i)' = {}
  BY <1>1 DEF PendingOf
<1>3. QED
  BY <1>1, <1>2 DEF Life!Step, Life!Stay, Life!NothingAnnounced

(* Steps that leave the identifiers and what was announced alone           *)
LEMMA KeptLives ==
  ASSUME GraphsKept, UNCHANGED sentConfigs, (session' = "reset") <=> (session = "reset"),
         \A i \in Registered : GraphSteps(i)
  PROVE  Life!Next
<1> SUFFICES ASSUME NEW i \in GraphSlots PROVE Life!Step(i)
  BY DEF Life!Next
<1>1. CASE i \in Registered
  <2>1. /\ i \in Registered' /\ graphs'[i].id = graphs[i].id
        /\ graphs[i] # NoGraph /\ graphs'[i] # NoGraph
    BY <1>1 DEF GraphsKept, Registered
  <2>2. PendingOf(i)' = PendingOf(i)
    BY <2>1 DEF PendingOf
  <2>3. QED
    BY <1>1, <2>1, <2>2, GraphLives
<1>2. CASE i \notin Registered
  BY <1>2, NothingLives DEF GraphsKept
<1>3. QED
  BY <1>1, <1>2

(* They keep what is known of a graph's end.                               *)
LEMMA KeptLifeInv ==
  ASSUME LifeInv, GraphsKept, UNCHANGED sentConfigs,
         \A i \in Registered : graphs'[i].closeRequested => graphs'[i].destroyRequested
  PROVE  LifeInv'
BY DEF LifeInv, GraphsKept

(* Steps of an opcode that touch no graph                                  *)
LEMMA UnchangedLives ==
  ASSUME RegistryInv, LifeInv, UNCHANGED <<graphs, sentConfigs>>,
         (session' = "reset") <=> (session = "reset")
  PROVE  LifeInv' /\ Life!Next
<1>1. GraphsKept
  BY UnchangedKeepsGraphs DEF RegistryInv
<1>2. \A i \in Registered : GraphSteps(i)
  BY DEF GraphSteps, LifeOf
<1>3. QED
  BY <1>1, <1>2, KeptLives, KeptLifeInv DEF LifeInv

(* request_graph_destroy, for the graph of a handle                        *)
LEMMA DestroyLives ==
  ASSUME RegistryInv, HandleInv, LifeInv, NEW cell \in Cells, NEW closeWindow \in BOOLEAN,
         RequestDestroy(handle[cell], closeWindow), UNCHANGED <<session, sentConfigs>>
  PROVE  LifeInv' /\ Life!Next
<1>1. TypeOK /\ CountInv /\ OpInv
  BY DEF RegistryInv
<1>2. GraphsKept
  BY <1>1, DestroyKeepsGraphs
<1>3. ASSUME NEW i \in Registered
      PROVE  /\ GraphSteps(i)
             /\ graphs'[i].closeRequested => graphs'[i].destroyRequested
  <2>1. i \in GraphSlots /\ graphs[i] \in Graphs
    BY <1>1, GraphsAreNotNothing DEF Registered
  <2>2. CASE graphs[i].id = handle[cell]
    <3>1. graphs'[i] = [graphs[i] EXCEPT !.destroyRequested = TRUE,
                                         !.closeRequested = @ \/ closeWindow]
      BY <2>1, <2>2 DEF RequestDestroy, Find
    <3>2. session # "reset" /\ handle[cell] # InvalidHandle
      BY <1>1, <2>1, <2>2 DEF OpInv, Graphs, Handles, InvalidHandle
    <3>3. ~graphs[i].destroyRequested
      <4>1. PICK j \in Registered : graphs[j].id = handle[cell] /\ ~graphs[j].destroyRequested
        BY <3>2 DEF HandleInv
      <4>2. QED
        BY <1>1, <2>2, <4>1 DEF CountInv
    <3>4. ~graphs[i].closeRequested
      BY <3>3 DEF LifeInv
    <3>5. LifeOf(graphs'[i]) = Ended(LifeOf(graphs[i]), closeWindow)
      <4>1. /\ graphs'[i].sequence = graphs[i].sequence
            /\ graphs'[i].isConfigAcked = graphs[i].isConfigAcked
            /\ graphs'[i].destroyRequested = TRUE
            /\ graphs'[i].closeRequested = (graphs[i].closeRequested \/ closeWindow)
            /\ graphs'[i].closeSent = graphs[i].closeSent
        BY <2>1, <3>1 DEF Graphs
      <4>2. graphs[i].closeRequested = FALSE
        BY <2>1, <3>4 DEF Graphs
      <4>3. (graphs[i].closeRequested \/ closeWindow) = closeWindow
        BY <4>2
      <4>4. graphs'[i].closeRequested = closeWindow
        BY <4>1, <4>3, Zenon
      <4>5. graphs'[i] \in Graphs
        BY <1>2 DEF GraphsKept, GraphArrays, Registered
      <4>6. QED
        BY <2>1, <4>1, <4>4, <4>5, LivesOfGraphs
    <3>6. ~LifeOf(graphs[i]).destroyRequested
      BY <3>3 DEF LifeOf
    <3>7. graphs'[i].destroyRequested
      BY <2>1, <3>1 DEF Graphs
    <3>8. QED
      BY <3>2, <3>5, <3>6, <3>7 DEF GraphSteps
  <2>3. CASE graphs[i].id # handle[cell]
    <3>1. graphs'[i] = graphs[i]
      BY <2>1, <2>3 DEF RequestDestroy, Find
    <3>2. QED
      BY <3>1 DEF GraphSteps, LifeOf, LifeInv
  <2>4. QED
    BY <2>2, <2>3
<1>4. QED
  BY <1>2, <1>3, KeptLives, KeptLifeInv

(* watch_theme                                                             *)
LEMMA ThemeLives ==
  ASSUME RegistryInv, LifeInv, NEW id \in Handles, ChangeTheme(id)
  PROVE  LifeInv' /\ Life!Next
<1>1. TypeOK /\ OpInv /\ GraphsKept /\ UNCHANGED <<session, sentConfigs>>
  BY ChangeThemeKeepsGraphs DEF RegistryInv, ChangeTheme
<1>2. PICK i \in Find(id) :
        graphs' = [graphs EXCEPT ![i].sequence = @ + 1, ![i].isConfigAcked = FALSE]
  BY DEF ChangeTheme
<1>3. i \in Registered /\ i \in GraphSlots /\ graphs[i] \in Graphs /\ session # "reset"
  BY <1>1, <1>2, GraphsAreNotNothing DEF Find, Registered, OpInv
<1>4. ASSUME NEW j \in Registered
      PROVE  /\ GraphSteps(j)
             /\ graphs'[j].closeRequested => graphs'[j].destroyRequested
  <2>1. j \in GraphSlots
    BY DEF Registered
  <2>2. CASE j = i
    <3>1. graphs'[i] = [graphs[i] EXCEPT !.sequence = graphs[i].sequence + 1,
                                         !.isConfigAcked = FALSE]
      BY <1>1, <1>2, <1>3 DEF TypeOK, Graphs
    <3>2. LifeOf(graphs'[i]) = Themed(LifeOf(graphs[i]))
      <4>1. /\ graphs'[i].sequence = graphs[i].sequence + 1
            /\ graphs'[i].isConfigAcked = FALSE
            /\ graphs'[i].destroyRequested = graphs[i].destroyRequested
            /\ graphs'[i].closeRequested = graphs[i].closeRequested
            /\ graphs'[i].closeSent = graphs[i].closeSent
        BY <1>3, <3>1 DEF Graphs
      <4>2. graphs'[i] \in Graphs
        BY <1>1, <1>3 DEF GraphsKept, GraphArrays, Registered
      <4>3. QED
        BY <1>3, <4>1, <4>2, LivesOfGraphs
    <3>3. /\ graphs'[i].closeRequested = graphs[i].closeRequested
          /\ graphs'[i].destroyRequested = graphs[i].destroyRequested
      BY <1>3, <3>1 DEF Graphs
    <3>4. QED
      BY <1>3, <2>2, <3>2, <3>3 DEF GraphSteps, LifeInv
  <2>3. CASE j # i
    <3>1. graphs'[j] = graphs[j]
      BY <1>1, <1>2, <2>1, <2>3 DEF TypeOK
    <3>2. QED
      BY <3>1 DEF GraphSteps, LifeOf, LifeInv
  <2>4. QED
    BY <2>2, <2>3
<1>5. QED
  BY <1>1, <1>4, KeptLives, KeptLifeInv

(* receive_acks                                                            *)
LEMMA AckLives ==
  ASSUME RegistryInv, LifeInv, NEW id \in Handles, NEW sequence \in 0 .. MaxThemes,
         ReceiveAck(id, sequence)
  PROVE  LifeInv' /\ Life!Next
<1>1. /\ TypeOK /\ GraphsKept /\ UNCHANGED <<session, sentConfigs>>
      /\ session = "running" /\ <<id, sequence>> \in sentConfigs
  BY ReceiveAckKeepsGraphs DEF RegistryInv, ReceiveAck, Running
<1>2. ASSUME NEW j \in Registered
      PROVE  /\ GraphSteps(j)
             /\ graphs'[j].closeRequested => graphs'[j].destroyRequested
  <2>1. j \in GraphSlots /\ graphs[j] \in Graphs /\ graphs[j] # NoGraph
    BY <1>1, GraphsAreNotNothing DEF Registered
  <2>2. CASE graphs[j].id = id /\ graphs[j].sequence = sequence
    <3>1. graphs'[j] = [graphs[j] EXCEPT !.isConfigAcked = TRUE]
      BY <2>1, <2>2 DEF ReceiveAck, Find
    <3>2. LifeOf(graphs'[j]) = Acked(LifeOf(graphs[j]))
      <4>1. /\ graphs'[j].sequence = graphs[j].sequence
            /\ graphs'[j].isConfigAcked = TRUE
            /\ graphs'[j].destroyRequested = graphs[j].destroyRequested
            /\ graphs'[j].closeRequested = graphs[j].closeRequested
            /\ graphs'[j].closeSent = graphs[j].closeSent
        BY <2>1, <3>1 DEF Graphs
      <4>2. graphs'[j] \in Graphs
        BY <1>1 DEF GraphsKept, GraphArrays, Registered
      <4>3. QED
        BY <2>1, <4>1, <4>2, LivesOfGraphs
    <3>3. /\ graphs'[j].closeRequested = graphs[j].closeRequested
          /\ graphs'[j].destroyRequested = graphs[j].destroyRequested
      BY <2>1, <3>1 DEF Graphs
    <3>4. LifeOf(graphs[j]).sequence \in PendingOf(j)
      BY <1>1, <2>1, <2>2 DEF PendingOf, LifeOf
    <3>5. QED
      BY <1>1, <3>2, <3>3, <3>4 DEF GraphSteps, LifeInv
  <2>3. CASE ~(graphs[j].id = id /\ graphs[j].sequence = sequence)
    <3>1. graphs'[j] = graphs[j]
      BY <2>1, <2>3 DEF ReceiveAck, Find
    <3>2. QED
      BY <3>1 DEF GraphSteps, LifeOf, LifeInv
  <2>4. QED
    BY <2>2, <2>3
<1>3. QED
  BY <1>1, <1>2, KeptLives, KeptLifeInv

(* register_graph                                                          *)
LEMMA RegisterLives ==
  ASSUME RegistryInv, LifeInv, RegisterGraph
  PROVE  LifeInv' /\ Life!Next
<1>1. /\ TypeOK /\ CountInv /\ graphCount < Capacity
      /\ session # "reset" /\ session' # "reset" /\ UNCHANGED sentConfigs
  BY DEF RegistryInv, RegisterGraph, OpInv, Idle
<1> DEFINE new == NewGraph(op.instance)
<1>2. PICK slot \in GraphSlots \ Registered :
        /\ Registered' = Registered \union {slot}
        /\ graphs' = [graphs EXCEPT ![slot] = new]
        /\ graphs'[slot] = new
        /\ \A i \in Registered : i # slot /\ graphs'[i] = graphs[i]
  BY RegisteredGraph
<1>3. new.id = AllocatedId /\ LifeOf(new) = Life!Fresh /\ ~new.closeRequested
  BY DEF NewGraph, LifeOf, Life!Fresh
<1>4. \A i \in Registered : graphs[i].id # AllocatedId
  BY <1>1, AllocatedIdIsNew
<1>5. \A sequence : <<AllocatedId, sequence>> \notin sentConfigs
  <2> SUFFICES ASSUME NEW sequence, <<AllocatedId, sequence>> \in sentConfigs PROVE FALSE
    OBVIOUS
  <2>1. PICK i \in Registered : graphs[i].id = <<AllocatedId, sequence>>[1]
    BY DEF LifeInv
  <2>2. QED
    BY <1>4, <2>1
<1> HIDE DEF new
<1>6. LifeInv'
  <2>1. \A i \in Registered' : graphs'[i].closeRequested => graphs'[i].destroyRequested
    BY <1>2, <1>3 DEF LifeInv
  <2>2. \A c \in sentConfigs' : \E i \in Registered' : graphs'[i].id = c[1]
    BY <1>1, <1>2 DEF LifeInv
  <2>3. QED
    BY <2>1, <2>2 DEF LifeInv
<1>7. ASSUME NEW i \in GraphSlots PROVE Life!Step(i)
  <2>1. CASE i = slot
    <3>1. graphs[i] = NoGraph /\ graphs'[i] = new /\ new # NoGraph
      BY <1>2, <2>1 DEF Registered
    <3>2. PendingOf(i)' = {}
      BY <1>1, <1>3, <1>5, <3>1 DEF PendingOf
    <3>3. Life!Create(i)
      BY <1>3, <3>1, <3>2 DEF Life!Create, Life!Fresh
    <3>4. QED
      BY <1>1, <3>3 DEF Life!Step, Life!GraphStep
  <2>2. CASE i \in Registered
    <3>1. i \in Registered' /\ graphs'[i] = graphs[i]
      BY <1>2, <2>2
    <3>2. PendingOf(i)' = PendingOf(i) /\ GraphSteps(i)
      BY <1>1, <3>1 DEF PendingOf, GraphSteps, LifeOf
    <3>3. QED
      BY <1>1, <2>2, <3>1, <3>2, GraphLives
  <2>3. CASE i # slot /\ i \notin Registered
    BY <1>1, <1>2, <2>3, NothingLives
  <2>4. QED
    BY <2>1, <2>2, <2>3
<1>8. QED
  BY <1>6, <1>7 DEF Life!Next

(* create_stream changes only the streams of a graph.                      *)
LEMMA CreateStreamLives ==
  ASSUME RegistryInv, LifeInv, CreateStream
  PROVE  LifeInv' /\ Life!Next
<1>1. PICK i \in Registered, s \in Heap :
        /\ \E slot \in StreamSlots :
             graphs[i].streams[slot] = NoStream /\ graphs'[i] = Extended(graphs[i], slot, s)
        /\ \A j \in GraphSlots \ {i} : graphs'[j] = graphs[j]
        /\ Registered' = Registered
        /\ graphs[i] \in Graphs /\ SlotsInv(graphs[i]) /\ s \notin StreamsOf(graphs[i])
  BY CreatedStream
<1>2. UNCHANGED <<session, sentConfigs>>
  BY DEF CreateStream
<1>3. PICK slot \in StreamSlots : graphs'[i] = Extended(graphs[i], slot, s)
  BY <1>1
<1>4. /\ LifeOf(graphs'[i]) = LifeOf(graphs[i]) /\ graphs'[i].id = graphs[i].id
      /\ graphs'[i].closeRequested = graphs[i].closeRequested
      /\ graphs'[i].destroyRequested = graphs[i].destroyRequested
  BY <1>1, <1>3 DEF LifeOf, Extended, Graphs
<1>5. \A j \in Registered :
        /\ LifeOf(graphs'[j]) = LifeOf(graphs[j]) /\ graphs'[j].id = graphs[j].id
        /\ graphs'[j].closeRequested = graphs[j].closeRequested
        /\ graphs'[j].destroyRequested = graphs[j].destroyRequested
  BY <1>1, <1>4 DEF Registered
<1>6. LifeInv'
  BY <1>1, <1>2, <1>5 DEF LifeInv
<1>7. ASSUME NEW j \in GraphSlots PROVE Life!Step(j)
  <2>1. CASE j \in Registered
    <3>1. /\ j \in Registered' /\ graphs'[j].id = graphs[j].id
          /\ graphs[j] # NoGraph /\ graphs'[j] # NoGraph
      BY <1>1, <1>5, <2>1 DEF Registered
    <3>2. PendingOf(j)' = PendingOf(j)
      BY <1>2, <3>1 DEF PendingOf
    <3>3. QED
      BY <1>2, <1>5, <2>1, <3>1, <3>2, GraphLives DEF GraphSteps
  <2>2. CASE j \notin Registered
    BY <1>1, <1>2, <2>2, NothingLives
  <2>3. QED
    BY <2>1, <2>2
<1>8. QED
  BY <1>6, <1>7 DEF Life!Next

(* manager_reset                                                           *)
LEMMA ResetLives ==
  ASSUME RegistryInv, LifeInv, Reset
  PROVE  LifeInv' /\ Life!Next
<1>1. /\ session = "running" /\ session' = "reset" /\ sentConfigs' = {}
      /\ \A i \in GraphSlots : graphs'[i] = NoGraph
  BY DEF Reset
<1>2. LifeInv'
  BY <1>1 DEF LifeInv, Registered
<1>3. ASSUME NEW i \in GraphSlots PROVE Life!Step(i)
  <2>1. PendingOf(i)' = {}
    BY <1>1 DEF PendingOf
  <2>2. Life!EndSession(i)
    BY <1>1, <2>1 DEF Life!EndSession, Life!NothingAnnounced
  <2>3. QED
    BY <1>1, <2>2 DEF Life!Step
<1>4. QED
  BY <1>2, <1>3 DEF Life!Next

(* A pass of the sender thread is a step of every graph: what waits is     *)
(* announced, what is finished leaves, and a window is asked to close.     *)
LEMMA PassLives ==
  ASSUME RegistryInv, LifeInv, NEW drained \in SUBSET Sendable, PassThat(drained)
  PROVE  LifeInv' /\ Life!Next
<1>1. /\ TypeOK /\ CountInv /\ session = "running" /\ session' = session
      /\ \A i \in GraphSlots :
           graphs'[i] = IF i \in Registered THEN AfterPass(graphs[i], drained) ELSE NoGraph
  BY DEF RegistryInv, PassThat, Running
<1>2. sentConfigs' =
        {c \in sentConfigs : \E i \in Find(c[1]) : AfterPass(graphs[i], drained) # NoGraph}
        \union
        {<<graphs[i].id, graphs[i].sequence>> : i \in {j \in Registered : Waiting(graphs[j])}}
  BY DEF PassThat
<1>3. /\ Registered' \subseteq Registered
      /\ \A i \in Registered \ Registered' : ~Waiting(graphs[i]) /\ graphs[i].destroyRequested
      /\ \A i \in Registered : (i \in Registered') <=> (AfterPass(graphs[i], drained) # NoGraph)
      /\ \A i \in Registered' : graphs'[i].id = graphs[i].id
  BY PassedGraphs
<1>4. ASSUME NEW i \in Registered'
      PROVE  /\ i \in Registered /\ graphs[i] \in Graphs /\ graphs'[i] # NoGraph
             /\ Waiting(graphs[i]) => graphs'[i] = graphs[i]
             /\ ~Waiting(graphs[i]) => graphs'[i] = Served(graphs[i], drained)
  <2>1. i \in Registered /\ i \in GraphSlots /\ graphs[i] \in Graphs /\ graphs'[i] # NoGraph
    BY <1>1, <1>3, GraphsAreNotNothing DEF Registered
  <2>2. QED
    BY <1>1, <2>1 DEF AfterPass
<1>5. ASSUME NEW i \in Registered', ~Waiting(graphs[i])
      PROVE  /\ LifeOf(graphs'[i]).sequence = graphs[i].sequence
             /\ \/ LifeOf(graphs'[i]) = LifeOf(graphs[i])
                \/ /\ graphs[i].isConfigAcked /\ graphs[i].closeRequested
                   /\ LifeOf(graphs'[i]) = Told(LifeOf(graphs[i]))
             /\ graphs'[i].closeRequested = graphs[i].closeRequested
             /\ graphs'[i].destroyRequested = graphs[i].destroyRequested
  <2>1. graphs[i] \in Graphs /\ graphs'[i] = Served(graphs[i], drained)
    BY <1>4, <1>5
  <2>2. graphs[i].closeSent \in BOOLEAN
    BY <2>1 DEF Graphs
  <2>3. LifeOf(graphs'[i]) =
          [LifeOf(graphs[i]) EXCEPT
             !.closeSent = @ \/ (graphs[i].isConfigAcked /\ graphs[i].closeRequested)]
    BY <2>1 DEF Served, LifeOf, Graphs
  <2>4. /\ graphs'[i].closeRequested = graphs[i].closeRequested
        /\ graphs'[i].destroyRequested = graphs[i].destroyRequested
    BY <2>1 DEF Served, Graphs
  <2>5. CASE graphs[i].isConfigAcked /\ graphs[i].closeRequested
    BY <2>3, <2>4, <2>5 DEF LifeOf, Told
  <2>6. CASE ~(graphs[i].isConfigAcked /\ graphs[i].closeRequested)
    BY <2>2, <2>3, <2>4, <2>6 DEF LifeOf
  <2>7. QED
    BY <2>5, <2>6
<1>6. LifeInv'
  <2>1. \A i \in Registered' : graphs'[i].closeRequested => graphs'[i].destroyRequested
    BY <1>4, <1>5 DEF LifeInv
  <2>2. ASSUME NEW c \in sentConfigs' PROVE \E i \in Registered' : graphs'[i].id = c[1]
    <3>1. CASE \E i \in Find(c[1]) : AfterPass(graphs[i], drained) # NoGraph
      BY <1>3, <3>1 DEF Find
    <3>2. ASSUME NEW i \in Registered, Waiting(graphs[i]),
                 c = <<graphs[i].id, graphs[i].sequence>>
          PROVE  \E j \in Registered' : graphs'[j].id = c[1]
      BY <1>3, <3>2
    <3>3. QED
      BY <1>2, <3>1, <3>2
  <2>3. QED
    BY <2>1, <2>2 DEF LifeInv
<1>7. ASSUME NEW i \in Registered'
      PROVE  PendingOf(i)' \subseteq PendingOf(i) \union
               (IF Waiting(graphs[i]) THEN {graphs[i].sequence} ELSE {})
  <2>1. i \in Registered /\ graphs'[i].id = graphs[i].id
        /\ graphs[i] # NoGraph /\ graphs'[i] # NoGraph
    BY <1>3 DEF Registered
  <2>2. ASSUME NEW sequence \in 0 .. MaxThemes, <<graphs[i].id, sequence>> \in sentConfigs',
               <<graphs[i].id, sequence>> \notin sentConfigs
        PROVE  Waiting(graphs[i]) /\ sequence = graphs[i].sequence
    <3>1. PICK j \in Registered :
            /\ Waiting(graphs[j])
            /\ <<graphs[i].id, sequence>> = <<graphs[j].id, graphs[j].sequence>>
      BY <1>2, <2>2
    <3>2. graphs[i].id = graphs[j].id /\ sequence = graphs[j].sequence
      BY <3>1
    <3>3. i = j
      BY <1>1, <2>1, <3>2 DEF CountInv
    <3>4. QED
      BY <3>1, <3>2, <3>3
  <2>3. QED
    BY <2>1, <2>2 DEF PendingOf
<1>8. ASSUME NEW i \in GraphSlots PROVE Life!Step(i)
  <2>1. CASE i \in Registered' /\ Waiting(graphs[i])
    <3>1. i \in Registered /\ graphs'[i] = graphs[i] /\ graphs[i] # NoGraph
      BY <1>4, <2>1 DEF Registered
    <3>2. PendingOf(i)' \subseteq PendingOf(i) \union {graphs[i].sequence}
      BY <1>7, <2>1
    <3>3. Life!Announce(i)
      <4>1. /\ ~LifeOf(graphs[i]).isConfigAcked /\ ~LifeOf(graphs[i]).closeRequested
            /\ LifeOf(graphs[i]).sequence = graphs[i].sequence
        BY <2>1 DEF Waiting, LifeOf
      <4>2. QED
        BY <3>1, <3>2, <4>1 DEF Life!Announce, Life!Waiting, Life!Becomes
    <3>4. QED
      BY <1>1, <3>3 DEF Life!Step, Life!GraphStep
  <2>2. CASE i \in Registered' /\ ~Waiting(graphs[i])
    <3>1. i \in Registered /\ PendingOf(i)' \subseteq PendingOf(i)
      BY <1>4, <1>7, <2>2
    <3>2. GraphSteps(i)
      BY <1>1, <1>5, <2>2 DEF GraphSteps, LifeOf
    <3>3. QED
      BY <1>1, <2>2, <3>1, <3>2, GraphLives
  <2>3. CASE i \in Registered \ Registered'
    <3>1. graphs[i] # NoGraph /\ graphs'[i] = NoGraph
      BY <2>3 DEF Registered
    <3>2. PendingOf(i)' = {}
      BY <3>1 DEF PendingOf
    <3>3. /\ LifeOf(graphs[i]).destroyRequested
          /\ LifeOf(graphs[i]).isConfigAcked \/ LifeOf(graphs[i]).closeRequested
      BY <1>3, <2>3 DEF LifeOf, Waiting
    <3>4. Life!Free(i)
      BY <3>1, <3>2, <3>3 DEF Life!Free, Life!Waiting, Life!NothingAnnounced
    <3>5. QED
      BY <1>1, <3>4 DEF Life!Step, Life!GraphStep
  <2>4. CASE i \notin Registered /\ i \notin Registered'
    BY <1>1, <2>4, NothingLives
  <2>5. QED
    BY <1>3, <2>1, <2>2, <2>3, <2>4
<1>9. QED
  BY <1>6, <1>8 DEF Life!Next

(* Every step of the session is a step of each of its graphs.              *)
LEMMA NextLives ==
  RegistryInv /\ HandleInv /\ LifeInv /\ [Next]_vars => LifeInv' /\ Life!Next
<1> SUFFICES ASSUME RegistryInv, HandleInv, LifeInv, [Next]_vars PROVE LifeInv' /\ Life!Next
  OBVIOUS
<1>1. OpInv
  BY DEF RegistryInv
<1>2. ASSUME NEW c \in Scopes, RejectArguments(c) \/ CreateInit(c) \/ CreateDeinit(c)
      PROVE  LifeInv' /\ Life!Next
  <2>1. CellOf[c] \in Cells
    BY InstancesAre
  <2>2. CASE RejectArguments(c)
    BY <2>2, UnchangedLives DEF RejectArguments
  <2>3. CASE CreateInit(c)
    BY <2>1, <2>3, DestroyLives DEF CreateInit
  <2>4. CASE CreateDeinit(c)
    BY <2>1, <2>4, DestroyLives DEF CreateDeinit
  <2>5. QED
    BY <1>2, <2>2, <2>3, <2>4
<1>3. ASSUME NEW d \in Displays, TableInit(d) \/ MeterInit(d) \/ DisplayDeinit(d)
      PROVE  LifeInv' /\ Life!Next
  BY <1>3, UnchangedLives DEF TableInit, MeterInit, DisplayDeinit
<1>4. ASSUME NEW a \in Adders, NEW id, AddInit(a, id) \/ AddSpectralInit(a, id) \/ AddDeinit(a)
      PROVE  LifeInv' /\ Life!Next
  BY <1>4, UnchangedLives DEF AddInit, AddSpectralInit, AddDeinit
<1>5. ASSUME NEW p \in Attachers, Perf(p) PROVE LifeInv' /\ Life!Next
  BY <1>5, UnchangedLives DEF Perf
<1>6. ASSUME NEW id \in Handles, ChangeTheme(id) PROVE LifeInv' /\ Life!Next
  BY <1>6, ThemeLives
<1>7. CASE ReplaceGraph \/ DropGraph
  <2>1. CellOf[op.instance] \in Cells
    BY <1>1, <1>7, InstancesAre DEF OpInv, ReplaceGraph, DropGraph
  <2>2. QED
    BY <1>7, <2>1, DestroyLives DEF ReplaceGraph, DropGraph
<1>8. CASE RegisterGraph
  BY <1>8, RegisterLives
<1>9. CASE RegistryFull \/ AttachFails \/ FillTable
  BY <1>9, UnchangedLives DEF RegistryFull, AttachFails, FillTable
<1>10. CASE CreateFails
  <2>1. session # "reset" /\ session' # "reset"
    BY <1>1, <1>10 DEF CreateFails, OpInv, Idle
  <2>2. QED
    BY <1>10, <2>1, UnchangedLives DEF CreateFails
<1>11. CASE CreateStream
  BY <1>11, CreateStreamLives
<1>12. CASE Reset
  BY <1>12, ResetLives
<1>13. CASE SenderPass
  BY <1>13, PassLives DEF SenderPass
<1>14. ASSUME NEW id \in Handles, NEW sequence \in 0 .. MaxThemes, ReceiveAck(id, sequence)
       PROVE  LifeInv' /\ Life!Next
  BY <1>14, AckLives
<1>15. CASE UNCHANGED vars
  BY <1>15, UnchangedLives DEF vars
<1>16. QED
  BY <1>2, <1>3, <1>4, <1>5, <1>6, <1>7, <1>8, <1>9, <1>10, <1>11, <1>12, <1>13, <1>14, <1>15
     DEF Next, OpcodeStep, SenderStep, SessionOver

(* A graph of the registry lives as GraphLife says, whatever its notes,    *)
(* its streams and the sender thread do in whichever order: no             *)
(* configuration follows the request to close its window, its end is asked *)
(* for once, and it does not leave unasked or while it waits.              *)
THEOREM GraphsLiveAsPromised == Spec => LifeSpec
<1>1. Init => LifeInv /\ Life!Init
  <2> SUFFICES ASSUME Init PROVE LifeInv /\ Life!Init
    OBVIOUS
  <2>1. LifeInv
    BY DEF Init, LifeInv, Registered
  <2>2. \A i \in GraphSlots : graphs[i] = NoGraph /\ PendingOf(i) = {}
    BY DEF Init, PendingOf
  <2>3. QED
    BY <2>1, <2>2 DEF Life!Init, Init
<1>2. RegistryInv /\ HandleInv /\ LifeInv /\ [Next]_vars => LifeInv' /\ Life!Next
  BY NextLives
<1>3. QED
  BY <1>1, <1>2, HandlesInvariant, PTL DEF Spec, LifeSpec, Life!Spec
==============================================================================
