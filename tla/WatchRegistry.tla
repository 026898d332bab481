---------------------------- MODULE WatchRegistry ----------------------------
(***************************************************************************)
(* The graph registry of one Csound session (watch.c): the graphs and      *)
(* their streams, the opcode instances that create, replace, feed and end  *)
(* them, and the sender thread that asks the viewer for a window, drains   *)
(* the streams, frees what is finished and says which windows must go.     *)
(*                                                                         *)
(* Init and deinit calls run on one Csound thread; each is a sequence of   *)
(* critical sections under registry_mutex, and the sender thread may make  *)
(* a pass between any two of them. The ring of a stream is abstracted to   *)
(* whether anything is left to send (WatchStream models it in full).       *)
(***************************************************************************)
EXTENDS Integers, FiniteSets

CONSTANTS
  Capacity,        \* REGISTRY_SIZE
  MaxStreams,      \* MAX_STREAMS
  MaxHandleId,     \* MAX_HANDLE_ID
  Scopes,          \* instances of watchscope, watchcontrol, watchpoint, ...
  Tables, Meters,  \* instances of watchtable and watchmeter
  Adders,          \* instances of watchadd
  SpectralAdders,  \* those of them that add an f-signal
  Domain,          \* the signal domain of each instance
  CellOf,          \* the i-rate variable that receives the handle
  Heap,            \* names of the allocated WATCH_STREAM blocks
  NoGraph, NoStream, NoInstance, Unused,
  MaxThemes        \* bound: theme changes of one graph

Displays == Tables \union Meters
Creators == Scopes \union Displays
Attachers == Adders \union Displays
Instances == Creators \union Adders
Cells == {CellOf[c] : c \in Creators}
GraphSlots == 0 .. Capacity - 1
StreamSlots == 0 .. MaxStreams - 1
Handles == 1 .. MaxHandleId
InvalidHandle == 0

ASSUME RegistryAssumption ==
  /\ Capacity \in Nat \ {0} /\ MaxStreams \in Nat \ {0}
  /\ MaxHandleId \in Nat /\ MaxHandleId > Capacity
  /\ SpectralAdders \subseteq Adders
  /\ Creators \intersect Adders = {} /\ Scopes \intersect Displays = {}
  /\ DOMAIN Domain = Instances /\ DOMAIN CellOf = Creators
  /\ NoStream \notin Heap /\ NoInstance \notin Instances
  /\ MaxThemes \in Nat

VARIABLES
  graphs, graphCount, nextGraphId,
  heap,          \* each block: Unused, or the stream allocated in it
  handle,        \* content of each handle variable
  streamOf,      \* the stream field of each instance
  active,        \* instances whose note is playing
  op,            \* the init or deinit call in progress
  session,       \* "none" before the manager exists, "running", "reset"
  sentConfigs    \* (id, sequence) of the configurations sent for the graphs registered

vars == <<graphs, graphCount, nextGraphId, heap, handle, streamOf, active, op,
          session, sentConfigs>>

Streams == [released : BOOLEAN, backlog : BOOLEAN]
Graphs ==
  [id : Handles, sequence : 0 .. MaxThemes, owner : Creators,
   isConfigAcked : BOOLEAN, destroyRequested : BOOLEAN,
   closeRequested : BOOLEAN, closeSent : BOOLEAN,
   streams : [StreamSlots -> Heap \union {NoStream}], streamCount : 0 .. MaxStreams]
Steps == {"idle", "replace", "register", "attach", "fill", "drop"}

ASSUME NothingAssumption == NoGraph \notin Graphs /\ Unused \notin Streams

TypeOK ==
  /\ graphs \in [GraphSlots -> Graphs \union {NoGraph}]
  /\ graphCount \in 0 .. Capacity
  /\ nextGraphId \in Handles
  /\ heap \in [Heap -> Streams \union {Unused}]
  /\ handle \in [Cells -> Handles \union {InvalidHandle}]
  /\ streamOf \in [Attachers -> Heap \union {NoStream}]
  /\ active \subseteq Instances
  /\ op \in [step : Steps, instance : Instances \union {NoInstance},
             graphId : Handles \union {InvalidHandle}]
  /\ session \in {"none", "running", "reset"}
  /\ sentConfigs \subseteq Handles \X (0 .. MaxThemes)

Idle == op.step = "idle"
GoTo(step, p, id) == op' = [step |-> step, instance |-> p, graphId |-> id]
Return == GoTo("idle", NoInstance, InvalidHandle)

Init ==
  /\ graphs = [i \in GraphSlots |-> NoGraph]
  /\ graphCount = 0 /\ nextGraphId = 1
  /\ heap = [s \in Heap |-> Unused]
  /\ handle = [c \in Cells |-> InvalidHandle]
  /\ streamOf = [p \in Attachers |-> NoStream]
  /\ active = {}
  /\ op = [step |-> "idle", instance |-> NoInstance, graphId |-> InvalidHandle]
  /\ session = "none"
  /\ sentConfigs = {}

Registered == {i \in GraphSlots : graphs[i] # NoGraph}
StreamsOf(g) == {g.streams[k] : k \in StreamSlots} \ {NoStream}
Find(id) == {i \in Registered : graphs[i].id = id}

-----------------------------------------------------------------------------
(* Critical sections shared by the opcodes.                                *)

(* request_graph_destroy *)
RequestDestroy(id, closeWindow) ==
  graphs' = [i \in GraphSlots |->
    IF i \in Find(id)
    THEN [graphs[i] EXCEPT !.destroyRequested = TRUE,
                           !.closeRequested = @ \/ closeWindow]
    ELSE graphs[i]]

(* Mutant: the instance forgets the stream without releasing it.           *)
ReleaseForgetting(p) ==
  /\ heap' = heap
  /\ streamOf' = [streamOf EXCEPT ![p] = NoStream]

(* release_stream: the residual packet of the perf calls stays to be sent. *)
Release(p) ==
  /\ heap' = IF streamOf[p] = NoStream THEN heap
             ELSE [heap EXCEPT ![streamOf[p]].released = TRUE]
  /\ streamOf' = [streamOf EXCEPT ![p] = NoStream]

(* allocate_graph_id: the first handle from next_graph_id on, around the   *)
(* range, that no registered graph has; at most Capacity + 1 are tried.    *)
Offset(id, k) == ((id + k - 1) % MaxHandleId) + 1
FreeOffsets == {k \in 0 .. Capacity : Find(Offset(nextGraphId, k)) = {}}
FirstFree == CHOOSE k \in FreeOffsets : \A other \in FreeOffsets : k <= other
AllocatedIdUnchecked == nextGraphId  \* mutant: identifiers in use are not skipped
AllocatedId == Offset(nextGraphId, FirstFree)

NewGraph(c) ==
  [id |-> AllocatedId, sequence |-> 0, owner |-> c,
   isConfigAcked |-> FALSE, destroyRequested |-> FALSE,
   closeRequested |-> FALSE, closeSent |-> FALSE,
   streams |-> [k \in StreamSlots |-> NoStream], streamCount |-> 0]

Least(S) == CHOOSE x \in S : \A y \in S : x <= y

-----------------------------------------------------------------------------
(* Init calls. An instance is initialized when its note starts and again   *)
(* by every reinit.                                                        *)

Starts(p) ==
  /\ Idle /\ session # "reset"
  /\ active' = active \union {p}

(* The arguments of a scope are checked before anything is changed, so a   *)
(* reinit that fails on them leaves the graph of the previous pass alone.  *)
RejectArguments(c) ==
  /\ c \in Scopes /\ Starts(c)
  /\ UNCHANGED <<graphs, graphCount, nextGraphId, heap, handle, streamOf, op, session,
                 sentConfigs>>

(* create_graph begins by dropping the graph its own handle still names.   *)
CreateInit(c) ==
  /\ c \in Scopes /\ Starts(c)
  /\ RequestDestroy(handle[CellOf[c]], TRUE)
  /\ handle' = [handle EXCEPT ![CellOf[c]] = InvalidHandle]
  /\ GoTo("register", c, InvalidHandle)
  /\ UNCHANGED <<graphCount, nextGraphId, heap, streamOf, session, sentConfigs>>

(* watchtable and watchmeter own a graph and a stream and tear both down,  *)
(* the stream in one critical section and the graph in the next.           *)
TableInit(d) ==
  /\ d \in Tables /\ Starts(d)
  /\ Release(d)
  /\ GoTo("replace", d, InvalidHandle)
  /\ UNCHANGED <<graphs, graphCount, nextGraphId, handle, session, sentConfigs>>

MeterInit(d) ==
  /\ d \in Meters /\ Starts(d)
  /\ Release(d)
  /\ GoTo("replace", d, InvalidHandle)
  /\ UNCHANGED <<graphs, graphCount, nextGraphId, handle, session, sentConfigs>>

(* Mutant: the graph of the previous pass is forgotten, not dropped.       *)
ReplaceGraphForgetting ==
  /\ op.step = "replace"
  /\ handle' = [handle EXCEPT ![CellOf[op.instance]] = InvalidHandle]
  /\ GoTo("register", op.instance, InvalidHandle)
  /\ UNCHANGED <<graphs, graphCount, nextGraphId, heap, streamOf, active, session,
                 sentConfigs>>

ReplaceGraph ==
  /\ op.step = "replace"
  /\ RequestDestroy(handle[CellOf[op.instance]], TRUE)
  /\ handle' = [handle EXCEPT ![CellOf[op.instance]] = InvalidHandle]
  /\ GoTo("register", op.instance, InvalidHandle)
  /\ UNCHANGED <<graphCount, nextGraphId, heap, streamOf, active, session, sentConfigs>>

(* get_manager and register_graph.                                         *)
RegisterGraph ==
  /\ op.step = "register"
  /\ graphCount < Capacity
  /\ LET slot == Least(GraphSlots \ Registered)
         p == op.instance
     IN /\ graphs' = [graphs EXCEPT ![slot] = NewGraph(p)]
        /\ handle' = [handle EXCEPT ![CellOf[p]] = AllocatedId]
        /\ IF p \in Scopes THEN Return ELSE GoTo("attach", p, AllocatedId)
  /\ graphCount' = graphCount + 1
  /\ nextGraphId' = Offset(AllocatedId, 1)
  /\ session' = "running"
  /\ UNCHANGED <<heap, streamOf, active, sentConfigs>>

(* The registry is full, which is reported without failing the note.       *)
RegistryFull ==
  /\ op.step = "register"
  /\ graphCount >= Capacity
  /\ Return
  /\ UNCHANGED <<graphs, graphCount, nextGraphId, heap, handle, streamOf, active,
                 session, sentConfigs>>

(* An argument of a display, the title or an allocation is not accepted.   *)
CreateFails ==
  /\ op.step = "register"
  /\ Return
  /\ session' \in {session, "running"}
  /\ UNCHANGED <<graphs, graphCount, nextGraphId, heap, handle, streamOf, active,
                 sentConfigs>>

(* The init of watchadd: create_stream begins by releasing the stream of   *)
(* the previous pass, which watch_add_f_init has already forgotten.        *)
AddInit(a, id) ==
  /\ a \in Adders \ SpectralAdders /\ Starts(a)
  /\ Release(a)
  /\ GoTo("attach", a, id)
  /\ UNCHANGED <<graphs, graphCount, nextGraphId, handle, session, sentConfigs>>

AddSpectralInit(a, id) ==
  /\ a \in SpectralAdders /\ Starts(a)
  /\ streamOf' = [streamOf EXCEPT ![a] = NoStream]
  /\ GoTo("attach", a, id)
  /\ UNCHANGED <<graphs, graphCount, nextGraphId, heap, handle, session, sentConfigs>>

Accepts(i, p) ==
  /\ ~graphs[i].destroyRequested
  /\ Domain[graphs[i].owner] = Domain[p]
  /\ \E k \in StreamSlots : graphs[i].streams[k] = NoStream

(* create_stream: a slot of the graph, and a stream with nothing queued.   *)
CreateStream ==
  /\ op.step = "attach"
  /\ \E i \in Find(op.graphId), s \in Heap :
       /\ Accepts(i, op.instance)
       /\ heap[s] = Unused
       /\ \A other \in Heap : heap[other] = Unused => s <= other
       /\ heap' = [heap EXCEPT ![s] = [released |-> FALSE, backlog |-> FALSE]]
       /\ LET slot == Least({k \in StreamSlots : graphs[i].streams[k] = NoStream})
          IN graphs' = [graphs EXCEPT ![i].streams[slot] = s, ![i].streamCount = @ + 1]
       /\ streamOf' = [streamOf EXCEPT ![op.instance] = s]
  /\ IF op.instance \in Tables THEN GoTo("fill", op.instance, op.graphId) ELSE Return
  /\ UNCHANGED <<graphCount, nextGraphId, handle, active, session, sentConfigs>>

(* The handle names no graph, or one that is ending, of another domain or  *)
(* full, or there is no memory. An owner then drops the graph it created.  *)
AttachFails ==
  /\ op.step = "attach"
  /\ IF op.instance \in Displays THEN GoTo("drop", op.instance, op.graphId) ELSE Return
  /\ UNCHANGED <<graphs, graphCount, nextGraphId, heap, handle, streamOf, active,
                 session, sentConfigs>>

(* watchtable hands its snapshot over once the stream is registered.       *)
FillTable ==
  /\ op.step = "fill"
  /\ heap' = [heap EXCEPT ![streamOf[op.instance]].backlog = TRUE]
  /\ Return
  /\ UNCHANGED <<graphs, graphCount, nextGraphId, handle, streamOf, active, session,
                 sentConfigs>>

(* watch_theme accepts any registered graph, even one that is ending.      *)
ChangeTheme(id) ==
  /\ Idle
  /\ \E i \in Find(id) :
       /\ graphs[i].sequence < MaxThemes
       /\ graphs' = [graphs EXCEPT ![i].sequence = @ + 1, ![i].isConfigAcked = FALSE]
  /\ UNCHANGED <<graphCount, nextGraphId, heap, handle, streamOf, active, op, session,
                 sentConfigs>>

(* A perf call leaves something to send; it takes no lock.                 *)
Perf(p) ==
  /\ Idle /\ p \in active \intersect (Adders \union Meters)
  /\ streamOf[p] # NoStream
  /\ heap' = [heap EXCEPT ![streamOf[p]].backlog = TRUE]
  /\ UNCHANGED <<graphs, graphCount, nextGraphId, handle, streamOf, active, op, session,
                 sentConfigs>>

-----------------------------------------------------------------------------
(* Deinit calls, when the note ends.                                       *)

Ends(p) ==
  /\ Idle /\ p \in active
  /\ active' = active \ {p}

CreateDeinit(c) ==
  /\ c \in Scopes /\ Ends(c)
  /\ RequestDestroy(handle[CellOf[c]], FALSE)
  /\ handle' = [handle EXCEPT ![CellOf[c]] = InvalidHandle]
  /\ UNCHANGED <<graphCount, nextGraphId, heap, streamOf, op, session, sentConfigs>>

AddDeinit(a) ==
  /\ a \in Adders /\ Ends(a)
  /\ Release(a)
  /\ UNCHANGED <<graphs, graphCount, nextGraphId, handle, op, session, sentConfigs>>

DisplayDeinit(d) ==
  /\ d \in Displays /\ Ends(d)
  /\ Release(d)
  /\ GoTo("drop", d, InvalidHandle)
  /\ UNCHANGED <<graphs, graphCount, nextGraphId, handle, session, sentConfigs>>

(* ... and the second half, shared with an init that could not attach.     *)
DropGraph ==
  /\ op.step = "drop"
  /\ RequestDestroy(handle[CellOf[op.instance]], FALSE)
  /\ handle' = [handle EXCEPT ![CellOf[op.instance]] = InvalidHandle]
  /\ Return
  /\ UNCHANGED <<graphCount, nextGraphId, heap, streamOf, active, session, sentConfigs>>

(* manager_reset. Csound ends every note before it runs the callback.      *)
Reset ==
  /\ Idle /\ active = {} /\ session = "running"
  /\ session' = "reset"
  /\ graphs' = [i \in GraphSlots |-> NoGraph]
  /\ graphCount' = 0
  /\ heap' = [s \in Heap |-> IF \E i \in Registered : s \in StreamsOf(graphs[i])
                             THEN Unused ELSE heap[s]]
  /\ sentConfigs' = {}
  /\ UNCHANGED <<nextGraphId, handle, streamOf, active, op>>

-----------------------------------------------------------------------------
(* The sender thread.                                                      *)

Running == session = "running"

(* Mutant: any answer to the graph counts, whatever it answers.            *)
ReceiveAnyAck(id, sequence) ==
  /\ Running /\ <<id, sequence>> \in sentConfigs
  /\ graphs' = [i \in GraphSlots |->
       IF i \in Find(id) THEN [graphs[i] EXCEPT !.isConfigAcked = TRUE] ELSE graphs[i]]
  /\ UNCHANGED <<graphCount, nextGraphId, heap, handle, streamOf, active, op, session,
                 sentConfigs>>

(* receive_acks: the viewer has answered some configuration it was sent,   *)
(* perhaps one the graph no longer has. By the time an identifier comes    *)
(* round again, no answer to its previous graph is still on its way.       *)
ReceiveAck(id, sequence) ==
  /\ Running /\ <<id, sequence>> \in sentConfigs
  /\ graphs' = [i \in GraphSlots |->
       IF i \in Find(id) /\ graphs[i].sequence = sequence
       THEN [graphs[i] EXCEPT !.isConfigAcked = TRUE] ELSE graphs[i]]
  /\ UNCHANGED <<graphCount, nextGraphId, heap, handle, streamOf, active, op, session,
                 sentConfigs>>

(* Mutants: a replaced graph is not given up; it goes on being announced.  *)
NeverAbandoned(g) == FALSE
WaitingRegardless(g) == ~g.isConfigAcked

Abandoned(g) == ~g.isConfigAcked /\ g.closeRequested
Waiting(g) == ~g.isConfigAcked /\ ~g.closeRequested

(* Mutant: a drained stream goes although its instance still plays.        *)
DrainedStreams(g, drained) ==
  {s \in StreamsOf(g) : Abandoned(g) \/ ~heap[s].backlog \/ s \in drained}

(* The streams that release_finished_streams frees in a pass that empties  *)
(* the streams in drained.                                                 *)
Finished(g, drained) ==
  {s \in StreamsOf(g) :
     heap[s].released /\ (Abandoned(g) \/ ~heap[s].backlog \/ s \in drained)}

Served(g, drained) ==
  LET gone == Finished(g, drained)
  IN [g EXCEPT !.closeSent = @ \/ (g.isConfigAcked /\ g.closeRequested),
               !.streams = [k \in StreamSlots |-> IF @[k] \in gone THEN NoStream ELSE @[k]],
               !.streamCount = @ - Cardinality(gone)]

(* Mutant: a graph goes with its streams, though nobody asked for its end. *)
AfterPassUnasked(g, drained) ==
  IF Waiting(g) THEN g
  ELSE IF StreamsOf(g) = Finished(g, drained) THEN NoGraph
  ELSE Served(g, drained)

AfterPass(g, drained) ==
  IF Waiting(g) THEN g
  ELSE IF g.destroyRequested /\ StreamsOf(g) = Finished(g, drained) THEN NoGraph
  ELSE Served(g, drained)

Answered == {i \in Registered : graphs[i].isConfigAcked}
Sendable ==
  {s \in Heap : heap[s] # Unused /\ heap[s].backlog
                /\ \E i \in Answered : s \in StreamsOf(graphs[i])}

PassThat(drained) ==
  /\ Running
  /\ graphs' = [i \in GraphSlots |->
       IF i \in Registered THEN AfterPass(graphs[i], drained) ELSE NoGraph]
  /\ graphCount' = graphCount
       - Cardinality({i \in Registered : AfterPass(graphs[i], drained) = NoGraph})
  /\ heap' = [s \in Heap |->
       IF \E i \in Registered : ~Waiting(graphs[i]) /\ s \in Finished(graphs[i], drained)
       THEN Unused
       ELSE IF s \in drained THEN [heap[s] EXCEPT !.backlog = FALSE] ELSE heap[s]]
  /\ sentConfigs' =
       {c \in sentConfigs : \E i \in Find(c[1]) : AfterPass(graphs[i], drained) # NoGraph}
       \union
       {<<graphs[i].id, graphs[i].sequence>> : i \in {j \in Registered : Waiting(graphs[j])}}
  /\ UNCHANGED <<nextGraphId, handle, streamOf, active, op, session>>

(* One pass under the mutex: it may leave packets behind, because of the   *)
(* limit per pass or because the socket does not take them.                *)
SenderPass == \E drained \in SUBSET Sendable : PassThat(drained)

-----------------------------------------------------------------------------
OpcodeStep ==
  \/ \E c \in Scopes : RejectArguments(c) \/ CreateInit(c) \/ CreateDeinit(c)
  \/ \E d \in Displays : TableInit(d) \/ MeterInit(d) \/ DisplayDeinit(d)
  \/ \E a \in Adders, id \in {graphs[i].id : i \in Registered} \union {InvalidHandle} :
       AddInit(a, id) \/ AddSpectralInit(a, id)
  \/ \E a \in Adders : AddDeinit(a)
  \/ \E p \in Attachers : Perf(p)
  \/ \E id \in Handles : ChangeTheme(id)
  \/ ReplaceGraph \/ RegisterGraph \/ RegistryFull \/ CreateFails
  \/ CreateStream \/ AttachFails \/ FillTable \/ DropGraph
  \/ Reset

SenderStep ==
  \/ SenderPass
  \/ \E id \in Handles, sequence \in 0 .. MaxThemes : ReceiveAck(id, sequence)

(* Nothing is left of a session that was reset.                            *)
SessionOver == session = "reset" /\ UNCHANGED vars

Next == OpcodeStep \/ SenderStep \/ SessionOver

Spec == Init /\ [][Next]_vars

(* The sender thread keeps making passes, a pass sends what is queued      *)
(* sooner or later, and the viewer answers what it is sent.                *)
Fairness ==
  /\ WF_vars(PassThat(Sendable))
  /\ \A id \in Handles, sequence \in 0 .. MaxThemes : SF_vars(ReceiveAck(id, sequence))

LiveSpec == Spec /\ Fairness

-----------------------------------------------------------------------------
(* Properties.                                                             *)

(* The counters agree with the slots, so that register_graph never finds   *)
(* the registry inconsistent, and no two graphs share an identifier, not   *)
(* even when the identifiers have gone round.                              *)
RegistryConsistent ==
  /\ TypeOK
  /\ graphCount = Cardinality(Registered)
  /\ \A i \in Registered :
       /\ graphs[i].streamCount = Cardinality({k \in StreamSlots : graphs[i].streams[k] # NoStream})
       /\ graphs[i].streamCount = Cardinality(StreamsOf(graphs[i]))
  /\ \A i, j \in Registered : graphs[i].id = graphs[j].id => i = j

(* A stream a playing instance writes to is allocated, still registered    *)
(* in a graph, not released, and nobody else's: the sender thread never    *)
(* frees a stream under a running watchadd.                                *)
NoDanglingStream ==
  \A p \in Attachers : streamOf[p] # NoStream =>
    /\ heap[streamOf[p]] # Unused
    /\ ~heap[streamOf[p]].released
    /\ \E i \in Registered : streamOf[p] \in StreamsOf(graphs[i])
    /\ \A q \in Attachers : streamOf[q] = streamOf[p] => q = p

(* Every allocated stream has one place in one graph, and either an        *)
(* instance that will release it or a release already made: its slot       *)
(* comes back when the attaching instance ends.                            *)
NoLeakedStream ==
  \A s \in Heap : heap[s] # Unused =>
    /\ \E i \in Registered : s \in StreamsOf(graphs[i])
    /\ \A i, j \in Registered :
         s \in StreamsOf(graphs[i]) /\ s \in StreamsOf(graphs[j]) => i = j
    /\ heap[s].released \/ \E p \in active : p \in Attachers /\ streamOf[p] = s

(* A graph nobody has asked to destroy is named by the handle of the       *)
(* playing instance that created it, which will ask.                       *)
NoOrphanGraph ==
  \A i \in Registered : graphs[i].destroyRequested \/
    \/ /\ graphs[i].owner \in active
       /\ handle[CellOf[graphs[i].owner]] = graphs[i].id
    \/ op.step = "drop" /\ op.instance = graphs[i].owner

(* A handle held by a playing creator is usable: watchadd finds the graph. *)
HandleUsable ==
  \A c \in active \intersect Creators : handle[CellOf[c]] # InvalidHandle =>
    \E i \in Find(handle[CellOf[c]]) : ~graphs[i].destroyRequested

(* Streams are drained towards the viewer only once it has been sent the   *)
(* configuration the graph has now, theme included.                        *)
AckIsCurrent ==
  \A i \in Registered : graphs[i].isConfigAcked =>
    <<graphs[i].id, graphs[i].sequence>> \in sentConfigs

(* Every graph lives as GraphLife says: what a call does in several        *)
(* critical sections and a sender thread in passes over all graphs is, for *)
(* each graph, one of few steps. No configuration follows the request to   *)
(* close its window, which would open it again, nobody asks twice for its  *)
(* end, and it does not leave unasked or waiting.                          *)
LifeOf(g) ==
  [sequence |-> g.sequence, isConfigAcked |-> g.isConfigAcked,
   destroyRequested |-> g.destroyRequested, closeRequested |-> g.closeRequested,
   closeSent |-> g.closeSent]
PendingOf(i) ==
  IF graphs[i] = NoGraph THEN {}
  ELSE {sequence \in 0 .. MaxThemes : <<graphs[i].id, sequence>> \in sentConfigs}

Life == INSTANCE GraphLife WITH
  Names <- GraphSlots,
  running <- [i \in GraphSlots |-> session # "reset"],
  registered <- [i \in GraphSlots |-> graphs[i] # NoGraph],
  life <- [i \in GraphSlots |-> IF graphs[i] = NoGraph THEN NoGraph ELSE LifeOf(graphs[i])],
  pending <- [i \in GraphSlots |-> PendingOf(i)]

LifeSpec == Life!Spec

(* A graph that has to go, and whose streams are all released, frees its   *)
(* place in the registry as long as the viewer answers.                    *)
FinishedGraphIsFreed ==
  \A i \in GraphSlots :
    (/\ i \in Registered /\ graphs[i].destroyRequested
     /\ \A s \in StreamsOf(graphs[i]) : heap[s].released)
    ~> i \notin Registered

(* "a graph replaced by a reinit ... the previous window ... is closed":   *)
(* a replaced graph whose configuration was sent does not leave the        *)
(* registry before the viewer was told to close its window.                *)
ReplacedWindowIsClosed ==
  [][\A i \in Registered :
       /\ graphs'[i] = NoGraph /\ Running'
       /\ graphs[i].closeRequested
       /\ \E sequence \in 0 .. MaxThemes : <<graphs[i].id, sequence>> \in sentConfigs
       => graphs[i].closeSent \/ graphs[i].isConfigAcked]_vars
=============================================================================
