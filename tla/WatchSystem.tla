----------------------------- MODULE WatchSystem -----------------------------
(***************************************************************************)
(* Csound sessions and the viewer they share: the sender thread of each    *)
(* session asks for windows, changes their themes and closes them, over a  *)
(* UDP socket of which the viewer may miss packets but which keeps those   *)
(* it delivers in order; the viewer answers, and the user closes windows.  *)
(*                                                                         *)
(* A session is WatchRegistry seen from outside: its graphs without their  *)
(* streams. An identifier names one graph of a session.                    *)
(***************************************************************************)
EXTENDS WatchViewer, Sequences, FiniteSets

CONSTANTS
  Repetitions,  \* WATCH_GRAPH_CLOSE_REPETITIONS, WATCH_SESSION_CLOSE_REPETITIONS
  NoGraph,
  FirstThemes,  \* bound: themes a graph is created with
  Changing,     \* bound: sessions that change the theme of their graphs
  MaxSequence,  \* bound: theme changes of one graph
  MaxQueue,     \* bound: packets waiting in the socket of the viewer
  MaxAnswers,   \* bound: answers waiting in the socket of a session
  MaxLosses     \* bound: packets lost in all

ASSUME SystemAssumption ==
  /\ Repetitions \in Nat \ {0}
  /\ FirstThemes \subseteq Themes /\ Changing \subseteq Senders
  /\ MaxSequence \in Nat /\ MaxQueue \in Nat /\ MaxAnswers \in Nat /\ MaxLosses \in Nat

VARIABLES
  session,    \* of each sender: "running" or "ended"
  graphs,     \* of each sender: its graphs, by identifier
  used,       \* (sender, identifier) of every graph created so far
  inbox,      \* packets in the socket of the viewer, oldest first
  acks,       \* of each sender: answers in its socket, oldest first
  losses,     \* how many packets were lost
  dismissed   \* history: (sender, identifier) of the windows closed by hand

sessionVars == <<session, graphs, used>>
networkVars == <<inbox, acks, losses>>
vars == <<viewerVars, sessionVars, networkVars, dismissed>>

Graphs ==
  [theme : Themes, sequence : 0 .. MaxSequence, isConfigAcked : BOOLEAN,
   destroyRequested : BOOLEAN, closeRequested : BOOLEAN, closeSent : BOOLEAN]
ASSUME NothingAssumption == NoGraph \notin Graphs

Configs == [type : {"CONFIG"}, sender : Senders, id : GraphIds, theme : Themes,
            sequence : 0 .. MaxSequence]
GraphCloses == [type : {"GRAPH_CLOSE"}, sender : Senders, id : GraphIds]
SessionCloses == [type : {"SESSION_CLOSE"}, sender : Senders]
Acks == [id : GraphIds, sequence : 0 .. MaxSequence]

Elements(queue) == {queue[i] : i \in 1 .. Len(queue)}

TypeOK ==
  /\ ViewerTypeOK
  /\ session \in [Senders -> {"running", "ended"}]
  /\ graphs \in [Senders -> [GraphIds -> Graphs \union {NoGraph}]]
  /\ used \subseteq Senders \X GraphIds
  /\ Elements(inbox) \subseteq Configs \union GraphCloses \union SessionCloses
  /\ \A s \in Senders : Elements(acks[s]) \subseteq Acks
  /\ losses \in 0 .. MaxLosses
  /\ dismissed \subseteq used

Init ==
  /\ ViewerInit
  /\ session = [s \in Senders |-> "running"]
  /\ graphs = [s \in Senders |-> [id \in GraphIds |-> NoGraph]]
  /\ used = {}
  /\ inbox = <<>> /\ acks = [s \in Senders |-> <<>>] /\ losses = 0
  /\ dismissed = {}

Registered(s) == {id \in GraphIds : graphs[s][id] # NoGraph}

(* send_packet: without a viewer there is no socket to receive the packet. *)
Send(packets) ==
  /\ inbox' = IF Running THEN inbox \o packets ELSE inbox
  /\ Len(inbox') <= MaxQueue

-----------------------------------------------------------------------------
(* The opcodes of a session.                                               *)

InSession(s) == session[s] = "running"

CreateGraph(s, id, theme) ==
  /\ InSession(s) /\ <<s, id>> \notin used
  /\ graphs' = [graphs EXCEPT ![s][id] =
       [theme |-> theme, sequence |-> 0, isConfigAcked |-> FALSE,
        destroyRequested |-> FALSE, closeRequested |-> FALSE, closeSent |-> FALSE]]
  /\ used' = used \union {<<s, id>>}
  /\ UNCHANGED <<viewerVars, session, networkVars, dismissed>>

ChangeTheme(s, id, theme) ==
  /\ InSession(s) /\ s \in Changing /\ id \in Registered(s)
  /\ graphs[s][id].theme # theme /\ graphs[s][id].sequence < MaxSequence
  /\ graphs' = [graphs EXCEPT ![s][id].theme = theme, ![s][id].sequence = @ + 1,
                              ![s][id].isConfigAcked = FALSE]
  /\ UNCHANGED <<viewerVars, session, used, networkVars, dismissed>>

(* The note that created the graph ends, or is reinitialized.              *)
RequestDestroy(s, id, closeWindow) ==
  /\ InSession(s) /\ id \in Registered(s)
  /\ ~graphs[s][id].destroyRequested
  /\ graphs' = [graphs EXCEPT ![s][id].destroyRequested = TRUE,
                              ![s][id].closeRequested = closeWindow]
  /\ UNCHANGED <<viewerVars, session, used, networkVars, dismissed>>

-----------------------------------------------------------------------------
(* The sender thread of a session.                                         *)

Waiting(s, id) ==
  id \in Registered(s) /\ ~graphs[s][id].isConfigAcked /\ ~graphs[s][id].closeRequested

SendConfig(s, id) ==
  /\ InSession(s) /\ Waiting(s, id)
  /\ Send(<<[type |-> "CONFIG", sender |-> s, id |-> id, theme |-> graphs[s][id].theme,
             sequence |-> graphs[s][id].sequence]>>)
  /\ UNCHANGED <<viewerVars, sessionVars, acks, losses, dismissed>>

ReceiveAck(s) ==
  /\ InSession(s) /\ acks[s] # <<>>
  /\ LET ack == Head(acks[s])
     IN graphs' = IF ack.id \in Registered(s) /\ graphs[s][ack.id].sequence = ack.sequence
                  THEN [graphs EXCEPT ![s][ack.id].isConfigAcked = TRUE] ELSE graphs
  /\ acks' = [acks EXCEPT ![s] = Tail(@)]
  /\ UNCHANGED <<viewerVars, session, used, inbox, losses, dismissed>>

Repeated(packet) == [n \in 1 .. Repetitions |-> packet]

SendGraphClose(s, id) ==
  /\ InSession(s) /\ id \in Registered(s)
  /\ graphs[s][id].isConfigAcked
  /\ graphs[s][id].closeRequested /\ ~graphs[s][id].closeSent
  /\ Send(Repeated([type |-> "GRAPH_CLOSE", sender |-> s, id |-> id]))
  /\ graphs' = [graphs EXCEPT ![s][id].closeSent = TRUE]
  /\ UNCHANGED <<viewerVars, session, used, acks, losses, dismissed>>

(* A graph that is finished and whose streams are released leaves the      *)
(* registry in a pass that finds it answered or abandoned.                 *)
FreeGraph(s, id) ==
  /\ InSession(s) /\ id \in Registered(s) /\ ~Waiting(s, id)
  /\ graphs[s][id].destroyRequested
  /\ graphs[s][id].isConfigAcked /\ graphs[s][id].closeRequested => graphs[s][id].closeSent
  /\ graphs' = [graphs EXCEPT ![s][id] = NoGraph]
  /\ UNCHANGED <<viewerVars, session, used, networkVars, dismissed>>

(* Mutant: a session with no graph left has nothing to say.                *)
EndSessionQuietly(s) ==
  /\ InSession(s)
  /\ session' = [session EXCEPT ![s] = "ended"]
  /\ graphs' = [graphs EXCEPT ![s] = [id \in GraphIds |-> NoGraph]]
  /\ Send(IF Registered(s) = {} THEN <<>>
          ELSE Repeated([type |-> "SESSION_CLOSE", sender |-> s]))
  /\ acks' = [acks EXCEPT ![s] = <<>>]
  /\ UNCHANGED <<viewerVars, used, losses, dismissed>>

(* manager_reset *)
EndSession(s) ==
  /\ InSession(s)
  /\ session' = [session EXCEPT ![s] = "ended"]
  /\ graphs' = [graphs EXCEPT ![s] = [id \in GraphIds |-> NoGraph]]
  /\ Send(Repeated([type |-> "SESSION_CLOSE", sender |-> s]))
  /\ acks' = [acks EXCEPT ![s] = <<>>]
  /\ UNCHANGED <<viewerVars, used, losses, dismissed>>

(* try_launch_viewer: some graph has waited 150 ms for its answer.         *)
LaunchViewer(s) ==
  /\ InSession(s) /\ \E id \in GraphIds : Waiting(s, id)
  /\ StartViewer
  /\ UNCHANGED <<sessionVars, networkVars, dismissed>>

-----------------------------------------------------------------------------
(* The viewer and its socket.                                              *)

Answer(packet) ==
  /\ acks' = IF InSession(packet.sender)
             THEN [acks EXCEPT ![packet.sender] =
                     Append(@, [id |-> packet.id, sequence |-> packet.sequence])]
             ELSE acks
  /\ Len(acks'[packet.sender]) <= MaxAnswers

(* Mutant: only the configuration that opens the window is answered.       *)
AnswerFirstConfig ==
  /\ inbox # <<>> /\ Head(inbox).type = "CONFIG"
  /\ LET packet == Head(inbox)
     IN \/ /\ OpenWindow(packet.sender, packet.id, packet.theme)
           /\ Answer(packet)
        \/ /\ ApplyTheme(packet.sender, packet.id, packet.theme)
           /\ UNCHANGED acks
  /\ inbox' = Tail(inbox)
  /\ UNCHANGED <<sessionVars, losses, dismissed>>

AnswerConfig ==
  /\ inbox # <<>> /\ Head(inbox).type = "CONFIG"
  /\ LET packet == Head(inbox)
     IN /\ \/ OpenWindow(packet.sender, packet.id, packet.theme)
           \/ ApplyTheme(packet.sender, packet.id, packet.theme)
        /\ Answer(packet)
  /\ inbox' = Tail(inbox)
  /\ UNCHANGED <<sessionVars, losses, dismissed>>

IgnoreConfig ==
  /\ inbox # <<>> /\ Head(inbox).type = "CONFIG"
  /\ RefuseConfig(Head(inbox).sender, Head(inbox).id)
  /\ inbox' = Tail(inbox)
  /\ UNCHANGED <<sessionVars, acks, losses, dismissed>>

ReceiveGraphClose ==
  /\ inbox # <<>> /\ Head(inbox).type = "GRAPH_CLOSE"
  /\ CloseGraph(Head(inbox).sender, Head(inbox).id)
  /\ inbox' = Tail(inbox)
  /\ UNCHANGED <<sessionVars, acks, losses, dismissed>>

ReceiveSessionClose ==
  /\ inbox # <<>> /\ Head(inbox).type = "SESSION_CLOSE"
  /\ CloseSession(Head(inbox).sender)
  /\ inbox' = Tail(inbox)
  /\ UNCHANGED <<sessionVars, acks, losses, dismissed>>

UserCloses(i) ==
  /\ DismissWindow(i)
  /\ dismissed' = dismissed \union {<<windows[i].sender, windows[i].id>>}
  /\ inbox' = IF viewer' = "off" THEN <<>> ELSE inbox
  /\ UNCHANGED <<sessionVars, acks, losses>>

(* SDL_EVENT_QUIT: the application is asked to quit with its windows open. *)
UserQuits ==
  /\ Running /\ StopViewer
  /\ dismissed' = dismissed \union {<<w.sender, w.id>> : w \in OpenWindows}
  /\ inbox' = <<>>
  /\ UNCHANGED <<sessionVars, acks, losses>>

ShutDown ==
  /\ DeadlineExpires
  /\ inbox' = <<>>
  /\ UNCHANGED <<sessionVars, acks, losses, dismissed>>

(* The socket of the viewer, or of a session, is short of room.            *)
LosePacket ==
  /\ losses < MaxLosses /\ inbox # <<>>
  /\ inbox' = Tail(inbox)
  /\ losses' = losses + 1
  /\ UNCHANGED <<viewerVars, sessionVars, acks, dismissed>>

LoseAck(s) ==
  /\ losses < MaxLosses /\ acks[s] # <<>>
  /\ acks' = [acks EXCEPT ![s] = Tail(@)]
  /\ losses' = losses + 1
  /\ UNCHANGED <<viewerVars, sessionVars, inbox, dismissed>>

-----------------------------------------------------------------------------
SessionStep(s) ==
  \/ \E id \in GraphIds :
       \/ \E theme \in FirstThemes : CreateGraph(s, id, theme)
       \/ \E theme \in Themes : ChangeTheme(s, id, theme)
       \/ \E closeWindow \in BOOLEAN : RequestDestroy(s, id, closeWindow)
       \/ SendConfig(s, id) \/ SendGraphClose(s, id) \/ FreeGraph(s, id)
  \/ ReceiveAck(s) \/ EndSession(s) \/ LaunchViewer(s)

ViewerStep ==
  AnswerConfig \/ IgnoreConfig \/ ReceiveGraphClose \/ ReceiveSessionClose \/ ShutDown

UserStep == (\E i \in Slots : UserCloses(i)) \/ UserQuits

NetworkStep == LosePacket \/ \E s \in Senders : LoseAck(s)

Over == (\A s \in Senders : session[s] = "ended") /\ inbox = <<>> /\ UNCHANGED vars

Next ==
  \/ \E s \in Senders : SessionStep(s)
  \/ ViewerStep \/ UserStep \/ NetworkStep \/ Over

Spec == Init /\ [][Next]_vars

(* The sender threads and the loop of the viewer keep running, and SDL does*)
(* not refuse windows for ever; nobody has to create a graph, change it,   *)
(* end it or close a window.                                               *)
Fairness ==
  /\ \A s \in Senders :
       /\ WF_vars(ReceiveAck(s)) /\ WF_vars(LaunchViewer(s))
       /\ \A id \in GraphIds :
            SF_vars(SendConfig(s, id)) /\ WF_vars(SendGraphClose(s, id))
  /\ WF_vars(ViewerStep) /\ SF_vars(AnswerConfig)

LiveSpec == Spec /\ Fairness

-----------------------------------------------------------------------------
(* Properties.                                                             *)

InFlight(type, s) == {packet \in Elements(inbox) : packet.type = type /\ packet.sender = s}

(* A graph has at most one window, however often its configuration was     *)
(* repeated.                                                               *)
OneWindowPerGraph ==
  \A i, j \in Ready :
    windows[i].sender = windows[j].sender /\ windows[i].id = windows[j].id => i = j

(* An answered graph is on the screen, in the theme it has now, until its  *)
(* session asks to close it or the user does: a viewer that shuts down by  *)
(* itself never takes a graph with it that counts as shown.                *)
AnsweredIsShown ==
  \A s \in Senders : \A id \in Registered(s) :
    /\ graphs[s][id].isConfigAcked /\ ~graphs[s][id].closeSent
    /\ <<s, id>> \notin dismissed
    => \E i \in FindGraph(s, id) : windows[i].theme = graphs[s][id].theme

(* A window of a session that has ended is about to be closed, unless all  *)
(* its farewells were lost.                                                *)
EndedSessionLeaves ==
  \A w \in OpenWindows : session[w.sender] = "ended" =>
    InFlight("SESSION_CLOSE", w.sender) # {} \/ losses >= Repetitions

(* Every graph lives as GraphLife says, which is what WatchRegistry makes  *)
(* of the graphs of one session.                                           *)
LifeOf(g) ==
  [sequence |-> g.sequence, isConfigAcked |-> g.isConfigAcked,
   destroyRequested |-> g.destroyRequested, closeRequested |-> g.closeRequested,
   closeSent |-> g.closeSent]
PendingOf(s, id) ==
  {sequence \in 0 .. MaxSequence :
     \/ \E p \in InFlight("CONFIG", s) : p.id = id /\ p.sequence = sequence
     \/ \E ack \in Elements(acks[s]) : ack.id = id /\ ack.sequence = sequence}

Life == INSTANCE GraphLife WITH
  Names <- Senders \X GraphIds,
  running <- [n \in Senders \X GraphIds |-> InSession(n[1])],
  registered <- [n \in Senders \X GraphIds |-> graphs[n[1]][n[2]] # NoGraph],
  life <- [n \in Senders \X GraphIds |->
             IF graphs[n[1]][n[2]] = NoGraph THEN NoGraph ELSE LifeOf(graphs[n[1]][n[2]])],
  pending <- [n \in Senders \X GraphIds |-> PendingOf(n[1], n[2])]

LifeSpec == Life!Spec

(* A graph that waits for its window gets it, as long as the user leaves   *)
(* the viewer alone, its session goes on and the table of the viewer has   *)
(* room.                                                                   *)
WaitingIsAnswered ==
  <>[][~UserStep]_vars =>
    \A s \in Senders, id \in GraphIds : Waiting(s, id) ~> ~Waiting(s, id)

(* "If no graphs remain, it waits 500 ms before terminating": when all     *)
(* sessions have ended and no window is left, the viewer ends.             *)
ViewerTerminates ==
  (/\ \A s \in Senders : session[s] = "ended"
   /\ inbox = <<>> /\ OpenWindows = {} /\ Running)
  ~> ~Running
=============================================================================
