-------------------------- MODULE WatchSystem_proofs --------------------------
(***************************************************************************)
(* Proofs about WatchSystem for any number of sessions, graphs and themes, *)
(* any size of the table of the viewer and of the sockets, any number of   *)
(* losses and of farewells: what the sender threads, the viewer and the    *)
(* user do to each other never breaks what a graph, its window and its     *)
(* session promise each other, and no graph does more than GraphLife says. *)
(* The last part is about ViewerLaunch, which is the action LaunchViewer   *)
(* in detail.                                                              *)
(*                                                                         *)
(* SystemInv is the inductive invariant. The properties are about a graph  *)
(* and its window; what connects them are the packets and the answers on   *)
(* their way between them, and most of SystemInv is about those.           *)
(***************************************************************************)
EXTENDS WatchSystem, ViewerLaunch, TLAPS

(* TypeOK, with the queues as sequences                                    *)
Packets == Configs \union GraphCloses \union SessionCloses

Typed ==
  /\ TypeOK
  /\ inbox \in Seq(Packets)
  /\ acks \in [Senders -> Seq(Acks)]

(* Without a viewer there are no windows, and nobody to send packets to.   *)
OffInv == ~Running => Ready = {} /\ inbox = <<>>

(* Registered graphs belong to running sessions, and a window to a graph   *)
(* that was created.                                                       *)
GraphInv ==
  /\ \A s \in Senders : \A id \in Registered(s) : <<s, id>> \in used /\ InSession(s)
  /\ \A i \in Ready : <<windows[i].sender, windows[i].id>> \in used

(* What a packet on its way says of its graph as it is by now: an older    *)
(* configuration has a smaller sequence.                                   *)
Timely(packet) ==
  /\ packet.type = "CONFIG" =>
       /\ <<packet.sender, packet.id>> \in used
       /\ packet.id \in Registered(packet.sender) =>
            LET graph == graphs[packet.sender][packet.id]
            IN /\ packet.sequence <= graph.sequence
               /\ packet.sequence = graph.sequence => packet.theme = graph.theme
  /\ packet.type = "GRAPH_CLOSE" =>
       /\ <<packet.sender, packet.id>> \in used
       /\ packet.id \in Registered(packet.sender) => graphs[packet.sender][packet.id].closeSent
  /\ packet.type = "SESSION_CLOSE" => ~InSession(packet.sender)

ConfigOf(packet, s, id) == packet.type = "CONFIG" /\ packet.sender = s /\ packet.id = id

(* Packets are timely, and configurations of a graph come in order.        *)
InboxInv ==
  /\ \A n \in 1 .. Len(inbox) : Timely(inbox[n])
  /\ \A m, n \in 1 .. Len(inbox) :
       /\ m < n /\ inbox[m].type = "CONFIG"
       /\ ConfigOf(inbox[n], inbox[m].sender, inbox[m].id)
       => inbox[m].sequence <= inbox[n].sequence

(* No answer is about a configuration yet to come.                         *)
AckInv ==
  \A s \in Senders : \A ack \in Elements(acks[s]) :
    /\ <<s, ack.id>> \in used
    /\ ack.id \in Registered(s) => ack.sequence <= graphs[s][ack.id].sequence

(* The viewer has answered the configuration the graph has now.            *)
Answered(s, id) ==
  \/ graphs[s][id].isConfigAcked
  \/ \E ack \in Elements(acks[s]) : ack.id = id /\ ack.sequence = graphs[s][id].sequence

(* Then the window shows it, and no older configuration is still to come   *)
(* that would take the theme back. This is AnsweredIsShown from the answer *)
(* on, not only from its arrival.                                          *)
ShownInv ==
  \A s \in Senders : \A id \in Registered(s) :
    Answered(s, id) /\ ~graphs[s][id].closeSent /\ <<s, id>> \notin dismissed =>
      /\ \E i \in FindGraph(s, id) : windows[i].theme = graphs[s][id].theme
      /\ \A n \in 1 .. Len(inbox) :
           ConfigOf(inbox[n], s, id) => inbox[n].sequence = graphs[s][id].sequence

Farewell(s) == [type |-> "SESSION_CLOSE", sender |-> s]

(* lost farewells of the session were lost; the others are in the inbox    *)
(* from place first on, after all its configurations.                      *)
Farewells(s, first, lost) ==
  /\ lost <= losses /\ first + Repetitions - lost <= Len(inbox)
  /\ \A n \in first + 1 .. first + Repetitions - lost : inbox[n] = Farewell(s)
  /\ \A n \in 1 .. Len(inbox) :
       inbox[n].sender = s => /\ inbox[n].type = "CONFIG" => n <= first
                              /\ inbox[n].type = "SESSION_CLOSE" => n > first

(* The session has a window, or a packet that will open one.               *)
Present(s) ==
  \/ \E i \in Ready : windows[i].sender = s
  \/ \E n \in 1 .. Len(inbox) : inbox[n].type = "CONFIG" /\ inbox[n].sender = s

LeaveInv ==
  \A s \in Senders : ~InSession(s) /\ Present(s) =>
    \E lost \in 0 .. Repetitions, first \in 0 .. Len(inbox) : Farewells(s, first, lost)

SystemInv ==
  /\ Typed /\ OffInv /\ GraphInv /\ OneWindowPerGraph
  /\ InboxInv /\ AckInv /\ ShownInv /\ LeaveInv

-----------------------------------------------------------------------------
(* The socket of the viewer                                                *)

(* The oldest packet leaves.                                               *)
LEMMA TailIs ==
  ASSUME NEW S, NEW q \in Seq(S), q # <<>>
  PROVE  /\ Head(q) = q[1] /\ 1 \in 1 .. Len(q) /\ Head(q) \in S
         /\ Tail(q) \in Seq(S) /\ Len(Tail(q)) = Len(q) - 1
         /\ \A n \in 1 .. Len(Tail(q)) : n + 1 \in 1 .. Len(q) /\ Tail(q)[n] = q[n + 1]
OBVIOUS

(* The packets that are sent follow those that wait.                       *)
LEMMA SentIs ==
  ASSUME Typed, NEW packets \in Seq(Packets), Send(packets)
  PROVE  /\ inbox' \in Seq(Packets)
         /\ Running => Len(inbox') = Len(inbox) + Len(packets)
         /\ ~Running => inbox' = inbox
         /\ \A n \in 1 .. Len(inbox) : n \in 1 .. Len(inbox') /\ inbox'[n] = inbox[n]
         /\ \A n \in 1 .. Len(inbox') :
              n > Len(inbox) => /\ n - Len(inbox) \in 1 .. Len(packets)
                                /\ inbox'[n] = packets[n - Len(inbox)]
<1>1. inbox \in Seq(Packets)
  BY DEF Typed
<1>2. CASE Running
  BY <1>1, <1>2 DEF Send
<1>3. CASE ~Running
  BY <1>1, <1>3 DEF Send
<1>4. QED
  BY <1>2, <1>3

(* The packet is one of three kinds, each with its fields.                 *)
LEMMA PacketKinds ==
  ASSUME NEW p \in Packets
  PROVE  /\ p.type \in {"CONFIG", "GRAPH_CLOSE", "SESSION_CLOSE"} /\ p.sender \in Senders
         /\ p.type = "CONFIG" => /\ p \in Configs /\ p.id \in GraphIds /\ p.theme \in Themes
                                 /\ p.sequence \in 0 .. MaxSequence
         /\ p.type = "GRAPH_CLOSE" => p \in GraphCloses /\ p.id \in GraphIds
         /\ p.type = "SESSION_CLOSE" => p = Farewell(p.sender)
BY DEF Packets, Configs, GraphCloses, SessionCloses, Farewell

(* The same packet, as often as it is repeated                             *)
LEMMA RepeatedIs ==
  ASSUME NEW p \in Packets
  PROVE  /\ Repeated(p) \in Seq(Packets) /\ Len(Repeated(p)) = Repetitions
         /\ \A n \in 1 .. Repetitions : Repeated(p)[n] = p
BY SystemAssumption DEF Repeated

(* What is in the inbox stays what it says, if nothing else changes but    *)
(* that the oldest packet leaves.                                          *)
LEMMA TailKeepsInbox ==
  ASSUME Typed, InboxInv, inbox # <<>>, inbox' = Tail(inbox),
         UNCHANGED <<session, graphs, used>>
  PROVE  InboxInv'
<1>1. /\ Len(inbox') = Len(inbox) - 1
      /\ \A n \in 1 .. Len(inbox') : n + 1 \in 1 .. Len(inbox) /\ inbox'[n] = inbox[n + 1]
  BY TailIs DEF Typed
<1>2. \A p : Timely(p) => Timely(p)'
  BY DEF Timely, Registered, InSession
<1>3. ASSUME NEW n \in 1 .. Len(inbox')
      PROVE  Timely(inbox[n])'
  <2>1. n + 1 \in 1 .. Len(inbox) /\ inbox'[n] = inbox[n + 1]
    BY <1>1
  <2>2. Timely(inbox[n + 1])
    BY <2>1 DEF InboxInv
  <2>3. QED
    BY <1>2, <2>1, <2>2
<1>4. ASSUME NEW m \in 1 .. Len(inbox'), NEW n \in 1 .. Len(inbox'), m < n,
             inbox'[m].type = "CONFIG", ConfigOf(inbox'[n], inbox'[m].sender, inbox'[m].id)
      PROVE  inbox'[m].sequence <= inbox'[n].sequence
  <2>1. m + 1 < n + 1
    BY <1>4
  <2>2. QED
    BY <1>1, <1>4, <2>1 DEF InboxInv
<1>5. QED
  BY <1>3, <1>4 DEF InboxInv, ConfigOf

(* Farewells concern only the windows, the sessions and the socket.        *)
LEMMA LeaveKept ==
  ASSUME LeaveInv, UNCHANGED <<windows, session, inbox, losses>>
  PROVE  LeaveInv'
<1>1. \A s : Present(s)' <=> Present(s)
  BY DEF Present, Ready, Slots
<1>2. \A s, first, lost : Farewells(s, first, lost)' <=> Farewells(s, first, lost)
  BY DEF Farewells, Farewell
<1>3. QED
  BY <1>1, <1>2 DEF LeaveInv, InSession

-----------------------------------------------------------------------------
(* Steps of one graph                                                      *)

(* The other graphs stay.                                                  *)
LEMMA OneGraphIs ==
  ASSUME Typed, NEW s \in Senders, NEW id \in GraphIds, NEW g \in Graphs \union {NoGraph},
         graphs' = [graphs EXCEPT ![s][id] = g]
  PROVE  /\ graphs' \in [Senders -> [GraphIds -> Graphs \union {NoGraph}]]
         /\ graphs'[s][id] = g
         /\ \A s2 \in Senders, id2 \in GraphIds :
              s2 # s \/ id2 # id => graphs'[s2][id2] = graphs[s2][id2]
BY DEF Typed, TypeOK

(* A registered graph is one.                                              *)
LEMMA RegisteredIs ==
  ASSUME Typed, NEW s \in Senders, NEW id \in Registered(s)
  PROVE  /\ id \in GraphIds /\ graphs[s][id] \in Graphs
         /\ graphs[s][id].sequence \in 0 .. MaxSequence
BY DEF Typed, TypeOK, Registered, Graphs

(* What packets on their way and answers may say of a graph                *)
FitsPackets(s, id, g) ==
  /\ \A n \in 1 .. Len(inbox) :
       /\ ConfigOf(inbox[n], s, id) =>
            /\ inbox[n].sequence <= g.sequence
            /\ inbox[n].sequence = g.sequence => inbox[n].theme = g.theme
       /\ inbox[n].type = "GRAPH_CLOSE" /\ inbox[n].sender = s /\ inbox[n].id = id
            => g.closeSent
  /\ \A ack \in Elements(acks[s]) : ack.id = id => ack.sequence <= g.sequence

(* What is on the screen of it, if it counts as answered                   *)
IsShown(s, id, g) ==
  /\ \E i \in FindGraph(s, id) : windows[i].theme = g.theme
  /\ \A n \in 1 .. Len(inbox) : ConfigOf(inbox[n], s, id) => inbox[n].sequence = g.sequence

GraphAnswered(s, id, g) ==
  g.isConfigAcked \/ \E ack \in Elements(acks[s]) : ack.id = id /\ ack.sequence = g.sequence

(* A graph changes, and answers may leave their socket.                    *)
LEMMA GraphStep ==
  ASSUME SystemInv, NEW s \in Senders, NEW id \in GraphIds,
         NEW g \in Graphs \union {NoGraph}, InSession(s),
         graphs' = [graphs EXCEPT ![s][id] = g],
         used' = used \union {<<s, id>>},
         acks' \in [Senders -> Seq(Acks)],
         \A x \in Senders : Elements(acks'[x]) \subseteq Elements(acks[x]),
         UNCHANGED <<viewerVars, session, inbox, losses, dismissed>>,
         g # NoGraph => /\ FitsPackets(s, id, g)
                        /\ GraphAnswered(s, id, g) /\ ~g.closeSent /\ <<s, id>> \notin dismissed
                             => IsShown(s, id, g)
  PROVE  SystemInv'
<1>1. /\ graphs' \in [Senders -> [GraphIds -> Graphs \union {NoGraph}]]
      /\ graphs'[s][id] = g
      /\ \A s2 \in Senders, id2 \in GraphIds :
           s2 # s \/ id2 # id => graphs'[s2][id2] = graphs[s2][id2]
  BY OneGraphIs DEF SystemInv
<1>2. \A s2 \in Senders, id2 \in GraphIds :
        id2 \in Registered(s2)' => \/ s2 = s /\ id2 = id /\ g # NoGraph
                                   \/ /\ s2 # s \/ id2 # id
                                      /\ id2 \in Registered(s2)
                                      /\ graphs'[s2][id2] = graphs[s2][id2]
  BY <1>1 DEF Registered
<1>3. \A s2 : Registered(s2)' \subseteq GraphIds
  BY DEF Registered
<1>4. Typed'
  <2>1. ViewerTypeOK'
    BY DEF SystemInv, Typed, TypeOK, ViewerTypeOK, viewerVars, Windows, Slots
  <2>2. \A x \in Senders : Elements(acks[x])' \subseteq Acks
    BY DEF SystemInv, Typed, TypeOK, Elements
  <2>3. used' \subseteq Senders \X GraphIds /\ dismissed' \subseteq used'
    BY DEF SystemInv, Typed, TypeOK
  <2>4. (Elements(inbox) \subseteq Configs \union GraphCloses \union SessionCloses)'
    BY DEF SystemInv, Typed, TypeOK, Elements
  <2>5. QED
    BY <1>1, <2>1, <2>2, <2>3, <2>4 DEF SystemInv, Typed, TypeOK
<1>5. OffInv' /\ OneWindowPerGraph'
  BY DEF SystemInv, OffInv, OneWindowPerGraph, viewerVars, Running, Ready, Slots
<1>6. GraphInv'
  BY <1>2, <1>3 DEF SystemInv, GraphInv, viewerVars, Ready, Slots, InSession
<1>7. InboxInv'
  <2>1. ASSUME NEW n \in 1 .. Len(inbox)
        PROVE  Timely(inbox[n])'
    <3> DEFINE p == inbox[n]
    <3>1. p \in Packets /\ Timely(p)
      BY DEF SystemInv, Typed, InboxInv
    <3>2. p.sender \in Senders
      BY <3>1, PacketKinds
    <3>3. CASE p.type = "CONFIG"
      <4> SUFFICES ASSUME p.id \in Registered(p.sender)'
                   PROVE  /\ p.sequence <= graphs'[p.sender][p.id].sequence
                          /\ p.sequence = graphs'[p.sender][p.id].sequence
                               => p.theme = graphs'[p.sender][p.id].theme
        BY <3>1, <3>3 DEF Timely
      <4>1. CASE p.sender = s /\ p.id = id
        <5>1. ConfigOf(p, s, id) /\ g # NoGraph /\ graphs'[p.sender][p.id] = g
          BY <1>1, <1>2, <1>3, <3>2, <3>3, <4>1 DEF ConfigOf
        <5>2. QED
          BY <5>1 DEF FitsPackets
      <4>2. CASE ~(p.sender = s /\ p.id = id)
        <5>1. /\ p.id \in Registered(p.sender)
              /\ graphs'[p.sender][p.id] = graphs[p.sender][p.id]
          BY <1>2, <1>3, <3>2, <4>2
        <5>2. QED
          BY <3>1, <3>3, <5>1 DEF Timely
      <4>3. QED
        BY <4>1, <4>2
    <3>4. CASE p.type = "GRAPH_CLOSE"
      <4> SUFFICES ASSUME p.id \in Registered(p.sender)'
                   PROVE  graphs'[p.sender][p.id].closeSent
        BY <3>1, <3>4 DEF Timely
      <4>1. CASE p.sender = s /\ p.id = id
        <5>1. g # NoGraph /\ graphs'[p.sender][p.id] = g
          BY <1>1, <1>2, <1>3, <3>2, <4>1
        <5>2. QED
          BY <3>4, <4>1, <5>1 DEF FitsPackets
      <4>2. CASE ~(p.sender = s /\ p.id = id)
        <5>1. /\ p.id \in Registered(p.sender)
              /\ graphs'[p.sender][p.id] = graphs[p.sender][p.id]
          BY <1>2, <1>3, <3>2, <4>2
        <5>2. QED
          BY <3>1, <3>4, <5>1 DEF Timely
      <4>3. QED
        BY <4>1, <4>2
    <3>5. CASE p.type = "SESSION_CLOSE"
      BY <3>1, <3>2, <3>5 DEF Timely, InSession
    <3>6. QED
      BY <3>1, <3>3, <3>4, <3>5, PacketKinds
  <2>2. QED
    BY <2>1 DEF SystemInv, InboxInv, ConfigOf
<1>8. AckInv'
  <2> SUFFICES ASSUME NEW x \in Senders, NEW ack \in Elements(acks'[x])
               PROVE  /\ <<x, ack.id>> \in used'
                      /\ ack.id \in Registered(x)' => ack.sequence <= graphs'[x][ack.id].sequence
    BY DEF AckInv, Elements
  <2>1. /\ ack \in Elements(acks[x]) /\ <<x, ack.id>> \in used
        /\ ack.id \in Registered(x) => ack.sequence <= graphs[x][ack.id].sequence
    BY DEF SystemInv, AckInv
  <2>2. ASSUME ack.id \in Registered(x)'
        PROVE  ack.sequence <= graphs'[x][ack.id].sequence
    <3>1. CASE x = s /\ ack.id = id
      BY <1>1, <1>2, <1>3, <2>1, <2>2, <3>1 DEF FitsPackets
    <3>2. CASE ~(x = s /\ ack.id = id)
      BY <1>2, <1>3, <2>1, <2>2, <3>2
    <3>3. QED
      BY <3>1, <3>2
  <2>3. QED
    BY <2>1, <2>2
<1>9. ShownInv'
  <2> SUFFICES ASSUME NEW s2 \in Senders, NEW id2 \in Registered(s2)',
                      Answered(s2, id2)', ~graphs'[s2][id2].closeSent,
                      <<s2, id2>> \notin dismissed
               PROVE  IsShown(s2, id2, graphs[s2][id2])'
    BY DEF ShownInv, IsShown
  <2>1. \A x, y, h : IsShown(x, y, h) => IsShown(x, y, h)'
    BY DEF IsShown, FindGraph, Ready, Slots, viewerVars, ConfigOf
  <2>2. GraphAnswered(s2, id2, graphs'[s2][id2])
    <3>1. Elements(acks'[s2]) \subseteq Elements(acks[s2])
      OBVIOUS
    <3>2. QED
      BY <3>1 DEF Answered, GraphAnswered, Elements
  <2>3. IsShown(s2, id2, graphs'[s2][id2])
    <3>1. CASE s2 = s /\ id2 = id
      BY <1>1, <1>2, <1>3, <2>2, <3>1
    <3>2. CASE ~(s2 = s /\ id2 = id)
      <4>1. id2 \in Registered(s2) /\ graphs'[s2][id2] = graphs[s2][id2]
        BY <1>2, <1>3, <3>2
      <4>2. Answered(s2, id2) /\ ~graphs[s2][id2].closeSent
        BY <2>2, <4>1 DEF Answered, GraphAnswered
      <4>3. QED
        BY <4>1, <4>2 DEF SystemInv, ShownInv, IsShown
    <3>3. QED
      BY <3>1, <3>2
  <2>4. QED
    BY <2>1, <2>3
<1>10. LeaveInv'
  BY LeaveKept DEF SystemInv, viewerVars
<1>11. QED
  BY <1>4, <1>5, <1>6, <1>7, <1>8, <1>9, <1>10 DEF SystemInv

(* A new graph: no packet and no answer mentions it yet.                   *)
LEMMA CreateKeeps ==
  ASSUME SystemInv, NEW s \in Senders, NEW id \in GraphIds, NEW theme \in FirstThemes,
         CreateGraph(s, id, theme)
  PROVE  SystemInv'
<1> DEFINE g == [theme |-> theme, sequence |-> 0, isConfigAcked |-> FALSE,
                 destroyRequested |-> FALSE, closeRequested |-> FALSE, closeSent |-> FALSE]
<1>1. g \in Graphs
  BY SystemAssumption DEF Graphs
<1>2. <<s, id>> \notin used
  BY DEF CreateGraph
<1>3. FitsPackets(s, id, g)
  <2>1. ASSUME NEW n \in 1 .. Len(inbox), inbox[n].type \in {"CONFIG", "GRAPH_CLOSE"}
        PROVE  ~(inbox[n].sender = s /\ inbox[n].id = id)
    BY <1>2, <2>1 DEF SystemInv, InboxInv, Timely
  <2>2. \A ack \in Elements(acks[s]) : ack.id # id
    BY <1>2 DEF SystemInv, AckInv
  <2>3. QED
    BY <2>1, <2>2 DEF FitsPackets, ConfigOf
<1>4. ~GraphAnswered(s, id, g)
  BY <1>2 DEF GraphAnswered, SystemInv, AckInv
<1>5. /\ graphs' = [graphs EXCEPT ![s][id] = g] /\ used' = used \union {<<s, id>>}
      /\ InSession(s)
      /\ UNCHANGED <<viewerVars, session, inbox, losses, dismissed>> /\ UNCHANGED acks
  BY DEF CreateGraph, networkVars
<1>6. acks \in [Senders -> Seq(Acks)]
  BY DEF SystemInv, Typed
<1> HIDE DEF g
<1>7. QED
  BY <1>1, <1>3, <1>4, <1>5, <1>6, GraphStep

(* What is known of a registered graph, in the terms of GraphStep          *)
LEMMA RegisteredFits ==
  ASSUME SystemInv, NEW s \in Senders, NEW id \in Registered(s)
  PROVE  /\ FitsPackets(s, id, graphs[s][id])
         /\ /\ GraphAnswered(s, id, graphs[s][id]) /\ ~graphs[s][id].closeSent
            /\ <<s, id>> \notin dismissed
            => IsShown(s, id, graphs[s][id])
         /\ <<s, id>> \in used /\ used = used \union {<<s, id>>}
<1>1. /\ id \in GraphIds /\ <<s, id>> \in used
  BY DEF SystemInv, GraphInv, Registered
<1>2. FitsPackets(s, id, graphs[s][id])
  BY DEF SystemInv, InboxInv, Timely, AckInv, FitsPackets, ConfigOf
<1>3. GraphAnswered(s, id, graphs[s][id]) => Answered(s, id)
  BY DEF GraphAnswered, Answered
<1>4. QED
  BY <1>1, <1>2, <1>3 DEF SystemInv, ShownInv, IsShown

(* A new theme has a new sequence: nothing on its way has it, and nobody   *)
(* has answered it.                                                        *)
LEMMA ThemeRequestKeeps ==
  ASSUME SystemInv, NEW s \in Senders, NEW id \in GraphIds, NEW theme \in Themes,
         ChangeTheme(s, id, theme)
  PROVE  SystemInv'
<1> DEFINE old == graphs[s][id]
           g == [old EXCEPT !.theme = theme, !.sequence = old.sequence + 1,
                            !.isConfigAcked = FALSE]
<1>1. id \in Registered(s) /\ old \in Graphs /\ old.sequence < MaxSequence
  BY RegisteredIs DEF ChangeTheme, SystemInv
<1>2. /\ g \in Graphs /\ g.sequence = old.sequence + 1 /\ old.sequence \in Nat
      /\ ~g.isConfigAcked /\ g.closeSent = old.closeSent
  <2>1. old.sequence \in 0 .. MaxSequence
    BY <1>1 DEF Graphs
  <2>2. old.sequence + 1 \in 0 .. MaxSequence /\ old.sequence \in Nat
    BY <1>1, <2>1, SystemAssumption
  <2> HIDE DEF old
  <2>3. QED
    BY <1>1, <2>2 DEF Graphs
<1>3. graphs' = [graphs EXCEPT ![s][id] = g]
  BY <1>1 DEF ChangeTheme, SystemInv, Typed, TypeOK, Graphs
<1>4. acks \in [Senders -> Seq(Acks)] /\ inbox \in Seq(Packets)
  BY DEF SystemInv, Typed
<1>5. FitsPackets(s, id, old)
  BY <1>1, RegisteredFits
<1>6. FitsPackets(s, id, g)
  <2>1. ASSUME NEW n \in 1 .. Len(inbox), ConfigOf(inbox[n], s, id)
        PROVE  inbox[n].sequence <= g.sequence /\ inbox[n].sequence # g.sequence
    <3>1. inbox[n].sequence \in Nat
      BY <1>4, <2>1, PacketKinds DEF ConfigOf
    <3>2. inbox[n].sequence <= old.sequence
      BY <1>5, <2>1 DEF FitsPackets
    <3>3. QED
      BY <1>2, <3>1, <3>2
  <2>2. ASSUME NEW ack \in Elements(acks[s]), ack.id = id
        PROVE  ack.sequence <= g.sequence
    <3>1. ack.sequence \in Nat
      BY DEF SystemInv, Typed, TypeOK, Acks
    <3>2. ack.sequence <= old.sequence
      BY <1>5, <2>2 DEF FitsPackets
    <3>3. QED
      BY <1>2, <3>1, <3>2
  <2>3. QED
    BY <1>2, <1>5, <2>1, <2>2 DEF FitsPackets
<1>7. ~GraphAnswered(s, id, g)
  <2>1. ASSUME NEW ack \in Elements(acks[s]), ack.id = id
        PROVE  ack.sequence # g.sequence
    <3>1. ack.sequence \in Nat
      BY DEF SystemInv, Typed, TypeOK, Acks
    <3>2. ack.sequence <= old.sequence
      BY <1>5, <2>1 DEF FitsPackets
    <3>3. QED
      BY <1>2, <3>1, <3>2
  <2>2. QED
    BY <1>2, <2>1 DEF GraphAnswered
<1>8. /\ InSession(s) /\ used' = used \union {<<s, id>>}
      /\ UNCHANGED <<viewerVars, session, inbox, losses, dismissed>> /\ UNCHANGED acks
  BY <1>1, RegisteredFits DEF ChangeTheme, networkVars
<1> HIDE DEF g
<1>9. QED
  BY <1>2, <1>3, <1>4, <1>6, <1>7, <1>8, GraphStep

(* The request to end a graph changes nothing the viewer knows of.         *)
LEMMA DestroyRequestKeeps ==
  ASSUME SystemInv, NEW s \in Senders, NEW id \in GraphIds, NEW closeWindow \in BOOLEAN,
         RequestDestroy(s, id, closeWindow)
  PROVE  SystemInv'
<1> DEFINE old == graphs[s][id]
           g == [old EXCEPT !.destroyRequested = TRUE, !.closeRequested = closeWindow]
<1>1. id \in Registered(s) /\ old \in Graphs
  BY RegisteredIs DEF RequestDestroy, SystemInv
<1>2. /\ g \in Graphs /\ g.sequence = old.sequence /\ g.theme = old.theme
      /\ g.isConfigAcked = old.isConfigAcked /\ g.closeSent = old.closeSent
  BY <1>1 DEF Graphs
<1>3. graphs' = [graphs EXCEPT ![s][id] = g]
  BY <1>1 DEF RequestDestroy, SystemInv, Typed, TypeOK, Graphs
<1>4. acks \in [Senders -> Seq(Acks)]
  BY DEF SystemInv, Typed
<1>5. /\ FitsPackets(s, id, g)
      /\ GraphAnswered(s, id, g) /\ ~g.closeSent /\ <<s, id>> \notin dismissed
           => IsShown(s, id, g)
  BY <1>1, <1>2, RegisteredFits DEF FitsPackets, GraphAnswered, IsShown
<1>6. /\ InSession(s) /\ used' = used \union {<<s, id>>}
      /\ UNCHANGED <<viewerVars, session, inbox, losses, dismissed>> /\ UNCHANGED acks
  BY <1>1, RegisteredFits DEF RequestDestroy, networkVars
<1> HIDE DEF g
<1>7. QED
  BY <1>2, <1>3, <1>4, <1>5, <1>6, GraphStep

(* A graph that is gone has nothing to show.                               *)
LEMMA FreeKeeps ==
  ASSUME SystemInv, NEW s \in Senders, NEW id \in GraphIds, FreeGraph(s, id)
  PROVE  SystemInv'
<1>1. acks \in [Senders -> Seq(Acks)]
  BY DEF SystemInv, Typed
<1>2. /\ InSession(s) /\ used' = used \union {<<s, id>>}
      /\ graphs' = [graphs EXCEPT ![s][id] = NoGraph]
      /\ UNCHANGED <<viewerVars, session, inbox, losses, dismissed>> /\ UNCHANGED acks
  BY RegisteredFits DEF FreeGraph, networkVars
<1>3. QED
  BY <1>1, <1>2, GraphStep

(* The answers that are left                                               *)
LEMMA FewerAnswers ==
  ASSUME Typed, NEW s \in Senders, acks[s] # <<>>, acks' = [acks EXCEPT ![s] = Tail(@)]
  PROVE  /\ acks' \in [Senders -> Seq(Acks)]
         /\ \A x \in Senders : Elements(acks'[x]) \subseteq Elements(acks[x])
         /\ Head(acks[s]) \in Elements(acks[s])
<1>1. acks[s] \in Seq(Acks) /\ acks \in [Senders -> Seq(Acks)]
  BY DEF Typed
<1>2. /\ Head(acks[s]) = acks[s][1] /\ 1 \in 1 .. Len(acks[s]) /\ Tail(acks[s]) \in Seq(Acks)
      /\ \A n \in 1 .. Len(Tail(acks[s])) :
           n + 1 \in 1 .. Len(acks[s]) /\ Tail(acks[s])[n] = acks[s][n + 1]
  BY <1>1, TailIs
<1>3. Elements(Tail(acks[s])) \subseteq Elements(acks[s])
  BY <1>2 DEF Elements
<1>4. QED
  BY <1>1, <1>2, <1>3 DEF Elements

(* An answer to the configuration the graph has now counts.                *)
LEMMA AckKeeps ==
  ASSUME SystemInv, NEW s \in Senders, ReceiveAck(s)
  PROVE  SystemInv'
<1> DEFINE ack == Head(acks[s])
           counts == ack.id \in Registered(s) /\ graphs[s][ack.id].sequence = ack.sequence
           g == [graphs[s][ack.id] EXCEPT !.isConfigAcked = TRUE]
<1>1. /\ acks' \in [Senders -> Seq(Acks)]
      /\ \A x \in Senders : Elements(acks'[x]) \subseteq Elements(acks[x])
      /\ ack \in Elements(acks[s])
  BY FewerAnswers DEF SystemInv, ReceiveAck
<1>2. /\ ack.id \in GraphIds /\ <<s, ack.id>> \in used
      /\ used = used \union {<<s, ack.id>>} /\ InSession(s)
      /\ UNCHANGED <<viewerVars, session, used, inbox, losses, dismissed>>
  BY <1>1 DEF SystemInv, Typed, TypeOK, AckInv, ReceiveAck, Acks
<1>3. CASE counts
  <2>1. graphs[s][ack.id] \in Graphs
    BY <1>3, RegisteredIs DEF SystemInv
  <2>2. /\ g \in Graphs /\ g.sequence = graphs[s][ack.id].sequence
        /\ g.theme = graphs[s][ack.id].theme /\ g.closeSent = graphs[s][ack.id].closeSent
    BY <2>1 DEF Graphs
  <2>3. graphs' = [graphs EXCEPT ![s][ack.id] = g]
    BY <1>2, <1>3 DEF ReceiveAck, SystemInv, Typed, TypeOK
  <2>4. GraphAnswered(s, ack.id, graphs[s][ack.id])
    BY <1>1, <1>3 DEF GraphAnswered
  <2>5. /\ FitsPackets(s, ack.id, g)
        /\ ~g.closeSent /\ <<s, ack.id>> \notin dismissed => IsShown(s, ack.id, g)
    <3>1. /\ FitsPackets(s, ack.id, graphs[s][ack.id])
          /\ ~graphs[s][ack.id].closeSent /\ <<s, ack.id>> \notin dismissed
               => IsShown(s, ack.id, graphs[s][ack.id])
      BY <1>3, <2>4, RegisteredFits
    <3> HIDE DEF g, ack
    <3>2. QED
      BY <2>2, <3>1 DEF FitsPackets, IsShown
  <2> HIDE DEF g, ack
  <2>6. QED
    BY <1>1, <1>2, <2>2, <2>3, <2>5, GraphStep
<1>4. CASE ~counts
  <2>1. graphs' = graphs
    BY <1>4 DEF ReceiveAck
  <2>2. graphs' = [graphs EXCEPT ![s][ack.id] = graphs[s][ack.id]]
    BY <1>2, <2>1 DEF SystemInv, Typed, TypeOK
  <2>3. graphs[s][ack.id] \in Graphs \union {NoGraph}
    BY <1>2 DEF SystemInv, Typed, TypeOK
  <2>4. graphs[s][ack.id] # NoGraph => ack.id \in Registered(s)
    BY <1>2 DEF Registered
  <2> HIDE DEF ack
  <2>5. QED
    BY <1>1, <1>2, <2>2, <2>3, <2>4, RegisteredFits, GraphStep
<1>5. QED
  BY <1>3, <1>4

-----------------------------------------------------------------------------
(* Steps of the viewer and of the network                                  *)

(* A packet leaves the socket: unless a farewell is received, the session  *)
(* that is still present has as many farewells on their way or lost as     *)
(* before.                                                                 *)
LEMMA LeaveStep ==
  ASSUME Typed, LeaveInv, UNCHANGED session, losses' \in {losses, losses + 1},
         inbox' = inbox \/ (inbox # <<>> /\ inbox' = Tail(inbox)),
         \A s \in Senders : ~InSession(s) /\ Present(s)' =>
           /\ Present(s)
           /\ inbox' = inbox \/ Head(inbox) # Farewell(s) \/ losses' = losses + 1
  PROVE  LeaveInv'
<1> SUFFICES ASSUME NEW s \in Senders, ~InSession(s), Present(s)'
             PROVE  \E lost \in 0 .. Repetitions, first \in 0 .. Len(inbox') :
                      Farewells(s, first, lost)'
  BY DEF LeaveInv, InSession
<1>1. /\ inbox \in Seq(Packets) /\ losses \in Nat /\ Repetitions \in Nat \ {0}
      /\ losses' \in Nat /\ losses <= losses'
  BY SystemAssumption DEF Typed, TypeOK
<1>2. PICK lost \in 0 .. Repetitions, first \in 0 .. Len(inbox) : Farewells(s, first, lost)
  BY DEF LeaveInv
<1>3. CASE inbox' = inbox
  <2>1. Farewells(s, first, lost)'
    BY <1>1, <1>2, <1>3 DEF Farewells, Farewell
  <2>2. QED
    BY <1>3, <2>1
<1>4. CASE inbox # <<>> /\ inbox' = Tail(inbox)
  <2>1. /\ Head(inbox) = inbox[1] /\ Len(inbox') = Len(inbox) - 1 /\ Len(inbox) \in Nat
        /\ 1 \in 1 .. Len(inbox)
        /\ \A n \in 1 .. Len(inbox') : n + 1 \in 1 .. Len(inbox) /\ inbox'[n] = inbox[n + 1]
    BY <1>1, <1>4, TailIs
  <2>2. CASE first > 0
    <3>1. first - 1 \in 0 .. Len(inbox')
      BY <2>1, <2>2
    <3>2. Farewells(s, first - 1, lost)'
      <4>1. lost <= losses' /\ (first - 1) + Repetitions - lost <= Len(inbox')
        BY <1>1, <1>2, <2>1 DEF Farewells
      <4>2. ASSUME NEW n \in (first - 1) + 1 .. (first - 1) + Repetitions - lost
            PROVE  inbox'[n] = Farewell(s)
        <5>1. n + 1 \in first + 1 .. first + Repetitions - lost /\ n \in 1 .. Len(inbox')
          BY <1>1, <2>2, <4>1
        <5>2. QED
          BY <1>2, <2>1, <5>1 DEF Farewells
      <4>3. ASSUME NEW n \in 1 .. Len(inbox'), inbox'[n].sender = s
            PROVE  /\ inbox'[n].type = "CONFIG" => n <= first - 1
                   /\ inbox'[n].type = "SESSION_CLOSE" => n > first - 1
        <5>1. /\ n + 1 \in 1 .. Len(inbox) /\ inbox'[n] = inbox[n + 1]
          BY <2>1
        <5>2. /\ inbox[n + 1].type = "CONFIG" => n + 1 <= first
              /\ inbox[n + 1].type = "SESSION_CLOSE" => n + 1 > first
          BY <1>2, <4>3, <5>1 DEF Farewells
        <5>3. QED
          BY <5>1, <5>2
      <4>4. QED
        BY <4>1, <4>2, <4>3 DEF Farewells, Farewell
    <3>3. QED
      BY <3>1, <3>2
  <2>3. CASE first = 0 /\ lost = Repetitions
    <3>1. Farewells(s, 0, lost)'
      <4>1. ASSUME NEW n \in 1 .. Len(inbox'), inbox'[n].sender = s
            PROVE  inbox'[n].type # "CONFIG"
        <5>1. n + 1 \in 1 .. Len(inbox) /\ inbox'[n] = inbox[n + 1] /\ n + 1 > 0
          BY <2>1
        <5>2. QED
          BY <1>2, <2>3, <4>1, <5>1 DEF Farewells
      <4>2. lost <= losses' /\ 0 + Repetitions - lost <= Len(inbox')
        BY <1>1, <1>2, <2>1, <2>3 DEF Farewells
      <4>3. QED
        BY <1>1, <2>3, <4>1, <4>2 DEF Farewells
    <3>2. QED
      BY <2>1, <3>1
  <2>4. CASE first = 0 /\ lost < Repetitions
    <3>1. Head(inbox) = Farewell(s)
      BY <1>1, <1>2, <2>1, <2>4 DEF Farewells
    <3>2. losses' = losses + 1
      <4>1. inbox' # inbox
        BY <2>1
      <4>2. inbox' = inbox \/ Head(inbox) # Farewell(s) \/ losses' = losses + 1
        OBVIOUS
      <4>3. QED
        BY <3>1, <4>1, <4>2
    <3>3. lost + 1 \in 0 .. Repetitions /\ 0 \in 0 .. Len(inbox')
      BY <1>1, <2>1, <2>4
    <3>4. Farewells(s, 0, lost + 1)'
      <4>1. lost + 1 <= losses' /\ 0 + Repetitions - (lost + 1) <= Len(inbox')
        BY <1>1, <1>2, <2>1, <2>4, <3>2 DEF Farewells
      <4>2. ASSUME NEW n \in 0 + 1 .. 0 + Repetitions - (lost + 1)
            PROVE  inbox'[n] = Farewell(s)
        <5>1. n + 1 \in first + 1 .. first + Repetitions - lost /\ n \in 1 .. Len(inbox')
          BY <1>1, <2>4, <4>1
        <5>2. QED
          BY <1>2, <2>1, <5>1 DEF Farewells
      <4>3. ASSUME NEW n \in 1 .. Len(inbox'), inbox'[n].sender = s
            PROVE  inbox'[n].type # "CONFIG"
        <5>1. n + 1 \in 1 .. Len(inbox) /\ inbox'[n] = inbox[n + 1] /\ n + 1 > 0
          BY <2>1
        <5>2. QED
          BY <1>2, <2>4, <4>3, <5>1 DEF Farewells
      <4>4. QED
        BY <4>1, <4>2, <4>3 DEF Farewells, Farewell
    <3>5. QED
      BY <3>3, <3>4
  <2>5. QED
    BY <1>1, <2>2, <2>3, <2>4
<1>5. QED
  BY <1>3, <1>4

(* What stays of the table when windows go                                 *)
LEMMA DestroyIs ==
  ASSUME Typed, NEW gone, Destroy(gone)
  PROVE  /\ windows' \in [Slots -> Windows \union {NoWindow}]
         /\ Ready' = Ready \ gone
         /\ \A i \in Ready' : windows'[i] = windows[i]
BY DEF Typed, TypeOK, ViewerTypeOK, Destroy, Ready, Slots

(* Windows go, and a packet leaves the socket or all do. What goes was     *)
(* closed by the user, by its graph or by its session, or no graph counts  *)
(* as answered.                                                            *)
LEMMA WindowStep ==
  ASSUME SystemInv, UNCHANGED <<sessionVars, acks>>, NEW gone,
         \/ inbox' = inbox \/ (inbox # <<>> /\ inbox' = Tail(inbox))
         \/ inbox' = <<>>,
         Destroy(gone),
         viewer' \in {"off", "running"}, shutdownDeadline' \in {"none", "armed"},
         losses' \in 0 .. MaxLosses, dismissed' \subseteq used, dismissed \subseteq dismissed',
         ~Running' => Ready' = {} /\ inbox' = <<>>,
         \A i \in Ready \intersect gone :
           \/ <<windows[i].sender, windows[i].id>> \in dismissed'
           \/ windows[i].id \notin Registered(windows[i].sender)
           \/ graphs[windows[i].sender][windows[i].id].closeSent,
         LeaveInv'
  PROVE  SystemInv'
<1>1. /\ windows' \in [Slots -> Windows \union {NoWindow}]
      /\ Ready' = Ready \ gone
      /\ \A i \in Ready' : windows'[i] = windows[i]
  BY DestroyIs DEF SystemInv
<1>2. /\ inbox' \in Seq(Packets)
      /\ \/ inbox' = inbox \/ (inbox # <<>> /\ inbox' = Tail(inbox))
         \/ inbox' = <<>> /\ Len(inbox') = 0
  <2>1. inbox \in Seq(Packets)
    BY DEF SystemInv, Typed
  <2>2. CASE inbox # <<>> /\ inbox' = Tail(inbox)
    BY <2>1, <2>2, TailIs
  <2>3. CASE inbox' = inbox
    BY <2>1, <2>3
  <2>4. CASE inbox' = <<>>
    BY <2>4
  <2>5. QED
    BY <2>2, <2>3, <2>4
<1>3. /\ \A n \in 1 .. Len(inbox') : \E m \in 1 .. Len(inbox) : inbox'[n] = inbox[m]
  <2>1. inbox \in Seq(Packets)
    BY DEF SystemInv, Typed
  <2>2. CASE inbox # <<>> /\ inbox' = Tail(inbox)
    BY <2>1, <2>2, TailIs
  <2>3. CASE Len(inbox') = 0
    BY <2>3
  <2>4. QED
    BY <1>2, <2>2, <2>3
<1>4. Typed'
  <2>1. ViewerTypeOK'
    BY <1>1 DEF ViewerTypeOK, Slots, Windows
  <2>2. (Elements(inbox) \subseteq Configs \union GraphCloses \union SessionCloses)'
    BY <1>2 DEF Elements, Packets
  <2>3. (\A s \in Senders : Elements(acks[s]) \subseteq Acks)'
    BY DEF SystemInv, Typed, TypeOK, Elements
  <2>4. QED
    BY <1>2, <2>1, <2>2, <2>3 DEF SystemInv, Typed, TypeOK, sessionVars
<1>5. OffInv'
  BY DEF OffInv
<1>6. OneWindowPerGraph'
  BY <1>1 DEF SystemInv, OneWindowPerGraph
<1>7. \A s : Registered(s)' = Registered(s)
  BY DEF Registered, sessionVars
<1>8. GraphInv'
  BY <1>1, <1>7 DEF SystemInv, GraphInv, sessionVars, InSession
<1>9. InboxInv'
  <2>1. CASE inbox' = inbox
    <3>1. \A p : Timely(p) => Timely(p)'
      BY <1>7 DEF Timely, sessionVars, InSession
    <3>2. \A n \in 1 .. Len(inbox) : Timely(inbox[n])
      BY DEF SystemInv, InboxInv
    <3>3. ASSUME NEW n \in 1 .. Len(inbox')
          PROVE  Timely(inbox[n])'
      BY <2>1, <3>1, <3>2
    <3>4. QED
      BY <2>1, <3>3 DEF SystemInv, InboxInv, ConfigOf
  <2>2. CASE inbox # <<>> /\ inbox' = Tail(inbox)
    BY <2>2, TailKeepsInbox DEF SystemInv, sessionVars
  <2>3. CASE Len(inbox') = 0
    BY <2>3 DEF InboxInv
  <2>4. QED
    BY <1>2, <2>1, <2>2, <2>3
<1>10. AckInv'
  BY <1>7 DEF SystemInv, AckInv, sessionVars, Elements
<1>11. ShownInv'
  <2> SUFFICES ASSUME NEW s \in Senders, NEW id \in Registered(s)', Answered(s, id)',
                      ~graphs'[s][id].closeSent, <<s, id>> \notin dismissed'
               PROVE  /\ (\E i \in FindGraph(s, id) : windows[i].theme = graphs[s][id].theme)'
                      /\ \A n \in 1 .. Len(inbox') :
                           ConfigOf(inbox'[n], s, id)
                             => inbox'[n].sequence = graphs'[s][id].sequence
    BY DEF ShownInv, ConfigOf
  <2>1. /\ id \in Registered(s) /\ Answered(s, id) /\ ~graphs[s][id].closeSent
        /\ <<s, id>> \notin dismissed /\ graphs' = graphs
    BY <1>7 DEF Answered, sessionVars, Elements
  <2>2. PICK i \in FindGraph(s, id) : windows[i].theme = graphs[s][id].theme
    BY <2>1 DEF SystemInv, ShownInv
  <2>3. /\ i \in Ready /\ windows[i].sender = s /\ windows[i].id = id
    BY DEF FindGraph
  <2>4. i \in Ready' /\ windows'[i] = windows[i]
    BY <1>1, <2>1, <2>3
  <2>5. i \in FindGraph(s, id)'
    BY <2>3, <2>4 DEF FindGraph
  <2>6. ASSUME NEW n \in 1 .. Len(inbox'), ConfigOf(inbox'[n], s, id)
        PROVE  inbox'[n].sequence = graphs[s][id].sequence
    <3>1. PICK m \in 1 .. Len(inbox) : inbox'[n] = inbox[m]
      BY <1>3
    <3>2. QED
      BY <2>1, <2>6, <3>1 DEF SystemInv, ShownInv
  <2>7. QED
    BY <2>1, <2>2, <2>4, <2>5, <2>6
<1>12. QED
  BY <1>4, <1>5, <1>6, <1>8, <1>9, <1>10, <1>11 DEF SystemInv

(* No window goes.                                                         *)
LEMMA KeepsWindows ==
  ASSUME Typed, UNCHANGED windows
  PROVE  Destroy({}) /\ Ready' = Ready
BY DEF Typed, TypeOK, ViewerTypeOK, Destroy, Ready, Slots

(* With nobody there nothing can be dropped, and a viewer that starts has  *)
(* no windows, as before.                                                  *)
LEMMA LaunchKeeps ==
  ASSUME SystemInv, NEW s \in Senders, LaunchViewer(s)
  PROVE  SystemInv'
<1>1. /\ ~Running /\ Ready = {} /\ inbox = <<>> /\ UNCHANGED <<sessionVars, networkVars, dismissed>>
      /\ windows' = [i \in Slots |-> NoWindow] /\ viewer' = "running"
      /\ shutdownDeadline' = "none"
  BY DEF LaunchViewer, StartViewer, SystemInv, OffInv
<1>2. windows' = windows
  BY <1>1 DEF Ready, SystemInv, Typed, TypeOK, ViewerTypeOK
<1>3. Destroy({}) /\ Ready' = Ready
  BY <1>2, KeepsWindows DEF SystemInv
<1>4. LeaveInv'
  BY <1>1, <1>2, LeaveKept DEF SystemInv, sessionVars, networkVars
<1>5. /\ UNCHANGED <<sessionVars, acks>> /\ inbox' = inbox /\ dismissed' = dismissed
      /\ losses' \in 0 .. MaxLosses /\ dismissed \subseteq used
  BY <1>1 DEF networkVars, SystemInv, Typed, TypeOK
<1>6. Running'
  BY <1>1 DEF Running
<1>7. QED
  BY <1>1, <1>3, <1>4, <1>5, <1>6, WindowStep

(* The types the steps need                                                *)
LEMMA TypesOfCounters ==
  ASSUME Typed
  PROVE  /\ viewer \in {"off", "running"} /\ shutdownDeadline \in {"none", "armed"}
         /\ losses \in 0 .. MaxLosses /\ losses \in Nat /\ dismissed \subseteq used
         /\ Ready \subseteq Slots
         /\ \A i \in Ready : /\ windows[i].sender \in Senders /\ windows[i].id \in GraphIds
                             /\ windows[i].theme \in Themes
BY DEF Typed, TypeOK, ViewerTypeOK, Ready, Windows

(* The head of the inbox is a packet that is what it says.                 *)
LEMMA HeadIsTimely ==
  ASSUME SystemInv, inbox # <<>>
  PROVE  /\ Head(inbox) \in Packets /\ Timely(Head(inbox)) /\ Head(inbox) = inbox[1]
         /\ 1 \in 1 .. Len(inbox)
BY TailIs DEF SystemInv, Typed, InboxInv

(* A session that is present after packets or windows left was before.     *)
LEMMA LessPresent ==
  ASSUME Typed, inbox' = inbox \/ (inbox # <<>> /\ inbox' = Tail(inbox)),
         Ready' \subseteq Ready, \A i \in Ready' : windows'[i].sender = windows[i].sender
  PROVE  \A s \in Senders : Present(s)' => Present(s)
<1> SUFFICES ASSUME NEW s \in Senders, Present(s)' PROVE Present(s)
  OBVIOUS
<1>1. CASE \E i \in Ready' : windows'[i].sender = s
  BY <1>1 DEF Present
<1>2. CASE \E n \in 1 .. Len(inbox') : inbox'[n].type = "CONFIG" /\ inbox'[n].sender = s
  <2>1. CASE inbox' = inbox
    BY <1>2, <2>1 DEF Present
  <2>2. CASE inbox # <<>> /\ inbox' = Tail(inbox)
    <3>1. \A n \in 1 .. Len(inbox') : n + 1 \in 1 .. Len(inbox) /\ inbox'[n] = inbox[n + 1]
      BY <2>2, TailIs DEF Typed
    <3>2. QED
      BY <1>2, <3>1 DEF Present
  <2>3. QED
    BY <2>1, <2>2
<1>3. QED
  BY <1>1, <1>2 DEF Present

(* A configuration that is refused is not answered.                        *)
LEMMA IgnoreKeeps ==
  ASSUME SystemInv, IgnoreConfig
  PROVE  SystemInv'
<1>1. /\ inbox # <<>> /\ Head(inbox).type = "CONFIG" /\ inbox' = Tail(inbox)
      /\ UNCHANGED <<sessionVars, acks>> /\ UNCHANGED <<losses, dismissed, session>> /\ Running
      /\ UNCHANGED <<viewer, windows>>
      /\ shutdownDeadline' \in {"none", "armed"}
  BY TypesOfCounters DEF IgnoreConfig, RefuseConfig, SystemInv, sessionVars
<1>2. Destroy({}) /\ Ready' = Ready
  BY <1>1, KeepsWindows DEF SystemInv
<1>3. \A s : Head(inbox) # Farewell(s)
  BY <1>1 DEF Farewell
<1>4. \A s \in Senders : Present(s)' => Present(s)
  BY <1>1, <1>2, LessPresent DEF SystemInv
<1>5. LeaveInv'
  BY <1>1, <1>3, <1>4, LeaveStep DEF SystemInv
<1>6. Running'
  BY <1>1 DEF Running
<1>7. QED
  BY <1>1, <1>2, <1>5, <1>6, WindowStep, TypesOfCounters DEF SystemInv

(* What is closed was to be closed.                                        *)
LEMMA GraphCloseKeeps ==
  ASSUME SystemInv, ReceiveGraphClose
  PROVE  SystemInv'
<1> DEFINE p == Head(inbox)
           gone == FindGraph(p.sender, p.id)
<1>1. /\ inbox # <<>> /\ p.type = "GRAPH_CLOSE" /\ inbox' = Tail(inbox)
      /\ UNCHANGED <<sessionVars, acks>> /\ UNCHANGED <<losses, dismissed, session>> /\ Running
      /\ Destroy(gone) /\ UNCHANGED <<viewer, shutdownDeadline>>
  BY DEF ReceiveGraphClose, CloseGraph, sessionVars
<1>2. Ready' = Ready \ gone /\ \A i \in Ready' : windows'[i] = windows[i]
  BY <1>1, DestroyIs DEF SystemInv
<1>3. \A s : p # Farewell(s)
  BY <1>1 DEF Farewell
<1>4. \A s \in Senders : Present(s)' => Present(s)
  BY <1>1, <1>2, LessPresent DEF SystemInv
<1>5. LeaveInv'
  BY <1>1, <1>3, <1>4, LeaveStep DEF SystemInv
<1>6. \A i \in Ready \intersect gone :
        \/ windows[i].id \notin Registered(windows[i].sender)
        \/ graphs[windows[i].sender][windows[i].id].closeSent
  BY <1>1, HeadIsTimely DEF Timely, FindGraph
<1>7. Running'
  BY <1>1 DEF Running
<1> HIDE DEF gone
<1>8. QED
  BY <1>1, <1>5, <1>6, <1>7, WindowStep, TypesOfCounters DEF SystemInv

(* The windows of a session that ended go; its configurations came before. *)
LEMMA SessionCloseKeeps ==
  ASSUME SystemInv, ReceiveSessionClose
  PROVE  SystemInv'
<1> DEFINE p == Head(inbox)
           gone == {i \in Ready : windows[i].sender = p.sender}
<1>1. /\ inbox # <<>> /\ p.type = "SESSION_CLOSE" /\ inbox' = Tail(inbox)
      /\ UNCHANGED <<sessionVars, acks>> /\ UNCHANGED <<losses, dismissed, session>> /\ Running
      /\ Destroy(gone) /\ UNCHANGED viewer /\ shutdownDeadline' \in {"none", "armed"}
  BY TypesOfCounters DEF ReceiveSessionClose, CloseSession, sessionVars, SystemInv
<1>2. Ready' = Ready \ gone /\ \A i \in Ready' : windows'[i] = windows[i]
  BY <1>1, DestroyIs DEF SystemInv
<1>3. \A s \in Senders : Present(s)' => Present(s)
  BY <1>1, <1>2, LessPresent DEF SystemInv
<1>4. /\ p \in Packets /\ p = inbox[1] /\ 1 \in 1 .. Len(inbox) /\ ~InSession(p.sender)
      /\ p.sender \in Senders /\ inbox \in Seq(Packets)
  BY <1>1, HeadIsTimely, PacketKinds DEF Timely, SystemInv, Typed
<1>5. PICK s \in Senders : s = p.sender /\ ~InSession(s) /\ p.type = "SESSION_CLOSE"
  BY <1>1, <1>4
<1>6. ~Present(s)'
  <2> SUFFICES ASSUME Present(s)' PROVE FALSE
    OBVIOUS
  <2>1. Present(s)
    BY <1>3
  <2>2. PICK lost \in 0 .. Repetitions, first \in 0 .. Len(inbox) : Farewells(s, first, lost)
    BY <1>5, <2>1 DEF SystemInv, LeaveInv
  <2>3. first = 0
    BY <1>4, <1>5, <2>2 DEF Farewells
  <2>4. ~\E i \in Ready' : windows'[i].sender = s
    BY <1>2, <1>5
  <2>5. PICK n \in 1 .. Len(inbox') : inbox'[n].type = "CONFIG" /\ inbox'[n].sender = s
    BY <2>4 DEF Present
  <2>6. n + 1 \in 1 .. Len(inbox) /\ inbox'[n] = inbox[n + 1] /\ n + 1 > 0
    BY <1>1, <1>4, TailIs
  <2>7. QED
    BY <2>2, <2>3, <2>5, <2>6 DEF Farewells
<1>7. LeaveInv'
  <2>1. \A x \in Senders : x # s => p # Farewell(x)
    BY <1>5 DEF Farewell
  <2>2. QED
    BY <1>1, <1>3, <1>6, <2>1, LeaveStep DEF SystemInv
<1>8. \A i \in Ready \intersect gone : windows[i].id \notin Registered(windows[i].sender)
  BY <1>4 DEF SystemInv, GraphInv
<1>9. Running'
  BY <1>1 DEF Running
<1> HIDE DEF gone
<1>10. QED
  BY <1>1, <1>7, <1>8, <1>9, WindowStep, TypesOfCounters DEF SystemInv

(* The viewer ends: what it shows is nothing, or was dismissed.            *)
LEMMA StopKeeps ==
  ASSUME SystemInv, StopViewer, inbox' = <<>>, UNCHANGED <<sessionVars, acks, losses>>,
         dismissed' \subseteq used, dismissed \subseteq dismissed',
         \A i \in Ready : <<windows[i].sender, windows[i].id>> \in dismissed'
  PROVE  SystemInv'
<1>1. Destroy(Slots) /\ viewer' = "off" /\ shutdownDeadline' = "none" /\ UNCHANGED session
  BY DEF StopViewer, sessionVars
<1>2. Ready' = {}
  BY <1>1, DestroyIs, TypesOfCounters DEF SystemInv
<1>3. LeaveInv'
  <2>1. \A s : ~Present(s)'
    BY <1>2 DEF Present
  <2>2. QED
    BY <2>1 DEF LeaveInv
<1>4. QED
  BY <1>1, <1>2, <1>3, WindowStep, TypesOfCounters DEF SystemInv

(* The user closes a window, all of them, or none is left for 500 ms.      *)
LEMMA UserKeeps ==
  ASSUME SystemInv, (\E i \in Slots : UserCloses(i)) \/ UserQuits \/ ShutDown
  PROVE  SystemInv'
<1>1. /\ losses \in 0 .. MaxLosses /\ losses \in Nat /\ dismissed \subseteq used
      /\ \A i \in Ready : <<windows[i].sender, windows[i].id>> \in used
  BY TypesOfCounters DEF SystemInv, GraphInv
<1>2. ASSUME NEW i \in Slots, UserCloses(i)
      PROVE  SystemInv'
  <2>1. /\ i \in Ready /\ Running
        /\ dismissed' = dismissed \union {<<windows[i].sender, windows[i].id>>}
        /\ UNCHANGED <<sessionVars, acks, losses>>
    BY <1>2 DEF UserCloses, DismissWindow
  <2>2. CASE NoneLeft({i})
    <3>1. StopViewer /\ inbox' = <<>>
      BY <1>2, <2>2 DEF UserCloses, DismissWindow, StopViewer
    <3>2. QED
      BY <1>1, <2>1, <2>2, <3>1, StopKeeps DEF NoneLeft
  <2>3. CASE ~NoneLeft({i})
    <3>1. Destroy({i}) /\ UNCHANGED <<viewer, shutdownDeadline>>
      BY <1>2, <2>3 DEF UserCloses, DismissWindow
    <3>2. Running' /\ inbox' = inbox
      BY <1>2, <2>1, <3>1 DEF UserCloses, Running
    <3>3. Ready' = Ready \ {i} /\ \A j \in Ready' : windows'[j] = windows[j]
      BY <3>1, DestroyIs DEF SystemInv
    <3>4. \A s \in Senders : Present(s)' => Present(s)
      BY <3>2, <3>3, LessPresent DEF SystemInv
    <3>5. UNCHANGED session
      BY <2>1 DEF sessionVars
    <3>6. LeaveInv'
      BY <2>1, <3>2, <3>4, <3>5, LeaveStep DEF SystemInv
    <3>7. QED
      BY <1>1, <2>1, <3>1, <3>2, <3>6, WindowStep, TypesOfCounters DEF SystemInv
  <2>4. QED
    BY <2>2, <2>3
<1>3. CASE UserQuits
  <2>1. /\ StopViewer /\ inbox' = <<>> /\ UNCHANGED <<sessionVars, acks, losses>>
        /\ dismissed' = dismissed \union {<<w.sender, w.id>> : w \in OpenWindows}
    BY <1>3 DEF UserQuits
  <2>2. /\ \A i \in Ready : <<windows[i].sender, windows[i].id>> \in dismissed'
        /\ dismissed' \subseteq used /\ dismissed \subseteq dismissed'
    BY <1>1, <2>1 DEF OpenWindows
  <2>3. QED
    BY <2>1, <2>2, StopKeeps
<1>4. CASE ShutDown
  <2>1. /\ StopViewer /\ inbox' = <<>> /\ UNCHANGED <<sessionVars, acks, losses>>
        /\ dismissed' = dismissed /\ Ready = {}
    BY <1>4 DEF ShutDown, DeadlineExpires
  <2>2. QED
    BY <1>1, <2>1, StopKeeps
<1>5. QED
  BY <1>2, <1>3, <1>4

(* A farewell that gets lost is counted.                                   *)
LEMMA LossKeeps ==
  ASSUME SystemInv, LosePacket
  PROVE  SystemInv'
<1>1. /\ inbox # <<>> /\ inbox' = Tail(inbox) /\ losses' = losses + 1 /\ losses < MaxLosses
      /\ UNCHANGED <<sessionVars, acks, dismissed>> /\ UNCHANGED <<windows, session>>
      /\ UNCHANGED <<viewer, shutdownDeadline>>
  BY DEF LosePacket, viewerVars, sessionVars
<1>2. Destroy({}) /\ Ready' = Ready
  BY <1>1, KeepsWindows DEF SystemInv
<1>3. \A s \in Senders : Present(s)' => Present(s)
  BY <1>1, <1>2, LessPresent DEF SystemInv
<1>4. LeaveInv'
  BY <1>1, <1>3, LeaveStep DEF SystemInv
<1>5. losses' \in 0 .. MaxLosses
  BY <1>1, TypesOfCounters, SystemAssumption DEF SystemInv
<1>6. Running'
  BY <1>1 DEF SystemInv, OffInv, Running
<1>7. QED
  BY <1>1, <1>2, <1>4, <1>5, <1>6, WindowStep, TypesOfCounters DEF SystemInv

(* An answer that gets lost leaves a graph that is on the screen waiting.  *)
LEMMA AckLossKeeps ==
  ASSUME SystemInv, NEW s \in Senders, LoseAck(s)
  PROVE  SystemInv'
<1>1. /\ acks' \in [Senders -> Seq(Acks)]
      /\ \A x \in Senders : Elements(acks'[x]) \subseteq Elements(acks[x])
      /\ losses' = losses + 1 /\ losses < MaxLosses
      /\ UNCHANGED <<viewer, windows, shutdownDeadline>> /\ UNCHANGED <<session, graphs, used>>
      /\ UNCHANGED <<inbox, dismissed>>
  BY FewerAnswers DEF LoseAck, SystemInv, viewerVars, sessionVars
<1>2. \A x : Registered(x)' = Registered(x) /\ InSession(x)' = InSession(x)
  BY <1>1 DEF Registered, InSession
<1>3. Ready' = Ready /\ Running' = Running
  BY <1>1 DEF Ready, Slots, Running
<1>4. Typed'
  <2>1. losses' \in 0 .. MaxLosses
    BY <1>1, TypesOfCounters, SystemAssumption DEF SystemInv
  <2>2. ViewerTypeOK'
    BY <1>1 DEF SystemInv, Typed, TypeOK, ViewerTypeOK, Slots, Windows
  <2>3. (\A x \in Senders : Elements(acks[x]) \subseteq Acks)'
    BY <1>1 DEF SystemInv, Typed, TypeOK, Elements
  <2>4. (Elements(inbox) \subseteq Configs \union GraphCloses \union SessionCloses)'
    BY <1>1 DEF SystemInv, Typed, TypeOK, Elements
  <2>5. QED
    BY <1>1, <2>1, <2>2, <2>3, <2>4 DEF SystemInv, Typed, TypeOK
<1>5. OffInv' /\ OneWindowPerGraph' /\ GraphInv'
  BY <1>1, <1>2, <1>3 DEF SystemInv, OffInv, OneWindowPerGraph, GraphInv
<1>6. InboxInv'
  <2>1. \A p : Timely(p) => Timely(p)'
    BY <1>1, <1>2 DEF Timely
  <2>2. QED
    BY <1>1, <2>1 DEF SystemInv, InboxInv, ConfigOf
<1>7. AckInv'
  <2> SUFFICES ASSUME NEW x \in Senders, NEW ack \in Elements(acks'[x])
               PROVE  /\ <<x, ack.id>> \in used
                      /\ ack.id \in Registered(x) => ack.sequence <= graphs[x][ack.id].sequence
    BY <1>1, <1>2 DEF AckInv, Elements
  <2>1. QED
    BY <1>1 DEF SystemInv, AckInv
<1>8. ShownInv'
  <2> SUFFICES ASSUME NEW x \in Senders, NEW id \in Registered(x)', Answered(x, id)',
                      ~graphs'[x][id].closeSent, <<x, id>> \notin dismissed'
               PROVE  IsShown(x, id, graphs[x][id])'
    BY DEF ShownInv, IsShown
  <2>1. Elements(acks'[x]) \subseteq Elements(acks[x])
    BY <1>1
  <2>2. /\ id \in Registered(x) /\ Answered(x, id) /\ ~graphs[x][id].closeSent
        /\ <<x, id>> \notin dismissed
    BY <1>1, <1>2, <2>1 DEF Answered, Elements
  <2>3. IsShown(x, id, graphs[x][id])
    BY <2>2 DEF SystemInv, ShownInv, IsShown
  <2>4. QED
    BY <1>1, <1>3, <2>3 DEF IsShown, FindGraph, ConfigOf
<1>9. LeaveInv'
  <2>1. /\ \A x \in Senders : Present(x)' => Present(x)
        /\ losses' \in {losses, losses + 1}
    BY <1>1, <1>3, LessPresent DEF SystemInv
  <2>2. QED
    BY <1>1, <2>1, LeaveStep DEF SystemInv
<1>10. QED
  BY <1>4, <1>5, <1>6, <1>7, <1>8, <1>9 DEF SystemInv

-----------------------------------------------------------------------------
(* An answered configuration                                               *)

(* It opens a window or gives a theme to the one there is.                 *)
LEMMA AnsweredWindow ==
  ASSUME Typed, OneWindowPerGraph, NEW s \in Senders, NEW id \in GraphIds, NEW theme \in Themes,
         OpenWindow(s, id, theme) \/ ApplyTheme(s, id, theme)
  PROVE  \E i \in Slots :
           /\ windows' \in [Slots -> Windows \union {NoWindow}]
           /\ Ready' = Ready \union {i}
           /\ windows'[i] = [sender |-> s, id |-> id, theme |-> theme]
           /\ i \in Ready => windows[i].sender = s /\ windows[i].id = id
           /\ \A j \in Ready' \ {i} : /\ j \in Ready /\ windows'[j] = windows[j]
                                     /\ ~(windows[j].sender = s /\ windows[j].id = id)
<1> DEFINE w == [sender |-> s, id |-> id, theme |-> theme]
<1>1. w \in Windows /\ w # NoWindow
  BY ViewerAssumption DEF Windows
<1>2. windows \in [Slots -> Windows \union {NoWindow}] /\ Ready \subseteq Slots
  BY DEF Typed, TypeOK, ViewerTypeOK, Ready
<1>3. CASE OpenWindow(s, id, theme)
  <2>1. PICK i \in Slots \ Ready : windows' = [windows EXCEPT ![i] = w]
    BY <1>3 DEF OpenWindow
  <2>2. FindGraph(s, id) = {}
    BY <1>3 DEF OpenWindow
  <2> HIDE DEF w
  <2>3. /\ windows' \in [Slots -> Windows \union {NoWindow}] /\ windows'[i] = w
        /\ \A j \in Slots : j # i => windows'[j] = windows[j]
    BY <1>1, <1>2, <2>1
  <2>4. Ready' = Ready \union {i}
    BY <1>1, <2>1, <2>3 DEF Ready, Slots
  <2>5. \A j \in Ready : ~(windows[j].sender = s /\ windows[j].id = id)
    BY <2>2 DEF FindGraph
  <2>6. QED
    BY <1>2, <2>1, <2>3, <2>4, <2>5 DEF w
<1>4. CASE ApplyTheme(s, id, theme)
  <2>1. PICK i \in FindGraph(s, id) : windows' = [windows EXCEPT ![i].theme = theme]
    BY <1>4 DEF ApplyTheme
  <2>2. i \in Ready /\ windows[i].sender = s /\ windows[i].id = id /\ windows[i] \in Windows
    BY <1>2 DEF FindGraph, Ready
  <2>3. [windows[i] EXCEPT !.theme = theme] = w
    BY <2>2 DEF Windows
  <2>4. windows' = [windows EXCEPT ![i] = w]
    BY <2>1, <2>3
  <2> HIDE DEF w
  <2>5. /\ windows' \in [Slots -> Windows \union {NoWindow}] /\ windows'[i] = w
        /\ \A j \in Slots : j # i => windows'[j] = windows[j]
    BY <1>1, <1>2, <2>2, <2>4
  <2>6. Ready' = Ready \union {i}
    BY <1>1, <1>2, <2>2, <2>5 DEF Ready, Slots
  <2>7. \A j \in Ready : j # i => ~(windows[j].sender = s /\ windows[j].id = id)
    BY <2>2 DEF OneWindowPerGraph
  <2>8. QED
    BY <1>2, <2>2, <2>5, <2>6, <2>7 DEF w
<1>5. QED
  BY <1>3, <1>4

(* The answers of a session when one more is sent to it                    *)
LEMMA AnswerIs ==
  ASSUME Typed, NEW packet, packet.sender \in Senders, packet.id \in GraphIds,
         packet.sequence \in 0 .. MaxSequence, Answer(packet)
  PROVE  /\ acks' \in [Senders -> Seq(Acks)]
         /\ \A x \in Senders : x # packet.sender => acks'[x] = acks[x]
         /\ \A ack \in Elements(acks'[packet.sender]) :
              \/ ack \in Elements(acks[packet.sender])
              \/ ack = [id |-> packet.id, sequence |-> packet.sequence]
<1> DEFINE new == [id |-> packet.id, sequence |-> packet.sequence]
           x == packet.sender
<1>1. new \in Acks /\ x \in Senders /\ acks \in [Senders -> Seq(Acks)]
  BY DEF Acks, Typed
<1>2. acks' = IF InSession(x) THEN [acks EXCEPT ![x] = Append(@, new)] ELSE acks
  BY DEF Answer
<1> HIDE DEF new, x
<1>3. CASE ~InSession(x)
  BY <1>1, <1>2, <1>3 DEF new, x
<1>4. CASE InSession(x)
  <2>1. acks[x] \in Seq(Acks)
    BY <1>1
  <2>2. /\ Append(acks[x], new) \in Seq(Acks)
        /\ Len(Append(acks[x], new)) = Len(acks[x]) + 1 /\ Len(acks[x]) \in Nat
        /\ Append(acks[x], new)[Len(acks[x]) + 1] = new
        /\ \A n \in 1 .. Len(acks[x]) : Append(acks[x], new)[n] = acks[x][n]
    BY <1>1, <2>1
  <2>3. ASSUME NEW n \in 1 .. Len(Append(acks[x], new))
        PROVE  Append(acks[x], new)[n] \in Elements(acks[x]) \union {new}
    <3>1. CASE n = Len(acks[x]) + 1
      BY <2>2, <3>1
    <3>2. CASE n # Len(acks[x]) + 1
      <4>1. n \in 1 .. Len(acks[x])
        BY <2>2, <3>2
      <4>2. QED
        BY <2>2, <4>1 DEF Elements
    <3>3. QED
      BY <3>1, <3>2
  <2>4. Elements(Append(acks[x], new)) \subseteq Elements(acks[x]) \union {new}
    BY <2>3 DEF Elements
  <2>5. /\ acks' \in [Senders -> Seq(Acks)] /\ acks'[x] = Append(acks[x], new)
        /\ \A y \in Senders : y # x => acks'[y] = acks[y]
    BY <1>1, <1>2, <1>4, <2>2
  <2>6. QED
    BY <2>4, <2>5 DEF new, x
<1>5. QED
  BY <1>3, <1>4

(* The oldest configuration of the inbox gives its theme to the window of  *)
(* its graph. If it is the one the graph has now that is what the graph    *)
(* shows; if it is an older one the graph does not count as answered.      *)
LEMMA AnswerKeeps ==
  ASSUME SystemInv, AnswerConfig
  PROVE  SystemInv'
<1>1. /\ Head(inbox) \in Configs /\ Timely(Head(inbox)) /\ Head(inbox) = inbox[1]
      /\ 1 \in 1 .. Len(inbox) /\ inbox # <<>> /\ Head(inbox).type = "CONFIG"
      /\ inbox' = Tail(inbox)
      /\ UNCHANGED <<session, graphs, used>> /\ UNCHANGED <<losses, dismissed>>
  BY HeadIsTimely, PacketKinds DEF AnswerConfig, sessionVars
<1>2. PICK s \in Senders, id \in GraphIds, theme \in Themes, q \in 0 .. MaxSequence :
        /\ s = Head(inbox).sender /\ id = Head(inbox).id
        /\ theme = Head(inbox).theme /\ q = Head(inbox).sequence
  BY <1>1 DEF Configs
<1>3. /\ OpenWindow(s, id, theme) \/ ApplyTheme(s, id, theme)
      /\ Answer(Head(inbox))
  BY <1>2 DEF AnswerConfig
<1>4. /\ Running /\ viewer' = viewer /\ shutdownDeadline' = "none"
  BY <1>3 DEF OpenWindow, ApplyTheme
<1>5. /\ ConfigOf(inbox[1], s, id) /\ inbox[1].theme = theme /\ inbox[1].sequence = q
      /\ <<s, id>> \in used
      /\ id \in Registered(s) => /\ q <= graphs[s][id].sequence
                                 /\ q = graphs[s][id].sequence => theme = graphs[s][id].theme
  BY <1>1, <1>2 DEF ConfigOf, Timely
<1>6. /\ acks' \in [Senders -> Seq(Acks)]
      /\ \A x \in Senders : x # s => acks'[x] = acks[x]
      /\ \A ack \in Elements(acks'[s]) :
           ack \in Elements(acks[s]) \/ (ack.id = id /\ ack.sequence = q)
  BY <1>2, <1>3, AnswerIs DEF SystemInv
<1>7. PICK i \in Slots :
        /\ windows' \in [Slots -> Windows \union {NoWindow}]
        /\ Ready' = Ready \union {i}
        /\ windows'[i] = [sender |-> s, id |-> id, theme |-> theme]
        /\ i \in Ready => windows[i].sender = s /\ windows[i].id = id
        /\ \A j \in Ready' \ {i} : /\ j \in Ready /\ windows'[j] = windows[j]
                                  /\ ~(windows[j].sender = s /\ windows[j].id = id)
  BY <1>3, AnsweredWindow DEF SystemInv
<1>8. /\ inbox' \in Seq(Packets) /\ Len(inbox') = Len(inbox) - 1
      /\ \A n \in 1 .. Len(inbox') : n + 1 \in 1 .. Len(inbox) /\ inbox'[n] = inbox[n + 1]
  BY <1>1, TailIs DEF SystemInv, Typed
<1>9. \A x : Registered(x)' = Registered(x) /\ InSession(x)' = InSession(x)
  BY <1>1 DEF Registered, InSession
<1>10. Typed'
  <2>1. ViewerTypeOK'
    BY <1>4, <1>7, TypesOfCounters DEF ViewerTypeOK, Slots, Windows, SystemInv
  <2>2. (Elements(inbox) \subseteq Configs \union GraphCloses \union SessionCloses)'
    BY <1>8 DEF Elements, Packets
  <2>3. (\A x \in Senders : Elements(acks[x]) \subseteq Acks)'
    BY <1>6 DEF Elements
  <2>4. /\ session' \in [Senders -> {"running", "ended"}]
        /\ graphs' \in [Senders -> [GraphIds -> Graphs \union {NoGraph}]]
        /\ used' \subseteq Senders \X GraphIds
        /\ losses' \in 0 .. MaxLosses /\ dismissed' \subseteq used'
    BY <1>1 DEF SystemInv, Typed, TypeOK
  <2>5. TypeOK'
    BY <2>1, <2>2, <2>3, <2>4 DEF TypeOK
  <2>6. QED
    BY <1>6, <1>8, <2>5 DEF Typed
<1>11. OffInv'
  BY <1>4 DEF OffInv, Running
<1>12. GraphInv'
  <2>1. \A x \in Senders : \A y \in Registered(x)' : <<x, y>> \in used' /\ InSession(x)'
    BY <1>1, <1>9 DEF SystemInv, GraphInv
  <2>2. ASSUME NEW j \in Ready'
        PROVE  <<windows'[j].sender, windows'[j].id>> \in used'
    <3>1. CASE j = i
      BY <1>1, <1>5, <1>7, <3>1
    <3>2. CASE j # i
      BY <1>1, <1>7, <3>2 DEF SystemInv, GraphInv
    <3>3. QED
      BY <3>1, <3>2
  <2>3. QED
    BY <2>1, <2>2 DEF GraphInv
<1>13. OneWindowPerGraph'
  <2> SUFFICES ASSUME NEW j \in Ready', NEW k \in Ready',
                      windows'[j].sender = windows'[k].sender, windows'[j].id = windows'[k].id
               PROVE  j = k
    BY DEF OneWindowPerGraph
  <2>1. windows'[i].sender = s /\ windows'[i].id = id
    BY <1>7
  <2>2. CASE j # i /\ k # i
    BY <1>7, <2>2 DEF SystemInv, OneWindowPerGraph
  <2>3. CASE j = i /\ k # i
    BY <1>7, <2>1, <2>3
  <2>4. CASE j # i /\ k = i
    BY <1>7, <2>1, <2>4
  <2>5. QED
    BY <2>2, <2>3, <2>4
<1>14. InboxInv'
  BY <1>1, TailKeepsInbox DEF SystemInv
<1>15. AckInv'
  <2> SUFFICES ASSUME NEW x \in Senders, NEW ack \in Elements(acks'[x])
               PROVE  /\ <<x, ack.id>> \in used
                      /\ ack.id \in Registered(x) => ack.sequence <= graphs[x][ack.id].sequence
    BY <1>1, <1>9 DEF AckInv, Elements
  <2>1. CASE ack \in Elements(acks[x])
    BY <2>1 DEF SystemInv, AckInv
  <2>2. CASE ack \notin Elements(acks[x])
    <3>1. x = s
      BY <1>6, <2>2
    <3>2. ack.id = id /\ ack.sequence = q
      BY <1>6, <2>2, <3>1
    <3>3. QED
      BY <1>5, <3>1, <3>2
  <2>3. QED
    BY <2>1, <2>2
<1>16. ShownInv'
  <2> SUFFICES ASSUME NEW x \in Senders, NEW y \in Registered(x)', Answered(x, y)',
                      ~graphs'[x][y].closeSent, <<x, y>> \notin dismissed'
               PROVE  IsShown(x, y, graphs[x][y])'
    BY DEF ShownInv, IsShown
  <2>1. /\ y \in Registered(x) /\ ~graphs[x][y].closeSent /\ <<x, y>> \notin dismissed
        /\ graphs'[x][y] = graphs[x][y]
    BY <1>1, <1>9
  <2>2. CASE Answered(x, y) /\ ~(x = s /\ y = id)
    <3>1. IsShown(x, y, graphs[x][y])
      BY <2>1, <2>2 DEF SystemInv, ShownInv, IsShown
    <3>2. PICK j \in FindGraph(x, y) : windows[j].theme = graphs[x][y].theme
      BY <3>1 DEF IsShown
    <3>3. j \in Ready' /\ j # i /\ windows[j].sender = x /\ windows[j].id = y
      BY <1>7, <2>2 DEF FindGraph
    <3>4. j \in FindGraph(x, y)' /\ windows'[j].theme = graphs'[x][y].theme
      BY <1>7, <2>1, <3>2, <3>3 DEF FindGraph
    <3>5. QED
      BY <1>8, <2>1, <3>1, <3>4 DEF IsShown, ConfigOf
  <2>3. CASE x = s /\ y = id
    <3>1. Answered(s, id) => q = graphs[s][id].sequence
      BY <1>1, <1>5, <2>1, <2>3 DEF SystemInv, ShownInv
    <3>2. q = graphs[s][id].sequence
      <4>1. CASE graphs[s][id].isConfigAcked
        BY <3>1, <4>1 DEF Answered
      <4>2. CASE ~graphs[s][id].isConfigAcked
        <5>1. PICK ack \in Elements(acks'[s]) :
                ack.id = id /\ ack.sequence = graphs[s][id].sequence
          BY <2>1, <2>3, <4>2 DEF Answered, Elements
        <5>2. CASE ack \in Elements(acks[s])
          BY <3>1, <5>1, <5>2 DEF Answered
        <5>3. CASE ack \notin Elements(acks[s])
          BY <1>6, <5>1, <5>3
        <5>4. QED
          BY <5>2, <5>3
      <4>3. QED
        BY <4>1, <4>2
    <3>3. theme = graphs[s][id].theme
      BY <1>5, <2>1, <2>3, <3>2
    <3>4. i \in FindGraph(s, id)' /\ windows'[i].theme = graphs'[s][id].theme
      BY <1>7, <2>1, <2>3, <3>3 DEF FindGraph
    <3>5. ASSUME NEW n \in 1 .. Len(inbox'), ConfigOf(inbox'[n], s, id)
          PROVE  inbox'[n].sequence = graphs'[s][id].sequence
      <4>1. n + 1 \in 1 .. Len(inbox) /\ inbox'[n] = inbox[n + 1] /\ 1 < n + 1
        BY <1>8
      <4>2. inbox[1].sequence <= inbox[n + 1].sequence
        <5>1. /\ inbox[1].type = "CONFIG"
              /\ ConfigOf(inbox[n + 1], inbox[1].sender, inbox[1].id)
          BY <1>5, <3>5, <4>1 DEF ConfigOf
        <5>2. QED
          BY <1>1, <4>1, <5>1 DEF SystemInv, InboxInv
      <4>3. Timely(inbox[n + 1]) /\ inbox[n + 1] \in Packets
        BY <4>1 DEF SystemInv, InboxInv, Typed
      <4>4. inbox[n + 1].sequence <= graphs[s][id].sequence
        BY <2>1, <2>3, <3>5, <4>1, <4>3 DEF Timely, ConfigOf
      <4>5. inbox[n + 1].sequence \in 0 .. MaxSequence
        BY <3>5, <4>1, <4>3, PacketKinds DEF ConfigOf
      <4>6. QED
        BY <1>5, <2>1, <2>3, <3>2, <4>1, <4>2, <4>4, <4>5
    <3>6. QED
      BY <2>3, <3>4, <3>5 DEF IsShown, ConfigOf
  <2>4. CASE ~Answered(x, y) /\ ~(x = s /\ y = id)
    <3>1. PICK ack \in Elements(acks'[x]) : ack.id = y /\ ack.sequence = graphs[x][y].sequence
      BY <2>1, <2>4 DEF Answered, Elements
    <3>2. ack \notin Elements(acks[x])
      BY <2>4, <3>1 DEF Answered
    <3>3. QED
      BY <1>6, <2>4, <3>1, <3>2
  <2>5. QED
    BY <2>2, <2>3, <2>4
<1>17. LeaveInv'
  <2>1. ASSUME NEW x \in Senders, Present(x)'
        PROVE  Present(x)
    <3>1. CASE \E j \in Ready' : windows'[j].sender = x
      <4>1. PICK j \in Ready' : windows'[j].sender = x
        BY <3>1
      <4>2. CASE j = i
        BY <1>1, <1>5, <1>7, <4>1, <4>2 DEF Present, ConfigOf
      <4>3. CASE j # i
        BY <1>7, <4>1, <4>3 DEF Present
      <4>4. QED
        BY <4>2, <4>3
    <3>2. CASE \E n \in 1 .. Len(inbox') : inbox'[n].type = "CONFIG" /\ inbox'[n].sender = x
      BY <1>8, <3>2 DEF Present
    <3>3. QED
      BY <2>1, <3>1, <3>2 DEF Present
  <2>2. \A x : Head(inbox) # Farewell(x)
    BY <1>1 DEF Farewell
  <2>3. QED
    BY <1>1, <2>1, <2>2, LeaveStep DEF SystemInv
<1>18. QED
  BY <1>10, <1>11, <1>12, <1>13, <1>14, <1>15, <1>16, <1>17 DEF SystemInv


-----------------------------------------------------------------------------
(* Packets a session sends                                                 *)

(* What joins the inbox, if anything, is packet.                           *)
Grown(packet) ==
  /\ inbox' \in Seq(Packets)
  /\ ~Running => inbox' = inbox
  /\ \A n \in 1 .. Len(inbox) : n \in 1 .. Len(inbox') /\ inbox'[n] = inbox[n]
  /\ \A n \in 1 .. Len(inbox') : n > Len(inbox) => inbox'[n] = packet

(* One packet is sent, or one several times.                               *)
LEMMA OneGrows ==
  ASSUME Typed, NEW p \in Packets, Send(<<p>>)
  PROVE  Grown(p)
<1>1. <<p>> \in Seq(Packets) /\ \A n \in 1 .. Len(<<p>>) : <<p>>[n] = p
  OBVIOUS
<1>2. QED
  BY <1>1, SentIs DEF Grown

(* A packet that is sent repeatedly is there that often while the viewer   *)
(* runs, and nothing else comes.                                           *)
LEMMA RepeatedGrows ==
  ASSUME Typed, NEW p \in Packets, Send(Repeated(p))
  PROVE  Grown(p) /\ (Running => Len(inbox') = Len(inbox) + Repetitions)
<1>1. /\ Repeated(p) \in Seq(Packets) /\ Len(Repeated(p)) = Repetitions
      /\ \A n \in 1 .. Repetitions : Repeated(p)[n] = p
  BY RepeatedIs
<1> DEFINE packets == Repeated(p)
<1> HIDE DEF packets
<1>2. /\ packets \in Seq(Packets) /\ Len(packets) = Repetitions /\ Send(packets)
      /\ \A n \in 1 .. Repetitions : packets[n] = p
  BY <1>1 DEF packets
<1>3. QED
  BY <1>2, SentIs DEF Grown

(* The farewells of x, if it needs any                                     *)
LeaveOf(x) ==
  ~InSession(x) /\ Present(x) =>
    \E lost \in 0 .. Repetitions, first \in 0 .. Len(inbox) : Farewells(x, first, lost)

(* A session may go on or end, its graphs be removed or asked to close and *)
(* its answers dropped; what it sends is as its graphs are.                *)
LEMMA SendStep ==
  ASSUME SystemInv, NEW s \in Senders, NEW p \in Packets, p.sender = s, Grown(p),
         UNCHANGED <<viewerVars, used, losses, dismissed>>,
         session' \in [Senders -> {"running", "ended"}],
         graphs' \in [Senders -> [GraphIds -> Graphs \union {NoGraph}]],
         acks' \in [Senders -> Seq(Acks)],
         \A x \in Senders : Elements(acks'[x]) \subseteq Elements(acks[x]),
         \A x \in Senders : InSession(x)' => InSession(x),
         \A x \in Senders : x # s => InSession(x)' = InSession(x),
         \A x \in Senders : \A y \in Registered(x)' :
           /\ y \in Registered(x) /\ InSession(x)'
           /\ graphs'[x][y].sequence = graphs[x][y].sequence
           /\ graphs'[x][y].theme = graphs[x][y].theme
           /\ graphs'[x][y].isConfigAcked = graphs[x][y].isConfigAcked
           /\ graphs[x][y].closeSent => graphs'[x][y].closeSent,
         Timely(p)', LeaveOf(s)',
         p.type = "CONFIG" =>
           p.id \in Registered(s) /\ p.sequence = graphs[s][p.id].sequence
  PROVE  SystemInv'
<1>1. inbox \in Seq(Packets) /\ Len(inbox) \in Nat
  BY DEF SystemInv, Typed
<1>2. /\ inbox' \in Seq(Packets) /\ Len(inbox') \in Nat
      /\ \A n \in 1 .. Len(inbox) : n \in 1 .. Len(inbox') /\ inbox'[n] = inbox[n]
      /\ \A n \in 1 .. Len(inbox') :
           \/ n \in 1 .. Len(inbox) /\ inbox'[n] = inbox[n]
           \/ n > Len(inbox) /\ inbox'[n] = p
  BY <1>1 DEF Grown
<1>3. Ready' = Ready /\ Running' = Running /\ windows' = windows
  BY DEF viewerVars, Ready, Slots, Running
<1>4. Typed'
  <2>1. ViewerTypeOK'
    BY DEF SystemInv, Typed, TypeOK, ViewerTypeOK, viewerVars, Windows, Slots
  <2>2. (\A x \in Senders : Elements(acks[x]) \subseteq Acks)'
    BY DEF Elements
  <2>3. (Elements(inbox) \subseteq Configs \union GraphCloses \union SessionCloses)'
    BY <1>2 DEF Elements, Packets
  <2>4. used' \subseteq Senders \X GraphIds /\ dismissed' \subseteq used' /\ losses' \in 0 .. MaxLosses
    BY DEF SystemInv, Typed, TypeOK
  <2>5. TypeOK'
    BY <2>1, <2>2, <2>3, <2>4 DEF TypeOK
  <2>6. QED
    BY <1>2, <2>5 DEF Typed
<1>5. OffInv' /\ OneWindowPerGraph'
  BY <1>3 DEF SystemInv, OffInv, OneWindowPerGraph, Grown
<1>6. GraphInv'
  BY <1>3 DEF SystemInv, GraphInv
<1>7. InboxInv'
  <2>1. ASSUME NEW n \in 1 .. Len(inbox)
        PROVE  Timely(inbox[n])'
    <3>1. Timely(inbox[n]) /\ inbox[n] \in Packets /\ inbox'[n] = inbox[n]
      BY <1>2 DEF SystemInv, InboxInv, Typed
    <3>2. PICK packet \in Packets : packet = inbox[n]
      BY <3>1
    <3>3. packet.sender \in Senders
      BY PacketKinds
    <3>4. Timely(packet)'
      BY <3>1, <3>2, <3>3 DEF Timely
    <3>5. QED
      BY <3>1, <3>2, <3>4
  <2>2. ASSUME NEW n \in 1 .. Len(inbox')
        PROVE  Timely(inbox[n])'
    <3>1. CASE n \in 1 .. Len(inbox)
      BY <2>1, <3>1
    <3>2. CASE inbox'[n] = p
      BY <3>2
    <3>3. QED
      BY <1>2, <3>1, <3>2
  <2>3. ASSUME NEW m \in 1 .. Len(inbox'), NEW n \in 1 .. Len(inbox'), m < n,
               inbox'[m].type = "CONFIG", ConfigOf(inbox'[n], inbox'[m].sender, inbox'[m].id)
        PROVE  inbox'[m].sequence <= inbox'[n].sequence
    <3>1. CASE n \in 1 .. Len(inbox)
      <4>1. m \in 1 .. Len(inbox)
        BY <1>1, <2>3, <3>1
      <4>2. QED
        BY <1>2, <2>3, <3>1, <4>1 DEF SystemInv, InboxInv
    <3>2. CASE inbox'[n] = p /\ m \in 1 .. Len(inbox)
      <4>1. inbox'[m] = inbox[m] /\ Timely(inbox[m])
        BY <1>2, <3>2 DEF SystemInv, InboxInv
      <4>2. /\ p.type = "CONFIG" /\ inbox[m].sender = s /\ inbox[m].id = p.id
        BY <2>3, <3>2, <4>1 DEF ConfigOf
      <4>3. QED
        BY <2>3, <3>2, <4>1, <4>2 DEF Timely
    <3>3. CASE inbox'[n] = p /\ inbox'[m] = p
      <4>1. p.sequence \in 0 .. MaxSequence
        BY <2>3, <3>3, PacketKinds
      <4>2. QED
        BY <3>3, <4>1
    <3>4. QED
      BY <1>2, <3>1, <3>2, <3>3
  <2>4. QED
    BY <2>2, <2>3 DEF InboxInv, ConfigOf
<1>8. AckInv'
  <2> SUFFICES ASSUME NEW x \in Senders, NEW ack \in Elements(acks'[x])
               PROVE  /\ <<x, ack.id>> \in used
                      /\ ack.id \in Registered(x)' => ack.sequence <= graphs'[x][ack.id].sequence
    BY DEF AckInv, Elements
  <2>1. ack \in Elements(acks[x])
    OBVIOUS
  <2>2. QED
    BY <2>1 DEF SystemInv, AckInv
<1>9. ShownInv'
  <2> SUFFICES ASSUME NEW x \in Senders, NEW y \in Registered(x)', Answered(x, y)',
                      ~graphs'[x][y].closeSent, <<x, y>> \notin dismissed'
               PROVE  IsShown(x, y, graphs[x][y])'
    BY DEF ShownInv, IsShown
  <2>1. /\ y \in Registered(x) /\ ~graphs[x][y].closeSent /\ <<x, y>> \notin dismissed
        /\ graphs'[x][y].sequence = graphs[x][y].sequence
        /\ graphs'[x][y].theme = graphs[x][y].theme
        /\ graphs'[x][y].isConfigAcked = graphs[x][y].isConfigAcked
    OBVIOUS
  <2>2. Answered(x, y)
    <3>1. Elements(acks'[x]) \subseteq Elements(acks[x])
      OBVIOUS
    <3>2. QED
      BY <2>1, <3>1 DEF Answered, Elements
  <2>3. IsShown(x, y, graphs[x][y])
    BY <2>1, <2>2 DEF SystemInv, ShownInv, IsShown
  <2>4. \E i \in FindGraph(x, y)' : windows'[i].theme = graphs'[x][y].theme
    BY <1>3, <2>1, <2>3 DEF IsShown, FindGraph
  <2>5. ASSUME NEW n \in 1 .. Len(inbox'), ConfigOf(inbox'[n], x, y)
        PROVE  inbox'[n].sequence = graphs'[x][y].sequence
    <3>1. CASE n \in 1 .. Len(inbox) /\ inbox'[n] = inbox[n]
      BY <2>1, <2>3, <2>5, <3>1 DEF IsShown
    <3>2. CASE inbox'[n] = p
      BY <2>1, <2>5, <3>2 DEF ConfigOf
    <3>3. QED
      BY <1>2, <3>1, <3>2
  <2>6. QED
    BY <2>4, <2>5 DEF IsShown, ConfigOf
<1>10. LeaveInv'
  <2>1. ASSUME NEW x \in Senders, x # s, ~InSession(x)', Present(x)'
        PROVE  \E lost \in 0 .. Repetitions, first \in 0 .. Len(inbox') : Farewells(x, first, lost)'
    <3>1. \A n \in 1 .. Len(inbox') :
            inbox'[n].sender = x => n \in 1 .. Len(inbox) /\ inbox'[n] = inbox[n]
      BY <1>2, <2>1
    <3>2. ~InSession(x) /\ Present(x)
      BY <1>3, <2>1, <3>1 DEF Present
    <3>3. PICK lost \in 0 .. Repetitions, first \in 0 .. Len(inbox) : Farewells(x, first, lost)
      BY <3>2 DEF SystemInv, LeaveInv
    <3>4. Len(inbox) <= Len(inbox') /\ first \in 0 .. Len(inbox')
      BY <1>1, <1>2
    <3>5. \A n \in first + 1 .. first + Repetitions - lost : inbox'[n] = Farewell(x)
      <4>1. first + Repetitions - lost <= Len(inbox)
        BY <3>3 DEF Farewells
      <4>2. ASSUME NEW n \in first + 1 .. first + Repetitions - lost
            PROVE  n \in 1 .. Len(inbox) /\ inbox[n] = Farewell(x)
        BY <1>1, <3>3, <4>1, SystemAssumption DEF Farewells
      <4>3. QED
        BY <1>2, <4>2
    <3>6. lost <= losses' /\ first + Repetitions - lost <= Len(inbox')
      BY <1>1, <1>2, <3>3, <3>4, SystemAssumption DEF Farewells
    <3>7. Farewells(x, first, lost)'
      BY <3>1, <3>3, <3>5, <3>6 DEF Farewells, Farewell
    <3>8. QED
      BY <3>4, <3>7
  <2>2. QED
    BY <2>1 DEF LeaveInv, LeaveOf
<1>11. QED
  BY <1>4, <1>5, <1>6, <1>7, <1>8, <1>9, <1>10 DEF SystemInv

(* A configuration is sent as the graph is now.                            *)
LEMMA SendConfigKeeps ==
  ASSUME SystemInv, NEW s \in Senders, NEW id \in GraphIds, SendConfig(s, id)
  PROVE  SystemInv'
<1> DEFINE graph == graphs[s][id]
<1>1. /\ InSession(s) /\ id \in Registered(s)
      /\ Send(<<[type |-> "CONFIG", sender |-> s, id |-> id, theme |-> graph.theme,
                 sequence |-> graph.sequence]>>)
      /\ UNCHANGED <<viewerVars, used, losses, dismissed>>
      /\ UNCHANGED <<session, graphs, acks>>
  BY DEF SendConfig, Waiting, sessionVars
<1>2. graph \in Graphs
  BY <1>1, RegisteredIs DEF SystemInv
<1>3. PICK p \in Packets :
        p = [type |-> "CONFIG", sender |-> s, id |-> id, theme |-> graph.theme,
             sequence |-> graph.sequence]
  BY <1>2 DEF Packets, Configs, Graphs
<1>4. Grown(p)
  BY <1>1, <1>3, OneGrows DEF SystemInv
<1>5. \A x \in Senders : Registered(x)' = Registered(x) /\ InSession(x)' = InSession(x)
  BY <1>1 DEF Registered, InSession
<1>6. <<s, id>> \in used /\ graph.sequence \in 0 .. MaxSequence
  BY <1>1, <1>2 DEF SystemInv, GraphInv, Graphs
<1>7. Timely(p)'
  BY <1>1, <1>3, <1>6 DEF Timely
<1>8. LeaveOf(s)'
  BY <1>1, <1>5 DEF LeaveOf
<1>9. /\ \A x \in Senders : Elements(acks'[x]) \subseteq Elements(acks[x])
      /\ \A x \in Senders : \A y \in Registered(x)' :
           /\ y \in Registered(x) /\ InSession(x)' /\ graphs'[x][y] = graphs[x][y]
  BY <1>1, <1>5 DEF SystemInv, GraphInv
<1>10. /\ session' \in [Senders -> {"running", "ended"}]
       /\ graphs' \in [Senders -> [GraphIds -> Graphs \union {NoGraph}]]
       /\ acks' \in [Senders -> Seq(Acks)]
  BY <1>1 DEF SystemInv, Typed, TypeOK
<1>11. /\ p.sender = s /\ p.id = id /\ p.sequence = graphs[s][id].sequence
  BY <1>3
<1> HIDE DEF graph
<1>12. QED
  BY <1>1, <1>4, <1>5, <1>7, <1>8, <1>9, <1>10, <1>11, SendStep

(* A graph whose window is asked to close no longer counts as shown.       *)
LEMMA SendGraphCloseKeeps ==
  ASSUME SystemInv, NEW s \in Senders, NEW id \in GraphIds, SendGraphClose(s, id)
  PROVE  SystemInv'
<1> DEFINE graph == graphs[s][id]
           g == [graph EXCEPT !.closeSent = TRUE]
           p == [type |-> "GRAPH_CLOSE", sender |-> s, id |-> id]
<1>1. /\ InSession(s) /\ id \in Registered(s) /\ Send(Repeated(p))
      /\ graphs' = [graphs EXCEPT ![s][id].closeSent = TRUE]
      /\ UNCHANGED <<viewerVars, used, losses, dismissed>> /\ UNCHANGED <<session, acks>>
  BY DEF SendGraphClose
<1>2. graph \in Graphs /\ <<s, id>> \in used
  BY <1>1, RegisteredIs DEF SystemInv, GraphInv
<1>3. /\ g \in Graphs /\ g.sequence = graph.sequence /\ g.theme = graph.theme
      /\ g.isConfigAcked = graph.isConfigAcked /\ g.closeSent
  BY <1>2 DEF Graphs
<1>4. graphs' = [graphs EXCEPT ![s][id] = g]
  BY <1>1 DEF SystemInv, Typed, TypeOK
<1>5. p \in Packets /\ p.sender = s /\ p.type = "GRAPH_CLOSE" /\ p.id = id
  BY DEF Packets, GraphCloses
<1> HIDE DEF g, p
<1>6. /\ graphs' \in [Senders -> [GraphIds -> Graphs \union {NoGraph}]]
      /\ graphs'[s][id] = g
      /\ \A x \in Senders, y \in GraphIds : x # s \/ y # id => graphs'[x][y] = graphs[x][y]
  BY <1>3, <1>4, OneGraphIs DEF SystemInv
<1>7. \A x \in Senders : InSession(x)' = InSession(x)
  BY <1>1 DEF InSession
<1>8. ASSUME NEW x \in Senders, NEW y \in Registered(x)'
      PROVE  /\ y \in Registered(x) /\ InSession(x)'
             /\ graphs'[x][y].sequence = graphs[x][y].sequence
             /\ graphs'[x][y].theme = graphs[x][y].theme
             /\ graphs'[x][y].isConfigAcked = graphs[x][y].isConfigAcked
             /\ graphs[x][y].closeSent => graphs'[x][y].closeSent
  <2>1. CASE x = s /\ y = id
    BY <1>1, <1>3, <1>6, <1>7, <2>1
  <2>2. CASE ~(x = s /\ y = id)
    <3>1. y \in GraphIds /\ graphs'[x][y] # NoGraph
      BY <1>8 DEF Registered
    <3>2. graphs'[x][y] = graphs[x][y]
      BY <1>6, <2>2, <3>1
    <3>3. y \in Registered(x)
      BY <3>1, <3>2 DEF Registered
    <3>4. QED
      BY <1>7, <3>2, <3>3 DEF SystemInv, GraphInv
  <2>3. QED
    BY <2>1, <2>2
<1>9. Timely(p)'
  BY <1>1, <1>2, <1>3, <1>5, <1>6 DEF Timely
<1>10. LeaveOf(s)'
  BY <1>1, <1>7 DEF LeaveOf
<1>11. Grown(p)
  BY <1>1, <1>5, RepeatedGrows DEF SystemInv
<1>12. /\ \A x \in Senders : Elements(acks'[x]) \subseteq Elements(acks[x])
       /\ session' \in [Senders -> {"running", "ended"}] /\ acks' \in [Senders -> Seq(Acks)]
  BY <1>1 DEF SystemInv, Typed, TypeOK
<1>13. QED
  BY <1>1, <1>5, <1>6, <1>7, <1>8, <1>9, <1>10, <1>11, <1>12, SendStep

(* The farewells follow all that the session has sent before.              *)
LEMMA EndSessionKeeps ==
  ASSUME SystemInv, NEW s \in Senders, EndSession(s)
  PROVE  SystemInv'
<1> DEFINE p == Farewell(s)
           none == [id \in GraphIds |-> NoGraph]
<1>1. /\ InSession(s) /\ session' = [session EXCEPT ![s] = "ended"]
      /\ graphs' = [graphs EXCEPT ![s] = none]
      /\ Send(Repeated(p)) /\ acks' = [acks EXCEPT ![s] = <<>>]
      /\ UNCHANGED <<viewerVars, used, losses, dismissed>>
  BY DEF EndSession, Farewell
<1>2. p \in Packets /\ p.sender = s /\ p.type = "SESSION_CLOSE"
  BY DEF Packets, SessionCloses, Farewell
<1>3. none \in [GraphIds -> Graphs \union {NoGraph}] /\ \A y \in GraphIds : none[y] = NoGraph
  OBVIOUS
<1> HIDE DEF p, none
<1>4. /\ session' \in [Senders -> {"running", "ended"}] /\ session'[s] = "ended"
      /\ \A x \in Senders : x # s => session'[x] = session[x]
  BY <1>1 DEF SystemInv, Typed, TypeOK
<1>5. /\ graphs' \in [Senders -> [GraphIds -> Graphs \union {NoGraph}]] /\ graphs'[s] = none
      /\ \A x \in Senders : x # s => graphs'[x] = graphs[x]
  BY <1>1, <1>3 DEF SystemInv, Typed, TypeOK
<1>6. /\ acks' \in [Senders -> Seq(Acks)] /\ acks'[s] = <<>>
      /\ \A x \in Senders : x # s => acks'[x] = acks[x]
  BY <1>1 DEF SystemInv, Typed
<1>7. \A x \in Senders : Elements(acks'[x]) \subseteq Elements(acks[x])
  <2>1. Elements(<<>>) = {}
    BY DEF Elements
  <2>2. QED
    BY <1>6, <2>1
<1>8. /\ ~InSession(s)'
      /\ \A x \in Senders : x # s => InSession(x)' = InSession(x)
      /\ \A x \in Senders : InSession(x)' => InSession(x)
  BY <1>4 DEF InSession
<1>9. \A x \in Senders : \A y \in Registered(x)' :
        y \in Registered(x) /\ InSession(x)' /\ graphs'[x][y] = graphs[x][y]
  <2> SUFFICES ASSUME NEW x \in Senders, NEW y \in Registered(x)'
               PROVE  y \in Registered(x) /\ InSession(x)' /\ graphs'[x][y] = graphs[x][y]
    OBVIOUS
  <2>1. x # s
    BY <1>3, <1>5 DEF Registered
  <2>2. y \in Registered(x) /\ graphs'[x][y] = graphs[x][y]
    BY <1>5, <2>1 DEF Registered
  <2>3. QED
    BY <1>8, <2>1, <2>2 DEF SystemInv, GraphInv
<1>10. Timely(p)'
  BY <1>2, <1>8 DEF Timely
<1>11. Grown(p) /\ (Running => Len(inbox') = Len(inbox) + Repetitions)
  BY <1>1, <1>2, RepeatedGrows DEF SystemInv
<1>12. LeaveOf(s)'
  <2>1. CASE ~Running
    <3>1. Ready' = {} /\ inbox' = <<>>
      BY <1>1, <1>11, <2>1 DEF SystemInv, OffInv, Grown, viewerVars, Ready, Slots
    <3>2. QED
      BY <3>1 DEF LeaveOf, Present
  <2>2. CASE Running
    <3>1. /\ Len(inbox) \in Nat /\ Len(inbox') = Len(inbox) + Repetitions
          /\ Repetitions \in Nat \ {0} /\ losses' \in Nat
          /\ \A n \in 1 .. Len(inbox) : inbox'[n] = inbox[n]
          /\ \A n \in 1 .. Len(inbox') : n > Len(inbox) => inbox'[n] = p
      BY <1>1, <1>11, <2>2, SystemAssumption, TypesOfCounters DEF SystemInv, Typed, Grown
    <3>2. \A n \in 1 .. Len(inbox) : inbox[n].sender = s => inbox[n].type # "SESSION_CLOSE"
      BY <1>1 DEF SystemInv, InboxInv, Timely
    <3>3. ASSUME NEW n \in 1 .. Len(inbox'), inbox'[n].sender = s
          PROVE  /\ inbox'[n].type = "CONFIG" => n <= Len(inbox)
                 /\ inbox'[n].type = "SESSION_CLOSE" => n > Len(inbox)
      <4>1. CASE n \in 1 .. Len(inbox)
        BY <3>1, <3>2, <3>3, <4>1
      <4>2. CASE n > Len(inbox)
        BY <1>2, <3>1, <4>2
      <4>3. QED
        BY <3>1, <4>1, <4>2
    <3>4. \A n \in Len(inbox) + 1 .. Len(inbox) + Repetitions - 0 : inbox'[n] = p
      BY <3>1
    <3>5. 0 <= losses' /\ Len(inbox) + Repetitions - 0 <= Len(inbox')
      BY <3>1
    <3>6. PICK first \in 0 .. Len(inbox') : first = Len(inbox)
      BY <3>1
    <3>7. Farewells(s, first, 0)'
      BY <3>3, <3>4, <3>5, <3>6 DEF Farewells, Farewell, p
    <3>8. 0 \in 0 .. Repetitions
      BY <3>1
    <3>9. QED
      BY <3>7, <3>8 DEF LeaveOf
  <2>3. QED
    BY <2>1, <2>2
<1>13. QED
  BY <1>1, <1>2, <1>4, <1>5, <1>6, <1>7, <1>8, <1>9, <1>10, <1>11, <1>12, SendStep

-----------------------------------------------------------------------------
(* The invariant                                                           *)

(* No viewer runs and nothing is on its way.                               *)
LEMMA InitIsInv ==
  ASSUME Init
  PROVE  SystemInv
<1>1. ViewerTypeOK /\ Ready = {}
  BY DEF Init, ViewerInit, ViewerTypeOK, Ready
<1>2. Elements(inbox) = {} /\ Elements(<<>>) = {} /\ inbox \in Seq(Packets) /\ <<>> \in Seq(Acks)
  BY DEF Init, Elements
<1>3. \A s \in Senders : Registered(s) = {} /\ Elements(acks[s]) = {}
  BY <1>2 DEF Init, Registered
<1>4. Typed
  <2>1. acks \in [Senders -> Seq(Acks)]
    BY <1>2 DEF Init
  <2>2. 0 \in 0 .. MaxLosses
    BY SystemAssumption
  <2>3. QED
    BY <1>1, <1>2, <1>3, <2>1, <2>2 DEF Init, Typed, TypeOK
<1>5. OffInv /\ GraphInv /\ OneWindowPerGraph
  BY <1>1, <1>3 DEF Init, OffInv, GraphInv, OneWindowPerGraph
<1>6. InboxInv /\ LeaveInv
  BY DEF Init, InboxInv, LeaveInv, InSession
<1>7. AckInv /\ ShownInv
  BY <1>3 DEF AckInv, ShownInv
<1>8. QED
  BY <1>4, <1>5, <1>6, <1>7 DEF SystemInv

(* A step that changes nothing keeps the invariant.                        *)
LEMMA StutterKeeps ==
  ASSUME SystemInv, UNCHANGED vars
  PROVE  SystemInv'
<1>1. /\ UNCHANGED <<viewer, windows, shutdownDeadline>> /\ UNCHANGED <<session, graphs, used>>
      /\ UNCHANGED <<inbox, acks, losses, dismissed>>
  BY DEF vars, viewerVars, sessionVars, networkVars
<1>2. Destroy({}) /\ Ready' = Ready
  BY <1>1, KeepsWindows DEF SystemInv
<1>3. LeaveInv'
  BY <1>1, LeaveKept DEF SystemInv
<1>4. Running' = Running
  BY <1>1 DEF Running
<1>5. UNCHANGED <<sessionVars, acks>>
  BY <1>1 DEF sessionVars
<1>6. QED
  BY <1>1, <1>2, <1>3, <1>4, <1>5, WindowStep, TypesOfCounters DEF SystemInv, OffInv

(* The opcodes, the callbacks and the launcher of a session keep it,       *)
LEMMA SessionStepKeeps ==
  ASSUME SystemInv, NEW s \in Senders, SessionStep(s)
  PROVE  SystemInv'
BY CreateKeeps, ThemeRequestKeeps, DestroyRequestKeeps, SendConfigKeeps, SendGraphCloseKeeps, FreeKeeps,
   AckKeeps, EndSessionKeeps, LaunchKeeps DEF SessionStep

(* and so do the viewer, its user and the network.                         *)
LEMMA NextKeeps ==
  ASSUME SystemInv, [Next]_vars
  PROVE  SystemInv'
<1>1. ASSUME NEW s \in Senders, SessionStep(s) PROVE SystemInv'
  BY <1>1, SessionStepKeeps
<1>2. CASE ViewerStep
  BY <1>2, AnswerKeeps, IgnoreKeeps, GraphCloseKeeps, SessionCloseKeeps, UserKeeps DEF ViewerStep
<1>3. CASE UserStep
  BY <1>3, UserKeeps DEF UserStep
<1>4. CASE NetworkStep
  BY <1>4, LossKeeps, AckLossKeeps DEF NetworkStep
<1>5. CASE UNCHANGED vars
  BY <1>5, StutterKeeps
<1>6. QED
  BY <1>1, <1>2, <1>3, <1>4, <1>5 DEF Next, Over

(* SystemInv holds in every state of the system.                           *)
THEOREM SystemIsInv == Spec => []SystemInv
<1>1. Init => SystemInv
  BY InitIsInv
<1>2. SystemInv /\ [Next]_vars => SystemInv'
  BY NextKeeps
<1>3. QED
  BY <1>1, <1>2, PTL DEF Spec

(* The state of the system has its type.                                   *)
THEOREM SystemTypes == Spec => []TypeOK
<1>1. SystemInv => TypeOK
  BY DEF SystemInv, Typed
<1>2. QED
  BY <1>1, SystemIsInv, PTL

(* However often a configuration is repeated before its answer arrives, the*)
(* viewer opens one window for its graph.                                  *)
THEOREM WindowsAreUnique == Spec => []OneWindowPerGraph
<1>1. SystemInv => OneWindowPerGraph
  BY DEF SystemInv
<1>2. QED
  BY <1>1, SystemIsInv, PTL

(* What a session counts as answered is on the screen, in its theme of now,*)
(* whatever theme changes, lost answers, deadlines and relaunches came in  *)
(* between.                                                                *)
THEOREM AnsweredGraphsAreShown == Spec => []AnsweredIsShown
<1>1. SystemInv => AnsweredIsShown
  BY DEF SystemInv, ShownInv, AnsweredIsShown, Answered
<1>2. QED
  BY <1>1, SystemIsInv, PTL

(* A window that outlives its session has a farewell on the way to it, or  *)
(* all the farewells were lost: none is used up by anything else, since    *)
(* they follow the configurations of the session.                          *)
THEOREM EndedSessionsLeave == Spec => []EndedSessionLeaves
<1>1. ASSUME SystemInv
      PROVE  EndedSessionLeaves
  <2> SUFFICES ASSUME NEW i \in Ready, session[windows[i].sender] = "ended",
                      ~(losses >= Repetitions)
               PROVE  InFlight("SESSION_CLOSE", windows[i].sender) # {}
    BY DEF EndedSessionLeaves, OpenWindows
  <2>1. PICK s \in Senders : s = windows[i].sender
    BY <1>1, TypesOfCounters DEF SystemInv
  <2>2. ~InSession(s) /\ Present(s)
    BY <2>1 DEF InSession, Present
  <2>3. PICK lost \in 0 .. Repetitions, first \in 0 .. Len(inbox) : Farewells(s, first, lost)
    BY <1>1, <2>2 DEF SystemInv, LeaveInv
  <2>4. Len(inbox) \in Nat /\ losses \in Nat /\ Repetitions \in Nat
    BY <1>1, TypesOfCounters, SystemAssumption DEF SystemInv, Typed
  <2>5. lost <= losses /\ first + Repetitions - lost <= Len(inbox)
    BY <2>3 DEF Farewells
  <2>6. first + 1 \in first + 1 .. first + Repetitions - lost /\ first + 1 \in 1 .. Len(inbox)
    BY <2>4, <2>5
  <2>7. inbox[first + 1] = Farewell(s)
    BY <2>3, <2>6 DEF Farewells
  <2>8. Farewell(s) \in InFlight("SESSION_CLOSE", s)
    BY <2>6, <2>7 DEF InFlight, Elements, Farewell
  <2>9. QED
    BY <2>1, <2>8
<1>2. QED
  BY <1>1, SystemIsInv, PTL

-----------------------------------------------------------------------------
(* The life of a graph                                                     *)

Lives ==
  [sequence : Nat, isConfigAcked : BOOLEAN, destroyRequested : BOOLEAN,
   closeRequested : BOOLEAN, closeSent : BOOLEAN]

(* Two lives are the same when their fields are.                           *)
LEMMA SameLives ==
  ASSUME NEW g \in Lives, NEW h \in Lives,
         g.sequence = h.sequence, g.isConfigAcked = h.isConfigAcked,
         g.destroyRequested = h.destroyRequested,
         g.closeRequested = h.closeRequested, g.closeSent = h.closeSent
  PROVE  g = h
BY DEF Lives

(* A graph has a life, with the fields of the graph.                       *)
LEMMA GraphHasLife ==
  ASSUME NEW g \in Graphs
  PROVE  /\ LifeOf(g) \in Lives
         /\ LifeOf(g).sequence = g.sequence
         /\ LifeOf(g).isConfigAcked = g.isConfigAcked
         /\ LifeOf(g).destroyRequested = g.destroyRequested
         /\ LifeOf(g).closeRequested = g.closeRequested
         /\ LifeOf(g).closeSent = g.closeSent
BY SystemAssumption DEF LifeOf, Lives, Graphs

(* What is asked of a graph is asked of its life.                          *)
LEMMA ThemedLives ==
  ASSUME NEW g \in Graphs, NEW h \in Graphs, NEW theme \in Themes,
         h = [g EXCEPT !.theme = theme, !.sequence = @ + 1, !.isConfigAcked = FALSE]
  PROVE  LifeOf(h) = [LifeOf(g) EXCEPT !.sequence = @ + 1, !.isConfigAcked = FALSE]
<1> DEFINE a == LifeOf(g)
           c == LifeOf(h)
           b == [LifeOf(g) EXCEPT !.sequence = LifeOf(g).sequence + 1, !.isConfigAcked = FALSE]
<1>1. a \in Lives /\ a.sequence = g.sequence
  BY GraphHasLife
<1>2. a.sequence + 1 \in Nat
  BY <1>1 DEF Lives
<1>3. /\ b \in Lives /\ b.sequence = a.sequence + 1 /\ b.isConfigAcked = FALSE
      /\ b.destroyRequested = a.destroyRequested
      /\ b.closeRequested = a.closeRequested /\ b.closeSent = a.closeSent
  BY <1>1, <1>2 DEF Lives
<1>4. /\ h.sequence = g.sequence + 1 /\ h.isConfigAcked = FALSE
      /\ h.destroyRequested = g.destroyRequested
      /\ h.closeRequested = g.closeRequested /\ h.closeSent = g.closeSent
  BY DEF Graphs
<1>5. /\ c \in Lives /\ c.sequence = h.sequence /\ c.isConfigAcked = h.isConfigAcked
      /\ c.destroyRequested = h.destroyRequested
      /\ c.closeRequested = h.closeRequested /\ c.closeSent = h.closeSent
  BY GraphHasLife
<1>6. /\ a.sequence = g.sequence /\ a.isConfigAcked = g.isConfigAcked
      /\ a.destroyRequested = g.destroyRequested
      /\ a.closeRequested = g.closeRequested /\ a.closeSent = g.closeSent
  BY GraphHasLife
<1> HIDE DEF a, b, c
<1>7. /\ c \in Lives /\ b \in Lives
      /\ c.sequence = b.sequence /\ c.isConfigAcked = b.isConfigAcked
      /\ c.destroyRequested = b.destroyRequested
      /\ c.closeRequested = b.closeRequested /\ c.closeSent = b.closeSent
  BY <1>3, <1>4, <1>5, <1>6, Zenon
<1>8. c = b
  BY <1>7, SameLives
<1>9. QED
  BY <1>8 DEF a, b, c

(* So is an answer,                                                        *)
LEMMA AckedLives ==
  ASSUME NEW g \in Graphs, NEW h \in Graphs, h = [g EXCEPT !.isConfigAcked = TRUE]
  PROVE  LifeOf(h) = [LifeOf(g) EXCEPT !.isConfigAcked = TRUE]
<1> DEFINE a == LifeOf(g)
           c == LifeOf(h)
           b == [LifeOf(g) EXCEPT !.isConfigAcked = TRUE]
<1>1. a \in Lives
  BY GraphHasLife
<1>2. /\ b \in Lives /\ b.sequence = a.sequence /\ b.isConfigAcked = TRUE
      /\ b.destroyRequested = a.destroyRequested
      /\ b.closeRequested = a.closeRequested /\ b.closeSent = a.closeSent
  BY <1>1 DEF Lives
<1>3. /\ h.sequence = g.sequence /\ h.isConfigAcked = TRUE
      /\ h.destroyRequested = g.destroyRequested
      /\ h.closeRequested = g.closeRequested /\ h.closeSent = g.closeSent
  BY DEF Graphs
<1>4. /\ c \in Lives /\ c.sequence = h.sequence /\ c.isConfigAcked = h.isConfigAcked
      /\ c.destroyRequested = h.destroyRequested
      /\ c.closeRequested = h.closeRequested /\ c.closeSent = h.closeSent
  BY GraphHasLife
<1>5. /\ a.sequence = g.sequence /\ a.isConfigAcked = g.isConfigAcked
      /\ a.destroyRequested = g.destroyRequested
      /\ a.closeRequested = g.closeRequested /\ a.closeSent = g.closeSent
  BY GraphHasLife
<1> HIDE DEF a, b, c
<1>6. /\ c \in Lives /\ b \in Lives
      /\ c.sequence = b.sequence /\ c.isConfigAcked = b.isConfigAcked
      /\ c.destroyRequested = b.destroyRequested
      /\ c.closeRequested = b.closeRequested /\ c.closeSent = b.closeSent
  BY <1>2, <1>3, <1>4, <1>5, Zenon
<1>7. c = b
  BY <1>6, SameLives
<1>8. QED
  BY <1>7 DEF a, b, c

(* its end,                                                                *)
LEMMA EndedLives ==
  ASSUME NEW g \in Graphs, NEW h \in Graphs, NEW closeWindow \in BOOLEAN,
         h = [g EXCEPT !.destroyRequested = TRUE, !.closeRequested = closeWindow]
  PROVE  LifeOf(h) =
           [LifeOf(g) EXCEPT !.destroyRequested = TRUE, !.closeRequested = closeWindow]
<1> DEFINE a == LifeOf(g)
           c == LifeOf(h)
           b == [LifeOf(g) EXCEPT !.destroyRequested = TRUE, !.closeRequested = closeWindow]
<1>1. a \in Lives
  BY GraphHasLife
<1>2. /\ b \in Lives /\ b.sequence = a.sequence /\ b.isConfigAcked = a.isConfigAcked
      /\ b.destroyRequested = TRUE
      /\ b.closeRequested = closeWindow /\ b.closeSent = a.closeSent
  BY <1>1 DEF Lives
<1>3. /\ h.sequence = g.sequence /\ h.isConfigAcked = g.isConfigAcked
      /\ h.destroyRequested = TRUE
      /\ h.closeRequested = closeWindow /\ h.closeSent = g.closeSent
  BY DEF Graphs
<1>4. /\ c \in Lives /\ c.sequence = h.sequence /\ c.isConfigAcked = h.isConfigAcked
      /\ c.destroyRequested = h.destroyRequested
      /\ c.closeRequested = h.closeRequested /\ c.closeSent = h.closeSent
  BY GraphHasLife
<1>5. /\ a.sequence = g.sequence /\ a.isConfigAcked = g.isConfigAcked
      /\ a.destroyRequested = g.destroyRequested
      /\ a.closeRequested = g.closeRequested /\ a.closeSent = g.closeSent
  BY GraphHasLife
<1> HIDE DEF a, b, c
<1>6. /\ c \in Lives /\ b \in Lives
      /\ c.sequence = b.sequence /\ c.isConfigAcked = b.isConfigAcked
      /\ c.destroyRequested = b.destroyRequested
      /\ c.closeRequested = b.closeRequested /\ c.closeSent = b.closeSent
  BY <1>2, <1>3, <1>4, <1>5, Zenon
<1>7. c = b
  BY <1>6, SameLives
<1>8. QED
  BY <1>7 DEF a, b, c

(* and the farewell to its window.                                         *)
LEMMA ToldLives ==
  ASSUME NEW g \in Graphs, NEW h \in Graphs, h = [g EXCEPT !.closeSent = TRUE]
  PROVE  LifeOf(h) = [LifeOf(g) EXCEPT !.closeSent = TRUE]
<1> DEFINE a == LifeOf(g)
           c == LifeOf(h)
           b == [LifeOf(g) EXCEPT !.closeSent = TRUE]
<1>1. a \in Lives
  BY GraphHasLife
<1>2. /\ b \in Lives /\ b.sequence = a.sequence /\ b.isConfigAcked = a.isConfigAcked
      /\ b.destroyRequested = a.destroyRequested
      /\ b.closeRequested = a.closeRequested /\ b.closeSent = TRUE
  BY <1>1 DEF Lives
<1>3. /\ h.sequence = g.sequence /\ h.isConfigAcked = g.isConfigAcked
      /\ h.destroyRequested = g.destroyRequested
      /\ h.closeRequested = g.closeRequested /\ h.closeSent = TRUE
  BY DEF Graphs
<1>4. /\ c \in Lives /\ c.sequence = h.sequence /\ c.isConfigAcked = h.isConfigAcked
      /\ c.destroyRequested = h.destroyRequested
      /\ c.closeRequested = h.closeRequested /\ c.closeSent = h.closeSent
  BY GraphHasLife
<1>5. /\ a.sequence = g.sequence /\ a.isConfigAcked = g.isConfigAcked
      /\ a.destroyRequested = g.destroyRequested
      /\ a.closeRequested = g.closeRequested /\ a.closeSent = g.closeSent
  BY GraphHasLife
<1> HIDE DEF a, b, c
<1>6. /\ c \in Lives /\ b \in Lives
      /\ c.sequence = b.sequence /\ c.isConfigAcked = b.isConfigAcked
      /\ c.destroyRequested = b.destroyRequested
      /\ c.closeRequested = b.closeRequested /\ c.closeSent = b.closeSent
  BY <1>2, <1>3, <1>4, <1>5, Zenon
<1>7. c = b
  BY <1>6, SameLives
<1>8. QED
  BY <1>7 DEF a, b, c

GraphNames == Senders \X GraphIds
Graph(n) == graphs[n[1]][n[2]]
Pending(n) == PendingOf(n[1], n[2])

(* Nothing new was announced of a graph.                                   *)
LEMMA NothingNew ==
  ASSUME NEW n \in GraphNames,
         \A p \in Elements(inbox)' :
           ConfigOf(p, n[1], n[2]) => p \in Elements(inbox) \/ p.sequence \in Pending(n),
         \A ack \in Elements(acks[n[1]])' :
           ack.id = n[2] => ack \in Elements(acks[n[1]]) \/ ack.sequence \in Pending(n)
  PROVE  Pending(n)' \subseteq Pending(n)
BY DEF Pending, PendingOf, InFlight, ConfigOf

(* A graph to which nothing happens                                        *)
LEMMA GraphStays ==
  ASSUME NEW n \in GraphNames, Graph(n)' = Graph(n), InSession(n[1])' = InSession(n[1]),
         Pending(n)' \subseteq Pending(n)
  PROVE  Life!Step(n)
BY DEF Life!Step, Life!Stay, Life!NothingAnnounced, Graph, Pending, GraphNames

(* A step that leaves the graphs alone                                     *)
LEMMA GraphsStay ==
  ASSUME UNCHANGED sessionVars, \A n \in GraphNames : Pending(n)' \subseteq Pending(n)
  PROVE  Life!Next
<1>1. ASSUME NEW n \in GraphNames PROVE Life!Step(n)
  BY GraphStays DEF sessionVars, Graph, InSession
<1>2. QED
  BY <1>1 DEF Life!Next, GraphNames

(* The socket of the viewer gives a packet away, or all of them.           *)
LEMMA FewerPackets ==
  ASSUME Typed, inbox' = inbox \/ inbox' = <<>> \/ (inbox # <<>> /\ inbox' = Tail(inbox))
  PROVE  Elements(inbox)' \subseteq Elements(inbox)
<1>1. CASE inbox' = inbox
  BY <1>1 DEF Elements
<1>2. CASE inbox' = <<>>
  BY <1>2 DEF Elements
<1>3. CASE inbox # <<>> /\ inbox' = Tail(inbox)
  <2>1. \A n \in 1 .. Len(inbox') : n + 1 \in 1 .. Len(inbox) /\ inbox'[n] = inbox[n + 1]
    BY <1>3, TailIs DEF Typed
  <2>2. QED
    BY <2>1 DEF Elements
<1>4. QED
  BY <1>1, <1>2, <1>3

(* What the viewer, its user and the network do, but for an answer         *)
LEMMA QuietStep ==
  ASSUME Typed, UNCHANGED sessionVars,
         inbox' = inbox \/ inbox' = <<>> \/ (inbox # <<>> /\ inbox' = Tail(inbox)),
         \A x \in Senders : Elements(acks'[x]) \subseteq Elements(acks[x])
  PROVE  Life!Next
<1>1. ASSUME NEW n \in GraphNames PROVE Pending(n)' \subseteq Pending(n)
  <2>1. n[1] \in Senders
    BY DEF GraphNames
  <2>2. Elements(acks[n[1]])' \subseteq Elements(acks[n[1]])
    BY <2>1 DEF Elements
  <2>3. QED
    BY <2>2, FewerPackets, NothingNew
<1>2. QED
  BY <1>1, GraphsStay

(* An answer takes over the announcement it answers.                       *)
LEMMA AnswerLives ==
  ASSUME SystemInv, AnswerConfig
  PROVE  Life!Next
<1> DEFINE p == Head(inbox)
<1>1. /\ inbox # <<>> /\ p.type = "CONFIG" /\ inbox' = Tail(inbox) /\ Answer(p)
      /\ UNCHANGED sessionVars
  BY DEF AnswerConfig
<1>2. /\ p \in Packets /\ p \in Elements(inbox) /\ p.sender \in Senders /\ p.id \in GraphIds
      /\ p.sequence \in 0 .. MaxSequence
  BY <1>1, HeadIsTimely, PacketKinds DEF Elements
<1> HIDE DEF p
<1>3. /\ \A x \in Senders : x # p.sender => acks'[x] = acks[x]
      /\ \A ack \in Elements(acks'[p.sender]) :
           \/ ack \in Elements(acks[p.sender])
           \/ ack = [id |-> p.id, sequence |-> p.sequence]
  BY <1>1, <1>2, AnswerIs DEF SystemInv
<1>4. Elements(inbox)' \subseteq Elements(inbox)
  BY <1>1, FewerPackets DEF SystemInv
<1>5. ASSUME NEW n \in GraphNames PROVE Pending(n)' \subseteq Pending(n)
  <2>1. n[1] \in Senders
    BY DEF GraphNames
  <2>2. ASSUME NEW ack \in Elements(acks[n[1]])', ack.id = n[2], ack \notin Elements(acks[n[1]])
        PROVE  ack.sequence \in Pending(n)
    <3>1. n[1] = p.sender /\ ack = [id |-> p.id, sequence |-> p.sequence]
      BY <1>3, <2>1, <2>2 DEF Elements
    <3>2. p \in InFlight("CONFIG", n[1]) /\ p.id = n[2] /\ ack.sequence = p.sequence
      BY <1>1, <1>2, <2>2, <3>1 DEF InFlight
    <3>3. QED
      BY <1>2, <3>2 DEF Pending, PendingOf
  <2>3. QED
    BY <1>4, <2>2, NothingNew
<1>6. QED
  BY <1>1, <1>5, GraphsStay

(* A step of one graph, which may take announcements and answers away      *)
LEMMA OneGraphLives ==
  ASSUME Typed, NEW s \in Senders, NEW id \in GraphIds, NEW g \in Graphs \union {NoGraph},
         graphs' = [graphs EXCEPT ![s][id] = g], UNCHANGED session,
         \A n \in GraphNames : n # <<s, id>> => Pending(n)' \subseteq Pending(n),
         Life!Step(<<s, id>>)
  PROVE  Life!Next
<1>1. ASSUME NEW n \in GraphNames PROVE Life!Step(n)
  <2>1. CASE n = <<s, id>>
    BY <2>1
  <2>2. CASE n # <<s, id>>
    <3>1. n[1] \in Senders /\ n[2] \in GraphIds /\ (n[1] # s \/ n[2] # id)
      BY <2>2 DEF GraphNames
    <3>2. Graph(n)' = Graph(n)
      BY <3>1, OneGraphIs DEF Graph
    <3>3. QED
      BY <2>2, <3>2, GraphStays DEF InSession
  <2>3. QED
    BY <2>1, <2>2
<1>2. QED
  BY <1>1 DEF Life!Next, GraphNames

(* What an opcode does leaves the sockets alone.                           *)
LEMMA OpcodeAnnouncesNothing ==
  ASSUME UNCHANGED networkVars, NEW n \in GraphNames
  PROVE  Pending(n)' = Pending(n)
BY DEF networkVars, Pending, PendingOf, InFlight, Elements

(* A new graph: nothing was announced of it.                               *)
LEMMA CreateLives ==
  ASSUME SystemInv, NEW s \in Senders, NEW id \in GraphIds, NEW theme \in FirstThemes,
         CreateGraph(s, id, theme)
  PROVE  Life!Next
<1> DEFINE g == [theme |-> theme, sequence |-> 0, isConfigAcked |-> FALSE,
                 destroyRequested |-> FALSE, closeRequested |-> FALSE, closeSent |-> FALSE]
           n == <<s, id>>
<1>1. /\ g \in Graphs /\ g # NoGraph /\ LifeOf(g) = Life!Fresh
  <2>1. g \in Graphs
    BY SystemAssumption DEF Graphs
  <2>2. LifeOf(g) = Life!Fresh
    BY DEF LifeOf, Life!Fresh
  <2>3. QED
    BY <2>1, <2>2, NothingAssumption
<1>2. /\ n \notin used /\ InSession(s) /\ graphs' = [graphs EXCEPT ![s][id] = g]
      /\ UNCHANGED session /\ UNCHANGED networkVars
  BY DEF CreateGraph
<1> HIDE DEF g
<1>3. graphs[s][id] = NoGraph /\ graphs'[s][id] = g
  BY <1>1, <1>2, OneGraphIs DEF SystemInv, GraphInv, Registered
<1>4. Pending(n) = {}
  <2>1. \A i \in 1 .. Len(inbox) : ~ConfigOf(inbox[i], s, id)
    BY <1>2 DEF SystemInv, InboxInv, Timely, ConfigOf
  <2>2. \A p \in InFlight("CONFIG", s) : p.id # id
    BY <2>1 DEF InFlight, Elements, ConfigOf
  <2>3. \A ack \in Elements(acks[s]) : ack.id # id
    BY <1>2 DEF SystemInv, AckInv
  <2>4. QED
    BY <2>2, <2>3 DEF Pending, PendingOf
<1>5. n \in GraphNames /\ Pending(n)' = {}
  BY <1>2, <1>4, OpcodeAnnouncesNothing DEF GraphNames
<1>6. Life!Create(n)
  BY <1>1, <1>3, <1>5 DEF Life!Create, GraphNames, Pending
<1>7. Life!Step(n)
  BY <1>2, <1>5, <1>6 DEF Life!Step, Life!GraphStep, GraphNames, InSession
<1>8. QED
  BY <1>1, <1>2, <1>7, OneGraphLives, OpcodeAnnouncesNothing DEF SystemInv

(* A theme is changed.                                                     *)
LEMMA ThemeLives ==
  ASSUME SystemInv, NEW s \in Senders, NEW id \in GraphIds, NEW theme \in Themes,
         ChangeTheme(s, id, theme)
  PROVE  Life!Next
<1> DEFINE g == graphs[s][id]
           h == [g EXCEPT !.theme = theme, !.sequence = @ + 1, !.isConfigAcked = FALSE]
           n == <<s, id>>
<1>1. /\ g \in Graphs /\ g.sequence \in 0 .. MaxSequence /\ g.sequence < MaxSequence
      /\ id \in Registered(s)
  BY RegisteredIs DEF SystemInv, ChangeTheme
<1>2. InSession(s) /\ UNCHANGED session /\ UNCHANGED networkVars
  BY DEF ChangeTheme
<1>3. graphs' = [graphs EXCEPT ![s][id] = h]
  BY DEF ChangeTheme, SystemInv, Typed, TypeOK
<1>4. h \in Graphs
  <2>1. g.sequence + 1 \in 0 .. MaxSequence
    BY <1>1, SystemAssumption
  <2>2. h = [g EXCEPT !.theme = theme, !.sequence = g.sequence + 1, !.isConfigAcked = FALSE]
    OBVIOUS
  <2> HIDE DEF h
  <2>3. QED
    BY <1>1, <2>1, <2>2 DEF Graphs
<1>5. LifeOf(h) = [LifeOf(g) EXCEPT !.sequence = @ + 1, !.isConfigAcked = FALSE]
  BY <1>1, <1>4, ThemedLives
<1> HIDE DEF h
<1>6. g # NoGraph /\ h # NoGraph /\ graphs'[s][id] = h
  BY <1>1, <1>3, <1>4, NothingAssumption, OneGraphIs DEF SystemInv
<1>7. n \in GraphNames /\ Pending(n)' = Pending(n)
  BY <1>2, OpcodeAnnouncesNothing DEF GraphNames
<1>8. Life!ChangeTheme(n)
  BY <1>5, <1>6, <1>7 DEF Life!ChangeTheme, Life!Becomes, Life!NothingAnnounced, GraphNames, Pending
<1>9. Life!Step(n)
  BY <1>2, <1>7, <1>8 DEF Life!Step, Life!GraphStep, GraphNames, InSession
<1>10. QED
  BY <1>2, <1>3, <1>4, <1>9, OneGraphLives, OpcodeAnnouncesNothing DEF SystemInv

(* The end of a graph is asked for.                                        *)
LEMMA DestroyLives ==
  ASSUME SystemInv, NEW s \in Senders, NEW id \in GraphIds, NEW closeWindow \in BOOLEAN,
         RequestDestroy(s, id, closeWindow)
  PROVE  Life!Next
<1> DEFINE g == graphs[s][id]
           h == [g EXCEPT !.destroyRequested = TRUE, !.closeRequested = closeWindow]
           n == <<s, id>>
<1>1. g \in Graphs /\ id \in Registered(s) /\ ~g.destroyRequested
  BY RegisteredIs DEF SystemInv, RequestDestroy
<1>2. InSession(s) /\ UNCHANGED session /\ UNCHANGED networkVars
  BY DEF RequestDestroy
<1>3. graphs' = [graphs EXCEPT ![s][id] = h]
  BY DEF RequestDestroy, SystemInv, Typed, TypeOK
<1>4. h \in Graphs
  BY <1>1 DEF Graphs
<1>5. /\ LifeOf(h) = [LifeOf(g) EXCEPT !.destroyRequested = TRUE, !.closeRequested = closeWindow]
      /\ ~LifeOf(g).destroyRequested
  BY <1>1, <1>4, EndedLives DEF LifeOf
<1> HIDE DEF h
<1>6. g # NoGraph /\ h # NoGraph /\ graphs'[s][id] = h
  BY <1>1, <1>3, <1>4, NothingAssumption, OneGraphIs DEF SystemInv
<1>7. n \in GraphNames /\ Pending(n)' = Pending(n)
  BY <1>2, OpcodeAnnouncesNothing DEF GraphNames
<1>8. Life!RequestDestroy(n)
  BY <1>5, <1>6, <1>7
     DEF Life!RequestDestroy, Life!Becomes, Life!NothingAnnounced, GraphNames, Pending
<1>9. Life!Step(n)
  BY <1>2, <1>7, <1>8 DEF Life!Step, Life!GraphStep, GraphNames, InSession
<1>10. QED
  BY <1>2, <1>3, <1>4, <1>9, OneGraphLives, OpcodeAnnouncesNothing DEF SystemInv

(* A graph leaves the registry.                                            *)
LEMMA FreeLives ==
  ASSUME SystemInv, NEW s \in Senders, NEW id \in GraphIds, FreeGraph(s, id)
  PROVE  Life!Next
<1> DEFINE g == graphs[s][id]
           n == <<s, id>>
<1>1. /\ g # NoGraph /\ LifeOf(g).destroyRequested
      /\ LifeOf(g).isConfigAcked \/ LifeOf(g).closeRequested
  BY DEF FreeGraph, Waiting, Registered, LifeOf
<1>2. /\ InSession(s) /\ UNCHANGED session /\ UNCHANGED networkVars
      /\ graphs' = [graphs EXCEPT ![s][id] = NoGraph]
  BY DEF FreeGraph
<1>3. graphs'[s][id] = NoGraph
  BY <1>2, OneGraphIs DEF SystemInv
<1>4. n \in GraphNames /\ Pending(n)' = Pending(n)
  BY <1>2, OpcodeAnnouncesNothing DEF GraphNames
<1>5. Life!Free(n)
  BY <1>1, <1>3, <1>4 DEF Life!Free, Life!Waiting, Life!NothingAnnounced, GraphNames, Pending
<1>6. Life!Step(n)
  BY <1>2, <1>4, <1>5 DEF Life!Step, Life!GraphStep, GraphNames, InSession
<1>7. QED
  BY <1>2, <1>6, OneGraphLives, OpcodeAnnouncesNothing DEF SystemInv

(* An answer arrives: it counts if it was announced as the graph is now.   *)
LEMMA AckLives ==
  ASSUME SystemInv, NEW s \in Senders, ReceiveAck(s)
  PROVE  Life!Next
<1> DEFINE ack == Head(acks[s])
<1>1. /\ \A x \in Senders : Elements(acks'[x]) \subseteq Elements(acks[x])
      /\ ack \in Elements(acks[s])
  BY FewerAnswers DEF ReceiveAck, SystemInv
<1>2. InSession(s) /\ UNCHANGED <<session, used, inbox>>
  BY DEF ReceiveAck
<1>3. PICK id \in GraphIds : id = ack.id
  BY <1>1 DEF SystemInv, Typed, TypeOK, Acks
<1> DEFINE g == graphs[s][id]
           h == [g EXCEPT !.isConfigAcked = TRUE]
           n == <<s, id>>
<1>4. ASSUME NEW m \in GraphNames PROVE Pending(m)' \subseteq Pending(m)
  <2>1. m[1] \in Senders
    BY DEF GraphNames
  <2>2. Elements(acks[m[1]])' \subseteq Elements(acks[m[1]])
    BY <1>1, <2>1 DEF Elements
  <2>3. Elements(inbox)' = Elements(inbox)
    BY <1>2 DEF Elements
  <2>4. QED
    BY <2>2, <2>3, NothingNew
<1>5. CASE id \in Registered(s) /\ g.sequence = ack.sequence
  <2>1. g \in Graphs /\ g.sequence \in 0 .. MaxSequence
    BY <1>5, RegisteredIs DEF SystemInv
  <2>2. graphs' = [graphs EXCEPT ![s][id] = h]
    BY <1>3, <1>5 DEF ReceiveAck, SystemInv, Typed, TypeOK
  <2>3. h \in Graphs
    BY <2>1 DEF Graphs
  <2>4. LifeOf(h) = [LifeOf(g) EXCEPT !.isConfigAcked = TRUE] /\ LifeOf(g).sequence = g.sequence
    BY <2>1, <2>3, AckedLives, GraphHasLife
  <2> HIDE DEF h
  <2>5. g # NoGraph /\ h # NoGraph /\ graphs'[s][id] = h
    BY <1>3, <2>1, <2>2, <2>3, NothingAssumption, OneGraphIs DEF SystemInv
  <2>6. n \in GraphNames /\ Pending(n)' \subseteq Pending(n)
    BY <1>3, <1>4 DEF GraphNames
  <2>7. g.sequence \in Pending(n)
    BY <1>1, <1>3, <1>5, <2>1 DEF Pending, PendingOf
  <2>8. Life!Answer(n)
    BY <2>4, <2>5, <2>6, <2>7 DEF Life!Answer, Life!Becomes, Life!NothingAnnounced, GraphNames, Pending
  <2>9. Life!Step(n)
    BY <1>2, <2>6, <2>8 DEF Life!Step, Life!GraphStep, GraphNames, InSession
  <2>10. QED
    BY <1>2, <1>3, <1>4, <2>2, <2>3, <2>9, OneGraphLives DEF SystemInv
<1>6. CASE ~(id \in Registered(s) /\ g.sequence = ack.sequence)
  <2>1. UNCHANGED sessionVars
    BY <1>2, <1>3, <1>6 DEF ReceiveAck, sessionVars
  <2>2. QED
    BY <1>4, <2>1, GraphsStay
<1>7. QED
  BY <1>5, <1>6

(* What is sent is what was there, and the packets.                        *)
LEMMA SentAre ==
  ASSUME Typed, NEW packets \in Seq(Packets), Send(packets)
  PROVE  \A p \in Elements(inbox)' :
           p \in Elements(inbox) \/ \E n \in 1 .. Len(packets) : p = packets[n]
<1> SUFFICES ASSUME NEW n \in 1 .. Len(inbox')
             PROVE  \/ inbox'[n] \in Elements(inbox)
                    \/ \E m \in 1 .. Len(packets) : inbox'[n] = packets[m]
  BY DEF Elements
<1>1. inbox \in Seq(Packets)
  BY DEF Typed
<1>2. CASE n > Len(inbox)
  BY <1>2, SentIs
<1>3. CASE ~(n > Len(inbox))
  <2>1. n \in 1 .. Len(inbox)
    BY <1>1, <1>3
  <2>2. QED
    BY <2>1, SentIs DEF Elements
<1>4. QED
  BY <1>2, <1>3

(* A graph that waits is announced as it is now.                           *)
LEMMA ConfigLives ==
  ASSUME SystemInv, NEW s \in Senders, NEW id \in GraphIds, SendConfig(s, id)
  PROVE  Life!Next
<1> DEFINE g == graphs[s][id]
           c == [type |-> "CONFIG", sender |-> s, id |-> id, theme |-> g.theme,
                 sequence |-> g.sequence]
           n == <<s, id>>
<1>1. /\ id \in Registered(s) /\ ~g.isConfigAcked /\ ~g.closeRequested /\ InSession(s)
      /\ Send(<<c>>) /\ UNCHANGED sessionVars /\ UNCHANGED acks
  BY DEF SendConfig, Waiting
<1>2. g \in Graphs /\ g.sequence \in 0 .. MaxSequence /\ g # NoGraph
  BY <1>1, RegisteredIs DEF SystemInv, Registered
<1>3. /\ <<c>> \in Seq(Packets) /\ \A i \in 1 .. Len(<<c>>) : <<c>>[i] = c
      /\ c.sender = s /\ c.id = id /\ c.sequence = g.sequence
  BY <1>2 DEF Packets, Configs, Graphs
<1> HIDE DEF c
<1>4. \A p \in Elements(inbox)' : p \in Elements(inbox) \/ p = c
  BY <1>1, <1>3, SentAre DEF SystemInv
<1>5. \A m \in GraphNames : Elements(acks[m[1]])' = Elements(acks[m[1]])
  BY <1>1 DEF Elements
<1>6. ASSUME NEW m \in GraphNames, m # n PROVE Pending(m)' \subseteq Pending(m)
  <2>1. m[1] # s \/ m[2] # id
    BY <1>6 DEF GraphNames
  <2>2. ~ConfigOf(c, m[1], m[2])
    BY <1>3, <2>1 DEF ConfigOf
  <2>3. QED
    BY <1>4, <1>5, <2>2, NothingNew
<1>7. Pending(n)' \subseteq Pending(n) \union {g.sequence}
  BY <1>3, <1>4, <1>5 DEF Pending, PendingOf, InFlight, GraphNames
<1>8. /\ n \in GraphNames /\ LifeOf(g).sequence = g.sequence
      /\ ~LifeOf(g).isConfigAcked /\ ~LifeOf(g).closeRequested
  BY <1>1 DEF GraphNames, LifeOf
<1>9. UNCHANGED <<session, graphs>>
  BY <1>1 DEF sessionVars
<1>10. Life!Announce(n)
  BY <1>2, <1>7, <1>8, <1>9 DEF Life!Announce, Life!Waiting, Life!Becomes, GraphNames, Pending
<1>11. Life!Step(n)
  BY <1>1, <1>8, <1>9, <1>10 DEF Life!Step, Life!GraphStep, GraphNames, InSession
<1>12. \A m \in GraphNames : m # n => Life!Step(m)
  BY <1>6, <1>9, GraphStays DEF Graph, InSession
<1>13. QED
  BY <1>11, <1>12 DEF Life!Next, GraphNames

(* The viewer is asked to close a window.                                  *)
LEMMA GraphCloseLives ==
  ASSUME SystemInv, NEW s \in Senders, NEW id \in GraphIds, SendGraphClose(s, id)
  PROVE  Life!Next
<1> DEFINE g == graphs[s][id]
           h == [g EXCEPT !.closeSent = TRUE]
           p == [type |-> "GRAPH_CLOSE", sender |-> s, id |-> id]
           n == <<s, id>>
<1>1. /\ id \in Registered(s) /\ g.isConfigAcked /\ g.closeRequested /\ InSession(s)
      /\ Send(Repeated(p)) /\ UNCHANGED <<session, acks>>
  BY DEF SendGraphClose
<1>2. g \in Graphs
  BY <1>1, RegisteredIs DEF SystemInv
<1>3. graphs' = [graphs EXCEPT ![s][id] = h]
  BY DEF SendGraphClose, SystemInv, Typed, TypeOK
<1>4. h \in Graphs
  BY <1>2 DEF Graphs
<1>5. /\ LifeOf(h) = [LifeOf(g) EXCEPT !.closeSent = TRUE]
      /\ LifeOf(g).isConfigAcked /\ LifeOf(g).closeRequested
  BY <1>1, <1>2, <1>4, ToldLives DEF LifeOf
<1>6. p \in Packets /\ p.type = "GRAPH_CLOSE"
  BY DEF Packets, GraphCloses
<1> HIDE DEF h, p
<1>7. g # NoGraph /\ h # NoGraph /\ graphs'[s][id] = h
  BY <1>2, <1>3, <1>4, NothingAssumption, OneGraphIs DEF SystemInv
<1>8. \A q \in Elements(inbox)' : q.type = "CONFIG" => q \in Elements(inbox)
  BY <1>1, <1>6, RepeatedIs, SentAre DEF SystemInv
<1>9. ASSUME NEW m \in GraphNames PROVE Pending(m)' \subseteq Pending(m)
  <2>1. Elements(acks[m[1]])' = Elements(acks[m[1]])
    BY <1>1 DEF Elements
  <2>2. QED
    BY <1>8, <2>1, NothingNew DEF ConfigOf
<1>10. n \in GraphNames
  BY DEF GraphNames
<1>11. Life!SendClose(n)
  BY <1>5, <1>7, <1>9, <1>10
     DEF Life!SendClose, Life!Becomes, Life!NothingAnnounced, GraphNames, Pending
<1>12. Life!Step(n)
  BY <1>1, <1>10, <1>11 DEF Life!Step, Life!GraphStep, GraphNames, InSession
<1>13. QED
  BY <1>1, <1>3, <1>4, <1>9, <1>12, OneGraphLives DEF SystemInv

(* A session that ends takes its graphs with it.                           *)
LEMMA EndLives ==
  ASSUME SystemInv, NEW s \in Senders, EndSession(s)
  PROVE  Life!Next
<1> DEFINE p == Farewell(s)
           none == [id \in GraphIds |-> NoGraph]
<1>1. /\ InSession(s) /\ session' = [session EXCEPT ![s] = "ended"]
      /\ graphs' = [graphs EXCEPT ![s] = none]
      /\ Send(Repeated(p)) /\ acks' = [acks EXCEPT ![s] = <<>>]
  BY DEF EndSession, Farewell
<1>2. p \in Packets /\ p.type = "SESSION_CLOSE"
  BY DEF Packets, SessionCloses, Farewell
<1>3. \A id \in GraphIds : none[id] = NoGraph
  OBVIOUS
<1> HIDE DEF p, none
<1>4. /\ session'[s] = "ended" /\ \A x \in Senders : x # s => session'[x] = session[x]
      /\ graphs'[s] = none /\ \A x \in Senders : x # s => graphs'[x] = graphs[x]
      /\ acks'[s] = <<>> /\ \A x \in Senders : x # s => acks'[x] = acks[x]
  BY <1>1 DEF SystemInv, Typed, TypeOK
<1>5. \A q \in Elements(inbox)' : q.type = "CONFIG" => q \in Elements(inbox)
  BY <1>1, <1>2, RepeatedIs, SentAre DEF SystemInv
<1>6. ASSUME NEW n \in GraphNames PROVE Pending(n)' \subseteq Pending(n)
  <2>1. n[1] \in Senders
    BY DEF GraphNames
  <2>2. Elements(acks[n[1]])' \subseteq Elements(acks[n[1]])
    BY <1>4, <2>1 DEF Elements
  <2>3. QED
    BY <1>5, <2>2, NothingNew DEF ConfigOf
<1>7. ASSUME NEW n \in GraphNames PROVE Life!Step(n)
  <2>1. n[1] \in Senders /\ n[2] \in GraphIds
    BY DEF GraphNames
  <2>2. CASE n[1] = s
    <3>1. /\ session[n[1]] = "running" /\ session'[n[1]] # "running"
          /\ graphs'[n[1]][n[2]] = NoGraph
      BY <1>1, <1>3, <1>4, <2>1, <2>2 DEF InSession
    <3>2. Life!EndSession(n)
      BY <1>6, <3>1 DEF Life!EndSession, Life!NothingAnnounced, InSession, GraphNames, Pending
    <3>3. QED
      BY <3>1, <3>2 DEF Life!Step, InSession, GraphNames
  <2>3. CASE n[1] # s
    BY <1>4, <1>6, <2>1, <2>3, GraphStays DEF Graph, InSession
  <2>4. QED
    BY <2>2, <2>3
<1>8. QED
  BY <1>7 DEF Life!Next, GraphNames

(* What the viewer, its user and the network do is nothing to a graph, but *)
(* that an answer may come or be lost.                                     *)
LEMMA OthersLive ==
  ASSUME SystemInv,
         ViewerStep \/ UserStep \/ NetworkStep \/ UNCHANGED vars
         \/ \E s \in Senders : LaunchViewer(s)
  PROVE  Life!Next
<1>1. Typed
  BY DEF SystemInv
<1>2. CASE AnswerConfig
  BY <1>2, AnswerLives
<1>3. CASE IgnoreConfig \/ ReceiveGraphClose \/ ReceiveSessionClose \/ ShutDown
  <2>1. /\ UNCHANGED <<sessionVars, acks>>
        /\ inbox' = <<>> \/ (inbox # <<>> /\ inbox' = Tail(inbox))
    BY <1>3 DEF IgnoreConfig, ReceiveGraphClose, ReceiveSessionClose, ShutDown
  <2>2. QED
    BY <1>1, <2>1, QuietStep DEF Elements
<1>4. CASE UserStep
  <2>1. UNCHANGED <<sessionVars, acks>> /\ (inbox' = inbox \/ inbox' = <<>>)
    BY <1>4 DEF UserStep, UserCloses, UserQuits
  <2>2. QED
    BY <1>1, <2>1, QuietStep DEF Elements
<1>5. CASE LosePacket
  <2>1. UNCHANGED <<sessionVars, acks>> /\ inbox # <<>> /\ inbox' = Tail(inbox)
    BY <1>5 DEF LosePacket
  <2>2. QED
    BY <1>1, <2>1, QuietStep DEF Elements
<1>6. ASSUME NEW s \in Senders, LoseAck(s) PROVE Life!Next
  BY <1>1, <1>6, FewerAnswers, QuietStep DEF LoseAck
<1>7. CASE UNCHANGED vars \/ \E s \in Senders : LaunchViewer(s)
  <2>1. UNCHANGED sessionVars /\ UNCHANGED <<inbox, acks>>
    BY <1>7 DEF vars, LaunchViewer, networkVars
  <2>2. QED
    BY <1>1, <2>1, QuietStep DEF Elements
<1>8. QED
  BY <1>2, <1>3, <1>4, <1>5, <1>6, <1>7 DEF ViewerStep, NetworkStep

(* Every step of the system is a step of each graph.                       *)
LEMMA NextLives ==
  ASSUME SystemInv, [Next]_vars
  PROVE  Life!Next
<1>1. ASSUME NEW s \in Senders, SessionStep(s) PROVE Life!Next
  <2>1. CASE LaunchViewer(s)
    BY <2>1, OthersLive
  <2>2. CASE ReceiveAck(s) \/ EndSession(s)
    BY <2>2, AckLives, EndLives
  <2>3. ASSUME NEW id \in GraphIds, NEW theme, NEW closeWindow \in BOOLEAN,
               \/ theme \in FirstThemes /\ CreateGraph(s, id, theme)
               \/ theme \in Themes /\ ChangeTheme(s, id, theme)
               \/ RequestDestroy(s, id, closeWindow)
               \/ SendConfig(s, id) \/ SendGraphClose(s, id) \/ FreeGraph(s, id)
        PROVE  Life!Next
    BY <2>3, CreateLives, ThemeLives, DestroyLives, ConfigLives, GraphCloseLives, FreeLives
  <2>4. QED
    BY <1>1, <2>1, <2>2, <2>3 DEF SessionStep
<1>2. QED
  BY <1>1, OthersLive DEF Next, Over

(* Seen from one graph, the sessions, the sockets and the viewer do what   *)
(* GraphLife allows. WatchRegistry refines GraphLife too: what WatchSystem *)
(* leaves out of a session, its opcodes, its notes and its streams, does   *)
(* not let a graph do more.                                                *)
THEOREM GraphsLiveInSystem == Spec => LifeSpec
<1>1. Init => Life!Init
  <2> SUFFICES ASSUME Init PROVE Life!Init
    OBVIOUS
  <2>1. Elements(inbox) = {} /\ \A s \in Senders : Elements(acks[s]) = {}
    BY DEF Init, Elements
  <2>2. ASSUME NEW n \in GraphNames
        PROVE  /\ InSession(n[1]) /\ graphs[n[1]][n[2]] = NoGraph
               /\ PendingOf(n[1], n[2]) = {}
    <3>1. n[1] \in Senders /\ n[2] \in GraphIds
      BY DEF GraphNames
    <3>2. QED
      BY <2>1, <3>1 DEF Init, InSession, PendingOf, InFlight
  <2>3. QED
    BY <2>2 DEF Life!Init, GraphNames
<1>2. SystemInv /\ [Next]_vars => Life!Next
  BY NextLives
<1>3. QED
  BY <1>1, <1>2, SystemIsInv, PTL DEF Spec, LifeSpec, Life!Spec


-----------------------------------------------------------------------------
(* When a viewer is launched                                               *)

(* The error that is remembered is that of the last launch, and was told.  *)
ErrorInv == told = lastError /\ outcome = lastError

(* The inductive invariant                                                 *)
LaunchInv == LaunchTypeOK /\ ErrorInv /\ OneViewerStarts

-----------------------------------------------------------------------------
(* An age keeps to its bound, and is exact below it.                       *)
LEMMA OlderIsBounded ==
  ASSUME NEW oldest \in Nat, NEW age \in 0 .. oldest, NEW step \in Nat
  PROVE  /\ Aged(age, step, oldest) \in 0 .. oldest
         /\ age + step < oldest => Aged(age, step, oldest) = age + step
BY DEF Aged

(* It holds at first.                                                      *)
LEMMA InitLaunch == LaunchInit => LaunchInv
BY LaunchAssumption
   DEF LaunchInit, LaunchInv, LaunchTypeOK, ErrorInv, OneViewerStarts, Errors, Success, Off,
       FileKinds, Unanswered

(* A launch does not come while a viewer is starting: it takes longer to   *)
(* become due again than a viewer takes to start.                          *)
LEMMA NoLaunchWhileStarting ==
  ASSUME LaunchInv, NEW step \in Nat, MayLaunch(step),
         process = "starting" => startAge + step <= StartUp
  PROVE  process # "starting"
BY LaunchAssumption DEF LaunchInv, LaunchTypeOK, OneViewerStarts, MayLaunch

(* The files stay files.                                                   *)
LEMMA LaunchKeepsFiles ==
  ASSUME LaunchInv, NEW step, NEW result, Launched(step, result)
  PROVE  disk' \in [PlaceNames -> FileKinds]
<1>1. disk \in [PlaceNames -> FileKinds]
  BY DEF LaunchInv, LaunchTypeOK
<1>2. QED
  BY <1>1 DEF Launched, FileKinds

(* A pass of the sender thread.                                            *)
LEMMA PassKeepsLaunch ==
  ASSUME LaunchInv, NEW step \in 1 .. LongestPass, NEW result \in Errors \union {Success},
         LaunchPass(step, result)
  PROVE  LaunchInv'
<1>1. step \in Nat \ {0}
  BY LaunchAssumption
<1>2. /\ status \in [LaunchGraphs -> {"none", "waiting", "answered"}]
      /\ configAge \in [LaunchGraphs -> 0 .. ConfigRetry] /\ ConfigRetry \in Nat
      /\ probeAge \in {Off} \union 0 .. ProbeDelay /\ ProbeDelay \in Nat
      /\ launchAge \in 0 .. RelaunchDelay /\ RelaunchDelay \in Nat \ {0}
      /\ disk \in [PlaceNames -> FileKinds]
      /\ process \in {"none", "starting", "running"}
      /\ startAge \in 0 .. StartUp /\ StartUp \in Nat /\ StartUp < RelaunchDelay
      /\ asked \subseteq Unanswered /\ (asked # {} => process = "running")
      /\ process = "starting" => startAge = launchAge
  BY LaunchAssumption DEF LaunchInv, LaunchTypeOK, OneViewerStarts
<1>3. process = "starting" => startAge + step <= StartUp
  BY DEF LaunchPass
<1>4. UNCHANGED <<status, quits>> /\ Unanswered' = Unanswered
  BY DEF LaunchPass, Unanswered
<1>5. configAge' \in [LaunchGraphs -> 0 .. ConfigRetry]
  <2>1. \A g \in LaunchGraphs : Aged(configAge[g], step, ConfigRetry) \in 0 .. ConfigRetry
    BY <1>1, <1>2, OlderIsBounded
  <2>2. configAge' = [g \in LaunchGraphs |->
          IF g \in DueConfigs(step) THEN 0 ELSE Aged(configAge[g], step, ConfigRetry)]
    BY DEF LaunchPass
  <2>3. QED
    BY <1>2, <2>1, <2>2
<1>6. probeAge' \in {Off} \union 0 .. ProbeDelay
  <2>1. probeAge # Off => Aged(probeAge, step, ProbeDelay) \in 0 .. ProbeDelay
    BY <1>1, <1>2, OlderIsBounded
  <2>2. probeAge' = Probed(step)
    BY DEF LaunchPass
  <2>3. QED
    BY <1>2, <2>1, <2>2 DEF Probed
<1>7. asked' \subseteq Unanswered /\ (asked' # {} => process = "running")
  BY <1>2 DEF LaunchPass, DueConfigs
<1>8. CASE HasUnacked(step) /\ MayLaunch(step)
  <2>1. TryLaunch(step, result) /\ launchAge' = 0
    BY <1>8 DEF LaunchPass
  <2>2. process # "starting"
    BY <1>1, <1>3, <1>8, NoLaunchWhileStarting
  <2>3. disk' \in [PlaceNames -> FileKinds]
    BY <2>1, LaunchKeepsFiles DEF TryLaunch
  <2>4. \/ process' = "starting" /\ startAge' = 0 /\ process = "none"
        \/ UNCHANGED <<process, startAge>>
    BY <2>1, <2>2 DEF TryLaunch, Launched, Starting
  <2>5. /\ outcome' = result /\ lastError' = result /\ told' = result
    BY <2>1 DEF TryLaunch, Remembered, LaunchInv, ErrorInv, Success
  <2>6. process' = "starting" => startAge' = launchAge'
    BY <2>1, <2>2, <2>4
  <2>7. LaunchTypeOK'
    BY <1>2, <1>4, <1>5, <1>6, <1>7, <2>1, <2>3, <2>4, <2>5 DEF LaunchInv, LaunchTypeOK
  <2>8. QED
    BY <2>5, <2>6, <2>7 DEF LaunchInv, ErrorInv, OneViewerStarts
<1>9. CASE ~(HasUnacked(step) /\ MayLaunch(step))
  <2>1. /\ Starting(step) /\ launchAge' = Aged(launchAge, step, RelaunchDelay)
        /\ UNCHANGED <<outcome, lastError, told, disk>>
    BY <1>9 DEF LaunchPass
  <2>2. /\ process' = process
        /\ startAge' = IF process = "starting" THEN startAge + step ELSE startAge
    BY <2>1 DEF Starting
  <2>3. startAge' \in 0 .. StartUp
    BY <1>1, <1>2, <1>3, <2>2
  <2>4. launchAge' \in 0 .. RelaunchDelay
    BY <1>1, <1>2, <2>1, OlderIsBounded
  <2>5. process' = "starting" => startAge' = launchAge'
    BY <1>1, <1>2, <1>3, <2>1, <2>2, OlderIsBounded
  <2>6. LaunchTypeOK'
    BY <1>2, <1>4, <1>5, <1>6, <1>7, <2>1, <2>2, <2>3, <2>4 DEF LaunchInv, LaunchTypeOK
  <2>7. QED
    BY <2>1, <2>5, <2>6 DEF LaunchInv, ErrorInv, OneViewerStarts
<1>10. QED
  BY <1>8, <1>9

(* The other steps                                                         *)
LEMMA NextLaunch == LaunchInv /\ [LaunchNext]_launchVars => LaunchInv'
<1> SUFFICES ASSUME LaunchInv, [LaunchNext]_launchVars PROVE LaunchInv'
  OBVIOUS
<1> USE DEF LaunchInv, LaunchTypeOK, ErrorInv, OneViewerStarts, Unanswered
<1>1. CASE SomePass
  BY <1>1, PassKeepsLaunch DEF SomePass
<1>2. ASSUME NEW g \in LaunchGraphs, NeedsAnswer(g) PROVE LaunchInv'
  BY <1>2, LaunchAssumption DEF NeedsAnswer
<1>3. ASSUME NEW g \in LaunchGraphs, GivenUp(g) PROVE LaunchInv'
  BY <1>3 DEF GivenUp
<1>4. ASSUME NEW g \in LaunchGraphs, ViewerAnswers(g) PROVE LaunchInv'
  BY <1>4 DEF ViewerAnswers
<1>5. CASE ViewerBinds
  BY <1>5, LaunchAssumption DEF ViewerBinds, timerVars
<1>6. CASE ViewerQuits
  BY <1>6, LaunchAssumption DEF ViewerQuits, timerVars
<1>7. ASSUME NEW place \in PlaceNames, NEW kind \in FileKinds, Install(place, kind)
      PROVE  LaunchInv'
  BY <1>7 DEF Install, timerVars, processVars
<1>8. CASE UNCHANGED launchVars
  BY <1>8 DEF launchVars, timerVars, processVars
<1>9. QED
  BY <1>1, <1>2, <1>3, <1>4, <1>5, <1>6, <1>7, <1>8 DEF LaunchNext

-----------------------------------------------------------------------------
(* LaunchInv holds in every state.                                         *)
THEOREM LaunchSafe == LaunchSpec => []LaunchInv
BY InitLaunch, NextLaunch, PTL DEF LaunchSpec

(* When a launch fails, the error it failed with is the last one reported, *)
(* although try_launch_viewer reports an error only once.                  *)
THEOREM FailureIsAlwaysKnown == LaunchSpec => []FailureIsKnown
<1>1. LaunchInv => FailureIsKnown
  BY DEF LaunchInv, ErrorInv, FailureIsKnown
<1>2. QED
  BY <1>1, LaunchSafe, PTL

(* The relaunch delay keeps a second viewer from being started while the   *)
(* first one has not got to its port.                                      *)
THEOREM NeverTwoStart == LaunchSpec => []OneViewerStarts
BY LaunchSafe, PTL DEF LaunchInv
==============================================================================
