----------------------------- MODULE WatchViewer -----------------------------
(***************************************************************************)
(* The window table and the life of the viewer process (watch_viewer.c):   *)
(* what each packet, each window event and the shutdown deadline do to     *)
(* them. A graph belongs to the endpoint its configuration came from.      *)
(* WatchSystem says where the packets come from and where the answers go.  *)
(***************************************************************************)
EXTENDS Integers

CONSTANTS
  Senders,          \* UDP endpoints of the Csound sessions
  GraphIds,         \* graph identifiers, chosen by each session
  Themes,
  MaxViewerGraphs,  \* MAX_VIEWER_GRAPHS
  NoWindow

ASSUME ViewerAssumption ==
  /\ MaxViewerGraphs \in Nat \ {0}
  /\ NoWindow \notin [sender : Senders, id : GraphIds, theme : Themes]

VARIABLES
  viewer,            \* "off" or "running"
  windows,           \* the table graphs[]: a slot in use is ready
  shutdownDeadline   \* "none" or "armed": 500 ms after it was armed it expires

viewerVars == <<viewer, windows, shutdownDeadline>>

Slots == 0 .. MaxViewerGraphs - 1
Windows == [sender : Senders, id : GraphIds, theme : Themes]

ViewerTypeOK ==
  /\ viewer \in {"off", "running"}
  /\ windows \in [Slots -> Windows \union {NoWindow}]
  /\ shutdownDeadline \in {"none", "armed"}

ViewerInit ==
  /\ viewer = "off"
  /\ windows = [i \in Slots |-> NoWindow]
  /\ shutdownDeadline = "none"

Ready == {i \in Slots : windows[i] # NoWindow}
OpenWindows == {windows[i] : i \in Ready}
FindGraph(sender, id) == {i \in Ready : windows[i].sender = sender /\ windows[i].id = id}

Running == viewer = "running"
NoneLeft(slots) == Ready \subseteq slots

(* destroy_graph *)
Destroy(slots) == windows' = [i \in Slots |-> IF i \in slots THEN NoWindow ELSE windows[i]]

(* A process whose bind fails exits at once, so only one viewer ever runs. *)
StartViewer ==
  /\ ~Running
  /\ viewer' = "running"
  /\ windows' = [i \in Slots |-> NoWindow]
  /\ shutdownDeadline' = "none"

(* The end of main: every window goes with the process.                    *)
StopViewer ==
  /\ viewer' = "off"
  /\ Destroy(Slots)
  /\ shutdownDeadline' = "none"

-----------------------------------------------------------------------------
(* Mutant: every configuration opens a window.                             *)
OpenAnotherWindow(sender, id, theme) ==
  /\ Running
  /\ \E i \in Slots \ Ready :
       /\ \A j \in Slots \ Ready : i <= j
       /\ windows' = [windows EXCEPT ![i] = [sender |-> sender, id |-> id, theme |-> theme]]
  /\ shutdownDeadline' = "none"
  /\ UNCHANGED viewer

(* process_config_packet. A configuration answered opens a window in the   *)
(* first free slot or, when the graph has one, applies its theme.          *)
OpenWindow(sender, id, theme) ==
  /\ Running
  /\ FindGraph(sender, id) = {}
  /\ \E i \in Slots \ Ready :
       /\ \A j \in Slots \ Ready : i <= j
       /\ windows' = [windows EXCEPT ![i] = [sender |-> sender, id |-> id, theme |-> theme]]
  /\ shutdownDeadline' = "none"
  /\ UNCHANGED viewer

ApplyTheme(sender, id, theme) ==
  /\ Running
  /\ \E i \in FindGraph(sender, id) : windows' = [windows EXCEPT ![i].theme = theme]
  /\ shutdownDeadline' = "none"
  /\ UNCHANGED viewer

(* No free slot, or no memory or window for the graph: no answer is sent.  *)
RefuseConfig(sender, id) ==
  /\ Running
  /\ FindGraph(sender, id) = {}
  /\ shutdownDeadline' = IF Ready # {} THEN "none" ELSE shutdownDeadline
  /\ UNCHANGED <<viewer, windows>>

(* process_graph_close_packet: never a reason to shut down.                *)
CloseGraph(sender, id) ==
  /\ Running
  /\ Destroy(FindGraph(sender, id))
  /\ UNCHANGED <<viewer, shutdownDeadline>>

(* Mutant: a session takes the windows of the others with it.              *)
CloseEverything(sender) ==
  /\ Running
  /\ Destroy(Ready)
  /\ shutdownDeadline' = IF Ready # {} THEN "armed" ELSE shutdownDeadline
  /\ UNCHANGED viewer

(* process_session_close_packet: the deadline is armed when it closed the  *)
(* last windows, and only then.                                            *)
CloseSession(sender) ==
  /\ Running
  /\ LET mine == {i \in Ready : windows[i].sender = sender}
     IN /\ Destroy(mine)
        /\ shutdownDeadline' =
             IF mine # {} /\ NoneLeft(mine) THEN "armed" ELSE shutdownDeadline
  /\ UNCHANGED viewer

(* The user closes a window, and with the last one the viewer.             *)
DismissWindow(i) ==
  /\ Running /\ i \in Ready
  /\ IF NoneLeft({i}) THEN StopViewer
     ELSE Destroy({i}) /\ UNCHANGED <<viewer, shutdownDeadline>>

DeadlineExpires ==
  /\ Running /\ shutdownDeadline = "armed"
  /\ Ready = {}
  /\ StopViewer
=============================================================================
