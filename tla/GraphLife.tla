------------------------------ MODULE GraphLife ------------------------------
(***************************************************************************)
(* What becomes of a graph once an opcode has registered it, whatever the  *)
(* notes, the streams and the sender thread of its session do: its         *)
(* configuration is announced until the viewer has answered the one it     *)
(* has now; its end is asked for once, with its window or without; and it  *)
(* leaves only then, and not as long as it waits for an answer.            *)
(*                                                                         *)
(* The graphs of WatchRegistry, with their notes and streams, and those of *)
(* WatchSystem, with their packets and windows, both live like this.       *)
(***************************************************************************)
EXTENDS Integers

CONSTANT Names

VARIABLES
  running,    \* of each name: its session is not over
  registered, \* of each name: there is a graph of that name
  life,       \* of each graph: what is known and asked of it
  pending     \* of each name: the configurations an answer may still come to

lifeVars == <<running, registered, life, pending>>

Fresh == [sequence |-> 0, isConfigAcked |-> FALSE, destroyRequested |-> FALSE,
          closeRequested |-> FALSE, closeSent |-> FALSE]

Init ==
  /\ running = [n \in Names |-> TRUE]
  /\ registered = [n \in Names |-> FALSE]
  /\ pending = [n \in Names |-> {}]

Waiting(n) == ~life[n].isConfigAcked /\ ~life[n].closeRequested

NothingAnnounced(n) == pending'[n] \subseteq pending[n]

Becomes(n, g) == registered'[n] /\ life'[n] = g

Create(n) ==
  /\ ~registered[n] /\ registered'[n]
  /\ life'[n] = Fresh /\ pending'[n] = {}

ChangeTheme(n) ==
  /\ registered[n]
  /\ Becomes(n, [life[n] EXCEPT !.sequence = @ + 1, !.isConfigAcked = FALSE])
  /\ NothingAnnounced(n)

Announce(n) ==
  /\ registered[n] /\ Waiting(n)
  /\ Becomes(n, life[n])
  /\ pending'[n] \subseteq pending[n] \union {life[n].sequence}

Answer(n) ==
  /\ registered[n] /\ life[n].sequence \in pending[n]
  /\ Becomes(n, [life[n] EXCEPT !.isConfigAcked = TRUE])
  /\ NothingAnnounced(n)

RequestDestroy(n) ==
  /\ registered[n] /\ ~life[n].destroyRequested
  /\ \E closeWindow \in BOOLEAN :
       Becomes(n, [life[n] EXCEPT !.destroyRequested = TRUE, !.closeRequested = closeWindow])
  /\ NothingAnnounced(n)

SendClose(n) ==
  /\ registered[n] /\ life[n].isConfigAcked /\ life[n].closeRequested
  /\ Becomes(n, [life[n] EXCEPT !.closeSent = TRUE])
  /\ NothingAnnounced(n)

Free(n) ==
  /\ registered[n] /\ ~registered'[n]
  /\ life[n].destroyRequested /\ ~Waiting(n)
  /\ NothingAnnounced(n)

(* Nothing happens to the graph, but packets and answers may get lost.     *)
Stay(n) ==
  /\ registered'[n] = registered[n]
  /\ registered[n] => life'[n] = life[n]
  /\ NothingAnnounced(n)

GraphStep(n) ==
  \/ Create(n) \/ ChangeTheme(n) \/ Announce(n) \/ Answer(n)
  \/ RequestDestroy(n) \/ SendClose(n) \/ Free(n)

EndSession(n) == ~running'[n] /\ ~registered'[n] /\ NothingAnnounced(n)

Step(n) ==
  \/ running'[n] = running[n] /\ Stay(n)
  \/ running[n] /\ running'[n] /\ GraphStep(n)
  \/ running[n] /\ EndSession(n)

(* A pass of a sender thread is a step of every graph of its session.      *)
Next == \A n \in Names : Step(n)

Spec == Init /\ [][Next]_lifeVars
==============================================================================
