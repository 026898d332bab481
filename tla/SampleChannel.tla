---------------------------- MODULE SampleChannel ----------------------------
(***************************************************************************)
(* What one watchadd stream promises to the graph that displays it, with   *)
(* no queue, no packets and no threads: samples, named by their time, are  *)
(* taken in increasing order; the samples taken are sent oldest first,     *)
(* each once; and the stream ends either complete, with everything it took *)
(* sent, or discarded, which happens only to a replaced graph.             *)
(***************************************************************************)
EXTENDS Integers

VARIABLES
  taken,     \* times of the samples accepted from the signal
  sent,      \* times of the samples handed to the socket
  replaced,  \* the window of the graph is to be closed
  ended      \* "open", "complete" or "discarded"

vars == <<taken, sent, replaced, ended>>

TypeOK ==
  /\ taken \subseteq Nat
  /\ sent \subseteq taken
  /\ replaced \in BOOLEAN
  /\ ended \in {"open", "complete", "discarded"}

Init ==
  /\ taken = {}
  /\ sent = {}
  /\ replaced = FALSE
  /\ ended = "open"

Take ==
  /\ ended = "open"
  /\ taken \subseteq taken'
  /\ taken' \subseteq Nat
  /\ \A new \in taken' \ taken, old \in taken : old < new
  /\ UNCHANGED <<sent, replaced, ended>>

Send ==
  /\ ended = "open"
  /\ sent \subseteq sent'
  /\ sent' \subseteq taken
  /\ \A gone \in sent', left \in taken \ sent' : gone < left
  /\ UNCHANGED <<taken, replaced, ended>>

Replace ==
  /\ ended = "open"
  /\ replaced' = TRUE
  /\ UNCHANGED <<taken, sent, ended>>

Complete ==
  /\ ended = "open"
  /\ sent = taken
  /\ ended' = "complete"
  /\ UNCHANGED <<taken, sent, replaced>>

Discard ==
  /\ ended = "open"
  /\ replaced
  /\ ended' = "discarded"
  /\ UNCHANGED <<taken, sent, replaced>>

Next == Take \/ Send \/ Replace \/ Complete \/ Discard

Spec == Init /\ [][Next]_vars
=============================================================================
