---------------------------- MODULE MCWatchStream ----------------------------
(***************************************************************************)
(* What the sender thread does for a graph: it drains the stream of one    *)
(* that is answered, and looks for a viewer while one waits for an answer. *)
(* A behaviour follows one of the two, and the other stays where it begins.*)
(***************************************************************************)
EXTENDS WatchStream, ViewerLaunch

VARIABLE followed

(* The viewer is looked for beside the library first.                      *)
PlaceOrder == <<"sibling", "risset">>

allVars == <<followed, vars, launchVars>>

AllInit ==
  /\ followed \in {"stream", "launch"} /\ Init /\ LaunchInit
  /\ followed = "launch" => kind = "a" /\ acked

InStream == followed = "stream" /\ UNCHANGED <<followed, launchVars>>
InLaunch == followed = "launch" /\ UNCHANGED <<followed, vars>>

AllNext ==
  \/ InStream /\ Next
  \/ InLaunch /\ LaunchNext

(* Fairness of WatchStream and LiveLaunchSpec of ViewerLaunch, each for    *)
(* the behaviours that follow it.                                          *)
StreamFairness ==
  /\ WF_allVars(InStream /\ BeginPass) /\ WF_allVars(InStream /\ TakePacket)
  /\ WF_allVars(InStream /\ EndDrain) /\ WF_allVars(InStream /\ AdvanceRead)
  /\ WF_allVars(InStream /\ ReleaseFinished)
  /\ SF_allVars(InStream /\ SendPacket)
  /\ WF_allVars(InStream /\ (SendPacket \/ SendFails))

LaunchFairness ==
  /\ WF_allVars(InLaunch /\ SomePass) /\ SF_allVars(InLaunch /\ ForkingPass)
  /\ WF_allVars(InLaunch /\ ViewerBinds)
  /\ \A g \in LaunchGraphs : SF_allVars(InLaunch /\ ViewerAnswers(g))

LiveAllSpec == AllInit /\ [][AllNext]_allVars /\ StreamFairness /\ LaunchFairness
==============================================================================
