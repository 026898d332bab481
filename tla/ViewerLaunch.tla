---------------------------- MODULE ViewerLaunch ----------------------------
(***************************************************************************)
(* When the sender thread of a session launches the viewer, what it finds  *)
(* to launch, and what comes of it. WatchSystem leaves all of this to one  *)
(* action; here are its timers, the search for the executable and the      *)
(* errors, and the protocol is reduced to whether a graph is answered.     *)
(*                                                                         *)
(* The sender thread compares times only with delays, so a time is kept as *)
(* its age, up to the delay. A timer that is unset in the code, and is then*)
(* taken for expired, is one that is old enough here.                      *)
(***************************************************************************)
EXTENDS Integers, Sequences, FiniteSets

CONSTANTS
  LaunchGraphs,    \* graphs of the session
  RefusedGraphs,   \* those whose configuration the viewer refuses
  Places,          \* where the executable is looked for, in this order
  ProbeDelay,      \* WATCH_VIEWER_PROBE_DELAY_MS
  ConfigRetry,     \* WATCH_CONFIG_RETRY_MS
  RelaunchDelay,   \* WATCH_VIEWER_RELAUNCH_DELAY_MS
  LongestPass,     \* time from a pass of the sender thread to the next, at most
  StartUp,         \* time a viewer takes from exec to bind, at most
  MaxQuits         \* bound: how often a running viewer goes away

ASSUME LaunchAssumption ==
  /\ RefusedGraphs \subseteq LaunchGraphs
  /\ ProbeDelay \in Nat \ {0} /\ ConfigRetry \in Nat \ {0} /\ RelaunchDelay \in Nat \ {0}
  /\ LongestPass \in Nat \ {0} /\ StartUp \in Nat /\ MaxQuits \in Nat
  /\ StartUp < RelaunchDelay

VARIABLES
  status,      \* of each graph: "none", "waiting" for its answer, or "answered"
  configAge,   \* of each graph: age of last_config_send_time
  probeAge,    \* age of viewer_probe_started_ms, or Off
  launchAge,   \* age of viewer_last_launch_ms
  lastError,   \* viewer_last_launch_error
  disk,        \* what is at each place
  process,     \* the viewer: "none", "starting" or "running"
  startAge,    \* for how long it has been, or was, starting
  asked,       \* graphs whose present configuration a running viewer has received
  outcome,     \* history: what the last launch returned
  told,        \* history: the error the user was told of since the last success
  quits        \* how often a viewer went away

timerVars == <<status, configAge, probeAge, launchAge, lastError>>
processVars == <<process, startAge, asked, quits>>
launchVars == <<timerVars, disk, processVars, outcome, told>>

Off == -1
Success == "started"
Errors == {"ENOENT", "EAGAIN", "ECHILD"}
PlaceNames == {Places[n] : n \in 1 .. Len(Places)}

(* An executable, one without its execute permission, a file that cannot be*)
(* executed although it is permitted, or none.                             *)
FileKinds == {"program", "locked", "broken", "missing"}

Unanswered == {g \in LaunchGraphs : status[g] = "waiting"}

LaunchTypeOK ==
  /\ status \in [LaunchGraphs -> {"none", "waiting", "answered"}]
  /\ configAge \in [LaunchGraphs -> 0 .. ConfigRetry]
  /\ probeAge \in {Off} \union 0 .. ProbeDelay /\ launchAge \in 0 .. RelaunchDelay
  /\ lastError \in Errors \union {Success} /\ disk \in [PlaceNames -> FileKinds]
  /\ process \in {"none", "starting", "running"} /\ startAge \in 0 .. StartUp
  /\ asked \subseteq Unanswered /\ (asked # {} => process = "running")
  /\ outcome \in Errors \union {Success} /\ told \in Errors \union {Success}
  /\ quits \in 0 .. MaxQuits

LaunchInit ==
  /\ status = [g \in LaunchGraphs |-> "none"]
  /\ configAge = [g \in LaunchGraphs |-> ConfigRetry]
  /\ probeAge = Off /\ launchAge = RelaunchDelay /\ lastError = Success
  /\ disk = [p \in PlaceNames |-> "missing"]
  /\ process = "none" /\ startAge = 0 /\ asked = {} /\ quits = 0
  /\ outcome = Success /\ told = Success

-----------------------------------------------------------------------------
(* watch_process_launch_viewer                                             *)

(* executable_file, and for the directory of risset, whose installer drops *)
(* the permission, executable_asset_file, which restores it.               *)
Executable(place) ==
  disk[place] \in {"program", "broken"} \/ (place = "risset" /\ disk[place] = "locked")

Candidates == {n \in 1 .. Len(Places) : Executable(Places[n])}

(* resolve_viewer_path: the first of the places that has one.              *)
Resolved == Places[CHOOSE n \in Candidates : \A other \in Candidates : n <= other]

(* The search ends without one; a fork fails; or the viewer is on its way. *)
(* The launcher does not learn whether the exec succeeds.                  *)
LaunchOutcomes == IF Candidates = {} THEN {"ENOENT"} ELSE {"EAGAIN", "ECHILD", Success}

Starting(step) ==
  /\ startAge' = IF process = "starting" THEN startAge + step ELSE startAge
  /\ UNCHANGED process

(* A second viewer does not get the port and ends.                         *)
Launched(step, result) ==
  /\ disk' = IF Candidates # {} /\ disk[Resolved] = "locked"
             THEN [disk EXCEPT ![Resolved] = "program"] ELSE disk
  /\ IF result = Success /\ process = "none" /\ disk[Resolved] # "broken"
     THEN process' = "starting" /\ startAge' = 0
     ELSE Starting(step)

-----------------------------------------------------------------------------
(* The sender thread                                                       *)

Aged(age, step, oldest) == IF age + step < oldest THEN age + step ELSE oldest

(* The configurations that are sent, for the first time or again.          *)
DueConfigs(step) == {g \in Unanswered : configAge[g] + step >= ConfigRetry}

(* Mutant: only a pass that sends a configuration counts as waiting.       *)
HasSent(step) == DueConfigs(step) # {}
HasUnacked(step) == Unanswered # {}

(* Mutant: a session that goes on waiting launches a viewer per probe.     *)
ProbeOver(step) == probeAge # Off /\ probeAge + step >= ProbeDelay
MayLaunch(step) ==
  probeAge # Off /\ probeAge + step >= ProbeDelay /\ launchAge + step >= RelaunchDelay

(* The probe begins with the first pass that finds a graph waiting, and is *)
(* off when none does.                                                     *)
Probed(step) ==
  IF ~HasUnacked(step) THEN Off
  ELSE IF probeAge = Off THEN 0 ELSE Aged(probeAge, step, ProbeDelay)

(* Mutant: a success does not clear the error of before.                   *)
NotCleared(result) == IF result = Success THEN lastError ELSE result
Remembered(result) == result

(* try_launch_viewer: an error is reported when it is not the last one.    *)
TryLaunch(step, result) ==
  /\ outcome' = result
  /\ lastError' = Remembered(result)
  /\ told' = IF result = Success THEN Success
             ELSE IF result # lastError THEN result ELSE told
  /\ Launched(step, result)

(* A pass of sender_thread_main, step after the one before. A viewer that  *)
(* is starting is bound in time.                                           *)
LaunchPass(step, result) ==
  /\ process = "starting" => startAge + step <= StartUp
  /\ IF HasUnacked(step) /\ MayLaunch(step)
     THEN result \in LaunchOutcomes /\ TryLaunch(step, result) /\ launchAge' = 0
     ELSE /\ result = Success /\ Starting(step)
          /\ launchAge' = Aged(launchAge, step, RelaunchDelay)
          /\ UNCHANGED <<outcome, lastError, told, disk>>
  /\ configAge' = [g \in LaunchGraphs |->
       IF g \in DueConfigs(step) THEN 0 ELSE Aged(configAge[g], step, ConfigRetry)]
  /\ asked' = IF process = "running" THEN asked \union DueConfigs(step) ELSE asked
  /\ probeAge' = Probed(step)
  /\ UNCHANGED <<status, quits>>

SomePass == \E step \in 1 .. LongestPass, result \in Errors \union {Success} : LaunchPass(step, result)

(* A pass whose launch, if it comes to one, does not fail to fork.         *)
ForkingPass == \E step \in 1 .. LongestPass : LaunchPass(step, Success) /\ HasUnacked(step) /\ MayLaunch(step)

-----------------------------------------------------------------------------
(* The opcodes of the session                                              *)

(* create_graph, or watchtheme for a graph that is there: an answer to the *)
(* configuration of before does not count any more.                        *)
NeedsAnswer(g) ==
  /\ status' = [status EXCEPT ![g] = "waiting"]
  /\ configAge' = [configAge EXCEPT ![g] = ConfigRetry]
  /\ asked' = asked \ {g}
  /\ UNCHANGED <<probeAge, launchAge, lastError, disk, process, startAge, quits, outcome, told>>

(* It is freed, or abandoned.                                              *)
GivenUp(g) ==
  /\ status[g] # "none"
  /\ status' = [status EXCEPT ![g] = "none"]
  /\ asked' = asked \ {g}
  /\ UNCHANGED <<configAge, probeAge, launchAge, lastError, disk, process, startAge, quits,
                 outcome, told>>

-----------------------------------------------------------------------------
(* The viewer and the user                                                 *)

ViewerBinds ==
  /\ process = "starting" /\ process' = "running" /\ startAge' = 0
  /\ UNCHANGED <<timerVars, disk, asked, quits, outcome, told>>

ViewerAnswers(g) ==
  /\ g \in asked /\ g \notin RefusedGraphs
  /\ status' = [status EXCEPT ![g] = "answered"]
  /\ asked' = asked \ {g}
  /\ UNCHANGED <<configAge, probeAge, launchAge, lastError, disk, process, startAge, quits,
                 outcome, told>>

(* The user quits it, or it has nothing left to show.                      *)
ViewerQuits ==
  /\ process = "running" /\ quits < MaxQuits
  /\ process' = "none" /\ asked' = {} /\ quits' = quits + 1
  /\ UNCHANGED <<timerVars, disk, startAge, outcome, told>>

(* What is at a place changes. Only where risset puts it is a file without *)
(* its permission more than none.                                          *)
Install(place, kind) ==
  /\ disk[place] # kind /\ (kind = "locked" => place = "risset")
  /\ disk' = [disk EXCEPT ![place] = kind]
  /\ UNCHANGED <<timerVars, processVars, outcome, told>>

LaunchNext ==
  \/ SomePass
  \/ \E g \in LaunchGraphs : NeedsAnswer(g) \/ GivenUp(g) \/ ViewerAnswers(g)
  \/ ViewerBinds \/ ViewerQuits
  \/ \E place \in PlaceNames, kind \in FileKinds : Install(place, kind)

LaunchSpec == LaunchInit /\ [][LaunchNext]_launchVars

(* The sender thread and the viewer keep running, a viewer that was started*)
(* gets to its port, and forking does not fail for ever.                   *)
LiveLaunchSpec ==
  /\ LaunchSpec
  /\ WF_launchVars(SomePass) /\ SF_launchVars(ForkingPass)
  /\ WF_launchVars(ViewerBinds)
  /\ \A g \in LaunchGraphs : SF_launchVars(ViewerAnswers(g))

-----------------------------------------------------------------------------
(* Properties                                                              *)

(* The user knows why there is no viewer: when a launch failed, its error  *)
(* is the last one that was reported, although "a given error" is reported *)
(* "only once".                                                            *)
FailureIsKnown == outcome # Success => told = outcome

(* No viewer is launched while the one before is still starting, whatever  *)
(* graphs come, go and reset the probe: a starting viewer is the one that  *)
(* was launched last.                                                      *)
OneViewerStarts == process = "starting" => startAge = launchAge

(* A graph that goes on waiting gets its answer, once a viewer can be      *)
(* found and neither goes away nor is replaced on the disk: what failed    *)
(* before, and how often the viewer was quit, does not matter.             *)
FoundViewer == Candidates # {} /\ disk[Resolved] # "broken"
WaitingIsServed ==
  <>[]FoundViewer =>
    \A g \in LaunchGraphs \ RefusedGraphs : status[g] = "waiting" ~> status[g] # "waiting"
=============================================================================
