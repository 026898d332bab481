---------------------------- MODULE MCWatchViewer ----------------------------
(***************************************************************************)
(* The paths that end in a window: a behaviour follows one of them from    *)
(* the opcode to the display, and the others stay where they begin.        *)
(***************************************************************************)
EXTENDS WatchSystem, ScopeTimeline, SpectralFrame, FtableTransfer, MeterWindow,
        PointTrail, TickLabels, MCPacketContract, TLC

CONSTANTS csoundA, light, dark

VARIABLE followed

streamVars == <<scopeVars, spectralVars, ftableVars, meterVars, trailVars>>
graphVars == <<vars, labelVars, contractVars>>
allVars == <<followed, streamVars, graphVars>>

Paths == {"windows", "scope", "frames", "table", "meter", "trail", "labels", "settings"}

(* Levels of MeterWindow                                                   *)
Levels == {-4, -2, -1}
BottomOfAxis == -3
BelowAllLevels == -6

Symmetry == Permutations({light, dark}) \union Permutations(StreamIds)

(* The components that may begin in several states                         *)
FramesAtRest == SpectralInit /\ domain = "spectrum" /\ adder.total = Min(Formats)
TableAtRest == FtableInit /\ ftable = [i \in {0} |-> 0]
LabelsAtRest ==
  LabelInit /\ axes = [theme |-> "light", format |-> "channel", xmax |-> 2, density |-> 1]

AllInit ==
  /\ followed \in Paths
  /\ Init /\ ScopeInit /\ MeterInit /\ TrailInit /\ ContractInit
  /\ IF followed = "frames" THEN SpectralInit ELSE FramesAtRest
  /\ IF followed = "table" THEN FtableInit ELSE TableAtRest
  /\ IF followed = "labels" THEN LabelInit ELSE LabelsAtRest

StreamNext ==
  \/ /\ followed = "scope" /\ ScopeNext
     /\ UNCHANGED <<spectralVars, ftableVars, meterVars, trailVars>>
  \/ /\ followed = "frames" /\ SpectralNext
     /\ UNCHANGED <<scopeVars, ftableVars, meterVars, trailVars>>
  \/ /\ followed = "table" /\ FtableNext
     /\ UNCHANGED <<scopeVars, spectralVars, meterVars, trailVars>>
  \/ /\ followed = "meter" /\ MeterNext
     /\ UNCHANGED <<scopeVars, spectralVars, ftableVars, trailVars>>
  \/ /\ followed = "trail" /\ TrailNext
     /\ UNCHANGED <<scopeVars, spectralVars, ftableVars, meterVars>>

GraphNext ==
  \/ followed = "windows" /\ Next /\ UNCHANGED <<labelVars, contractVars>>
  \/ followed = "labels" /\ LabelNext /\ UNCHANGED <<vars, contractVars>>
  \/ followed = "settings" /\ ContractNext /\ UNCHANGED <<vars, labelVars>>

AllNext ==
  \/ StreamNext /\ UNCHANGED <<followed, graphVars>>
  \/ GraphNext /\ UNCHANGED <<followed, streamVars>>

AllSpec == AllInit /\ [][AllNext]_allVars

(* The state of every path has its type.                                   *)
TypesOK ==
  /\ TypeOK /\ ScopeTypeOK /\ SpectralTypeOK /\ FtableTypeOK
  /\ MeterTypeOK /\ TrailTypeOK /\ LabelTypeOK
==============================================================================
