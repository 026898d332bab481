------------------------ MODULE MCWatchViewer_proofs -------------------------
(***************************************************************************)
(* The paths of MCWatchViewer put together: whichever path a behaviour     *)
(* follows, it is one of each component, so that what was proved of the    *)
(* components one by one holds of all of them at once.                     *)
(***************************************************************************)
EXTENDS MCWatchViewer, WatchSystem_proofs, ViewerRings_proofs, SpectralFrame_proofs,
        TableAndMeter_proofs, GraphSettings_proofs

(* A path that is not followed stands still: a behaviour of the viewer is  *)
(* one of the windows, of the scope streams, of the spectral frames, of a  *)
(* table, of a meter, of a trail, of the labels and of the settings.       *)
THEOREM EveryPathIsItsOwn ==
  AllSpec => /\ Spec /\ ScopeSpec /\ SpectralSpec /\ FtableSpec
             /\ MeterSpec /\ TrailSpec /\ LabelSpec /\ ContractSpec
<1>1. AllInit => /\ Init /\ ScopeInit /\ SpectralInit /\ FtableInit
                 /\ MeterInit /\ TrailInit /\ LabelInit /\ ContractInit
  BY DEF AllInit, FramesAtRest, TableAtRest, LabelsAtRest
<1>2. [AllNext]_allVars =>
        /\ [Next]_vars /\ [ScopeNext]_scopeVars /\ [SpectralNext]_spectralVars
        /\ [FtableNext]_ftableVars /\ [MeterNext]_meterVars /\ [TrailNext]_trailVars
        /\ [LabelNext]_labelVars /\ [ContractNext]_contractVars
  <2> SUFFICES ASSUME [AllNext]_allVars
               PROVE  /\ [Next]_vars /\ [ScopeNext]_scopeVars /\ [SpectralNext]_spectralVars
                      /\ [FtableNext]_ftableVars /\ [MeterNext]_meterVars
                      /\ [TrailNext]_trailVars /\ [LabelNext]_labelVars
                      /\ [ContractNext]_contractVars
    OBVIOUS
  <2>1. CASE StreamNext /\ UNCHANGED <<followed, graphVars>>
    <3>1. UNCHANGED <<vars, labelVars, contractVars>>
      BY <2>1 DEF graphVars
    <3>2. QED
      BY <2>1, <3>1 DEF StreamNext
  <2>2. CASE GraphNext /\ UNCHANGED <<followed, streamVars>>
    <3>1. UNCHANGED <<scopeVars, spectralVars, ftableVars, meterVars, trailVars>>
      BY <2>2 DEF streamVars
    <3>2. QED
      BY <2>2, <3>1 DEF GraphNext
  <2>3. CASE UNCHANGED allVars
    BY <2>3 DEF allVars, streamVars, graphVars
  <2>4. QED
    BY <2>1, <2>2, <2>3 DEF AllNext
<1>3. QED
  BY <1>1, <1>2, PTL DEF AllSpec, Spec, ScopeSpec, SpectralSpec, FtableSpec, MeterSpec,
                         TrailSpec, LabelSpec, ContractSpec

(* Nowhere between an opcode and the display is anything of another type   *)
(* than the code declares, for every value of all the constants.           *)
THEOREM ViewerTypesStayOK == AllSpec => []TypesOK
<1>1. TypeOK /\ ScopeTypeOK /\ SpectralTypeOK /\ FtableTypeOK
        /\ MeterTypeOK /\ TrailTypeOK /\ LabelTypeOK => TypesOK
  BY DEF TypesOK
<1>2. QED
  BY <1>1, EveryPathIsItsOwn, SystemTypes, ScopeTypeCorrect, SpectralTypeCorrect,
     FtableTypeCorrect, MeterTypeCorrect, TrailTypeCorrect, LabelTypeCorrect, PTL

(* So whatever the viewer shows, it shows as the theorems about its parts  *)
(* say: one window for a graph, and in it the samples, frames, tables,     *)
(* peaks, points and labels of that graph.                                 *)
THEOREM EveryPathIsCorrect ==
  AllSpec => /\ []OneWindowPerGraph
             /\ []PointsAreInPlace /\ []StreamsInPhase /\ []FullWindowIsDrawn
             /\ []ShownFrameIsWhole /\ []HistoryInOrder /\ []CompleteFrameIsShown
             /\ []BinsAccounted /\ SpectrumNeverOlder
             /\ []ShownTableIsSnapshot /\ []EnvelopeCoversTable
             /\ []EveryPeakReportedOnce /\ []MarkIsInPlace /\ []MarkIsHeld
             /\ []TrailIsNewest /\ []LabelsAreCurrent /\ []RefusedOnlyWhere
<1>1. Spec => []OneWindowPerGraph
  BY WindowsAreUnique
<1>2. ScopeSpec => []PointsAreInPlace /\ []StreamsInPhase /\ []FullWindowIsDrawn
  BY PointsStandInPlace, StreamsStayInPhase, FullWindowsAreDrawn
<1>3. SpectralSpec => /\ []ShownFrameIsWhole /\ []HistoryInOrder /\ []CompleteFrameIsShown
                      /\ []BinsAccounted /\ SpectrumNeverOlder
  BY OnlyWholeFramesShown, HistoryStaysInOrder, NoCompleteFrameWaits, EveryBinIsAccounted,
     SpectrumOnlyYounger
<1>4. FtableSpec => []ShownTableIsSnapshot /\ []EnvelopeCoversTable
  BY ShownTableStaysSnapshot, EnvelopeAlwaysCovers
<1>5. MeterSpec => []EveryPeakReportedOnce /\ []MarkIsInPlace /\ []MarkIsHeld
  BY EveryPeakIsReported, MarkStaysInPlace, MarkStaysHeld
<1>6. /\ TrailSpec => []TrailIsNewest
      /\ LabelSpec => []LabelsAreCurrent
      /\ ContractSpec => []RefusedOnlyWhere
  BY TrailIsAlwaysNewest, LabelsStayCurrent, AcceptedIsShown
<1>7. QED
  BY <1>1, <1>2, <1>3, <1>4, <1>5, <1>6, EveryPathIsItsOwn
=============================================================================
