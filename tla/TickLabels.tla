----------------------------- MODULE TickLabels -----------------------------
(***************************************************************************)
(* The numbers and names along the axes of one graph of the viewer: sets   *)
(* of rendered texts that render_graph makes when the axes, the pixel      *)
(* density or the theme changed, and keeps otherwise. Every set is         *)
(* allocated, and any step of making one may fail.                         *)
(***************************************************************************)
EXTENDS Integers, FiniteSets, FiniteSetsExt

CONSTANTS
  LabelThemes,       \* the themes of a graph
  AxisEnds,          \* values of (uint32_t) xmax on axes of numbers
  MeterChannels,     \* numbers of channels of a meter
  Densities,         \* pixel densities
  MaxMeterChannels,  \* MAX_METER_CHANNELS
  MaxLabelSets       \* bound: label sets allocated at a time

ASSUME LabelAssumption ==
  /\ AxisEnds \subseteq Nat /\ MeterChannels \subseteq 1 .. MaxMeterChannels
  /\ MaxMeterChannels \in Nat /\ MaxLabelSets \in Nat

VARIABLES
  axes,       \* theme, format and end of the x axis, density: what is to be labelled
  cache,      \* tick_labels of the graph
  allocated   \* the label sets in memory

labelVars == <<axes, cache, allocated>>

NoLabels == [id |-> 0]
LabelSets ==
  [id : 1 .. MaxLabelSets, shows : {"names", "numbers"}, theme : LabelThemes]

Axes ==
  [theme : LabelThemes, format : {"channel"}, xmax : MeterChannels, density : Densities]
  \union [theme : LabelThemes, format : {"number"}, xmax : AxisEnds, density : Densities]

LabelViews == {[format |-> a.format, xmax |-> a.xmax, density |-> a.density] : a \in Axes}
LabelView == [format |-> axes.format, xmax |-> axes.xmax, density |-> axes.density]

NoView == [format |-> "none", xmax |-> 0, density |-> 0]
EmptyCache == [ready |-> FALSE, x |-> NoLabels, y |-> NoLabels, view |-> NoView]

LabelTypeOK ==
  /\ axes \in Axes
  /\ cache = EmptyCache \/ cache \in [ready : {TRUE}, x : LabelSets, y : LabelSets, view : LabelViews]
  /\ allocated \subseteq LabelSets

LabelInit == axes \in Axes /\ cache = EmptyCache /\ allocated = {}

-----------------------------------------------------------------------------
FreshIds == 1 .. MaxLabelSets \ {l.id : l \in allocated}

(* A label set, if making it succeeds.                                     *)
Made(succeeds, id, shows) ==
  IF succeeds THEN [id |-> id, shows |-> shows, theme |-> axes.theme] ELSE NoLabels

(* prepare_tick_labels has the names of the channels and the numbers       *)
(* written to the same place, the numbers last.                            *)
XLabels(names, numbers) == IF numbers # NoLabels THEN numbers ELSE names

(* destroy_tick_labels *)
OldLabels == {cache.x, cache.y}

(* render_graph, ensure_graph_tick_labels and prepare_tick_labels          *)
PrepareLabels(namesMade, numbersMade, yMade) ==
  /\ ~(cache.ready /\ cache.view = LabelView)
  /\ Cardinality(FreshIds) >= 3
  /\ \E namesId, numbersId, yId \in FreshIds :
       /\ namesId < numbersId /\ numbersId < yId
       /\ LET names == Made(namesMade /\ axes.xmax \in 1 .. MaxMeterChannels, namesId, "names")
              numbers == Made(numbersMade, numbersId, "numbers")
              x == XLabels(names, numbers)
              xMade == (IF axes.format = "channel" THEN names ELSE numbers) # NoLabels
              y == Made(xMade /\ yMade, yId, "numbers")
              created == allocated \union {names, numbers, y}
          IN IF y # NoLabels
             THEN /\ cache' = [ready |-> TRUE, x |-> x, y |-> y, view |-> LabelView]
                  /\ allocated' = created \ ({NoLabels} \union OldLabels)
             ELSE allocated' = created \ {NoLabels, x} /\ UNCHANGED cache
  /\ UNCHANGED axes

(* Another range, another size of the window or another screen.            *)
ChangeView ==
  /\ axes' \in {a \in Axes : a.theme = axes.theme /\ a.format = axes.format
                             /\ (a.format = "channel" => a.xmax = axes.xmax)} \ {axes}
  /\ UNCHANGED <<cache, allocated>>

(* Mutant: the labels survive a change of the theme.                       *)
ThemeOnly(theme) ==
  /\ axes.theme # theme
  /\ axes' = [axes EXCEPT !.theme = theme]
  /\ UNCHANGED <<cache, allocated>>

(* apply_graph_theme *)
ApplyLabelTheme(theme) ==
  /\ axes.theme # theme
  /\ axes' = [axes EXCEPT !.theme = theme]
  /\ allocated' = allocated \ OldLabels
  /\ cache' = EmptyCache

(* destroy_graph, and another graph in its place                           *)
ReplaceLabelledGraph ==
  /\ axes' \in Axes
  /\ allocated' = allocated \ OldLabels
  /\ cache' = EmptyCache

LabelNext ==
  \/ \E namesMade, numbersMade, yMade \in BOOLEAN : PrepareLabels(namesMade, numbersMade, yMade)
  \/ ChangeView
  \/ \E theme \in LabelThemes : ApplyLabelTheme(theme)
  \/ ReplaceLabelledGraph

LabelSpec == LabelInit /\ [][LabelNext]_labelVars

-----------------------------------------------------------------------------
(* What is drawn is in memory and has the colors of the graph, also after  *)
(* a preparation that failed halfway; and numbers that are not drawn any   *)
(* more are freed, whatever failed and whatever changed. The names of      *)
(* channels are not: see ChannelsAreNamed.                                 *)
LabelsAreCurrent ==
  /\ cache.ready =>
       /\ {cache.x, cache.y} \subseteq allocated /\ cache.x # cache.y
       /\ cache.x.theme = axes.theme /\ cache.y.theme = axes.theme
  /\ \A l \in allocated \ {cache.x, cache.y} : l.shows = "names"

(* "the names ch1..chN sit under the centre of their own bar"              *)
ChannelsAreNamed ==
  cache.ready /\ cache.view.format = "channel" => cache.x.shows = "names"
==============================================================================
