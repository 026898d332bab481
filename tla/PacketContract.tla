--------------------------- MODULE PacketContract ---------------------------
(***************************************************************************)
(* The settings of a graph pass two checks that were written apart: that   *)
(* of the opcode, on the double-precision arguments of the orchestra, and  *)
(* that of the viewer, validate_config_packet, on the floats of the packet *)
(* they were narrowed to. A configuration that the viewer refuses is not   *)
(* answered, is repeated for ever, and no window opens for it.             *)
(*                                                                         *)
(* A number is an integer that stands for a double; floats are coarser: a  *)
(* multiple of Ulp, zero below FloatTiny and infinite above FloatMax. The  *)
(* title and the theme, which both sides check alike, are left out.        *)
(***************************************************************************)
EXTENDS Integers

CONSTANTS
  Limits,       \* doubles that serve as limits of a range or as a size
  Frequencies,  \* doubles that serve as limits of the other range
  Divisions,    \* doubles that serve as numbers of divisions
  Counts,       \* numbers of channels of a meter, of points of a table
  NaN,          \* a number that is not finite
  Absent,       \* an optional argument that is not given
  FloatMax,     \* FLT_MAX
  FloatTiny,    \* the largest number that narrows to zero
  Ulp,          \* distance of two floats
  Nyquist,      \* half the sample rate
  MaxTicks,     \* MAX_GRID_TICKS
  MaxCount      \* MAX_FTABLE_SAMPLES, MAX_METER_CHANNELS

ASSUME ContractAssumption ==
  /\ Limits \union Frequencies \union Divisions \subseteq Int \union {NaN, Absent}
  /\ Counts \subseteq Int
  /\ NaN \notin Int /\ Absent \notin Int /\ NaN # Absent
  /\ FloatMax \in Nat /\ FloatTiny \in Nat /\ Ulp \in Nat \ {0}
  /\ Nyquist \in 0 .. FloatMax /\ MaxTicks \in Nat /\ MaxCount \in Nat

VARIABLES
  call,     \* the opcode called last, with its arguments
  packet,   \* the configuration it registered, if it did
  window    \* what the viewer made of it

contractVars == <<call, packet, window>>

Scales == {"gain", "power", "decibel", "other"}
Given(values) == values \ {Absent}

(* The calls of each overload: arguments are left out from the last on,    *)
(* those of the spectral opcodes in groups, and the others are given all.  *)
OneAxis(calls) == {c \in calls : c.low = Absent => c.high = Absent}
TwoAxes(calls) ==
  {c \in calls : \/ Absent \notin {c.low, c.high, c.xlow, c.xhigh}
                 \/ {c.low, c.high, c.xlow, c.xhigh, c.ticks} = {Absent} /\ c.scale = "gain"}

Calls ==
  OneAxis([opcode : {"time"}, size : Given(Limits), ticks : Given(Divisions),
           low : Limits, high : Limits])
  \union TwoAxes([opcode : {"spectrum"}, ticks : Divisions, scale : Scales,
                  xlow : Frequencies, xhigh : Frequencies, low : Limits, high : Limits])
  \union TwoAxes([opcode : {"spectrogram"}, size : Given(Limits), ticks : {Absent},
                  scale : {"gain"}, xlow : Frequencies, xhigh : Frequencies,
                  low : Limits, high : Limits])
  \union OneAxis([opcode : {"table"}, count : Counts, low : Limits, high : Limits])
  \union [opcode : {"point"}, xlow : Given(Frequencies), xhigh : Given(Frequencies),
          low : Given(Limits), high : Given(Limits)]
  \union [opcode : {"meter"}, count : Counts, scale : Scales,
          low : Given(Limits), high : Given(Limits)]

None == [opcode |-> "none"]

ContractInit == call = None /\ packet = None /\ window = "none"

-----------------------------------------------------------------------------
(* The opcodes                                                             *)

(* The conversion of a double to a float.                                  *)
Narrow(value) ==
  IF value \notin Int THEN value
  ELSE IF value \notin -FloatMax .. FloatMax THEN NaN
  ELSE IF value \in -FloatTiny .. FloatTiny THEN 0 ELSE Ulp * (value \div Ulp)

(* tick_count *)
TickCount(value) == value = Absent \/ value \in 0 .. MaxTicks

InBounds(value, lower, upper) ==
  value = Absent \/ (value \in Int /\ lower <= value /\ value <= upper)

Ordered(low, high) == Narrow(low) < Narrow(high)

(* numeric_range *)
NumericRange(low, high, lower, upper) ==
  /\ InBounds(low, lower, upper) /\ InBounds(high, lower, upper)
  /\ (low # Absent /\ high # Absent) => Ordered(low, high)

(* Mutant: any unit may go below zero.                                     *)
LowestOfAny(scale) == -FloatMax
LowestOf(scale) == IF scale = "decibel" THEN -FloatMax ELSE 0

Positive(value) == value \in Int /\ value > 0

TimeAccepts(c) ==
  /\ Positive(c.size) /\ TickCount(c.ticks)
  /\ NumericRange(c.low, c.high, -FloatMax, FloatMax)

SpectralAccepts(c) ==
  /\ c.scale # "other" /\ TickCount(c.ticks)
  /\ NumericRange(c.xlow, c.xhigh, 0, Nyquist)
  /\ NumericRange(c.low, c.high, LowestOf(c.scale), FloatMax)

SpectrogramAccepts(c) == Positive(c.size) /\ c.size <= FloatMax /\ SpectralAccepts(c)

TableAccepts(c) == c.count \in 1 .. MaxCount /\ NumericRange(c.low, c.high, -FloatMax, FloatMax)

PointAccepts(c) ==
  /\ NumericRange(c.xlow, c.xhigh, -FloatMax, FloatMax)
  /\ NumericRange(c.low, c.high, -FloatMax, FloatMax)

MeterAccepts(c) ==
  /\ c.count \in 1 .. MaxCount /\ c.scale \in {"gain", "decibel"}
  /\ NumericRange(c.low, c.high, -FloatMax, FloatMax)

Accepts(c) ==
  CASE c.opcode = "time" -> TimeAccepts(c)
    [] c.opcode = "spectrum" -> SpectralAccepts(c)
    [] c.opcode = "spectrogram" -> SpectrogramAccepts(c)
    [] c.opcode = "table" -> TableAccepts(c)
    [] c.opcode = "point" -> PointAccepts(c)
    [] c.opcode = "meter" -> MeterAccepts(c)

(* What is put into the packet: the arguments, narrowed.                   *)
Narrowed(c) ==
  [name \in DOMAIN c |->
    IF name \in {"size", "low", "high", "xlow", "xhigh"} THEN Narrow(c[name])
    ELSE IF name = "ticks" /\ c[name] = Absent THEN 0 ELSE c[name]]

-----------------------------------------------------------------------------
(* The viewer                                                              *)

ValidLimit(value, nonnegative) ==
  value = Absent \/ (value \in Int /\ (nonnegative => value >= 0))

(* valid_range *)
ValidRange(low, high, nonnegative) ==
  /\ ValidLimit(low, nonnegative) /\ ValidLimit(high, nonnegative)
  /\ low = Absent \/ high = Absent \/ low < high

ValidSpectral(p) ==
  /\ p.ticks <= MaxTicks /\ p.scale # "other"
  /\ ValidRange(p.xlow, p.xhigh, TRUE)
  /\ ValidRange(p.low, p.high, p.scale # "decibel")

(* validate_config_packet *)
ValidConfig(p) ==
  CASE p.opcode = "time" -> Positive(p.size) /\ p.ticks <= MaxTicks /\ ValidRange(p.low, p.high, FALSE)
    [] p.opcode = "spectrum" -> ValidSpectral(p)
    [] p.opcode = "spectrogram" -> Positive(p.size) /\ ValidSpectral(p)
    [] p.opcode = "table" -> p.count \in 1 .. MaxCount /\ ValidRange(p.low, p.high, FALSE)
    [] p.opcode = "point" -> ValidRange(p.xlow, p.xhigh, FALSE) /\ ValidRange(p.low, p.high, FALSE)
    [] p.opcode = "meter" -> /\ p.count \in 1 .. MaxCount /\ p.scale \in {"gain", "decibel"}
                             /\ ValidRange(p.low, p.high, p.scale # "decibel")

-----------------------------------------------------------------------------
(* An opcode call that is an init error registers no graph.                *)
CallOpcode(c) ==
  /\ Accepts(c)
  /\ call' = c /\ packet' = Narrowed(c) /\ window' = "none"

DeliverConfig ==
  /\ packet # None /\ window = "none"
  /\ window' = IF ValidConfig(packet) THEN "open" ELSE "refused"
  /\ UNCHANGED <<call, packet>>

ContractNext == (call = None /\ \E c \in Calls : CallOpcode(c)) \/ DeliverConfig

ContractSpec == ContractInit /\ [][ContractNext]_contractVars

-----------------------------------------------------------------------------
Below(value) == value \in Int /\ Narrow(value) \in Int /\ Narrow(value) < 0

(* A graph whose opcode reported no error gets its window, but for two     *)
(* cases: a meter of gains whose axis goes below zero, and a window or     *)
(* history so long or so short that it is not a positive float.            *)
RefusedOnlyWhere ==
  window = "refused" =>
    \/ call.opcode = "meter" /\ call.scale = "gain" /\ (Below(call.low) \/ Below(call.high))
    \/ call.opcode \in {"time", "spectrogram"} /\ ~Positive(Narrow(call.size))

(* "Each call creates a separate window", when "min_value" is "smaller     *)
(* than max_value".                                                        *)
MeterCallOpensWindow == call.opcode = "meter" => window # "refused"
=============================================================================
