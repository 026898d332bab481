------------------------- MODULE GraphSettings_proofs -------------------------
(***************************************************************************)
(* Proofs about the settings of a graph and what is drawn from them.       *)
(*                                                                         *)
(* PacketContract, for every choice of arguments and every float format:   *)
(* but for the two cases RefusedOnlyWhere names, what an opcode accepts    *)
(* the viewer accepts. TickLabels, for every range and number of label     *)
(* sets: the labels drawn are those of the graph, and numbers that are not *)
(* drawn any more are freed.                                               *)
(***************************************************************************)
EXTENDS PacketContract, TickLabels, TLAPS

-----------------------------------------------------------------------------
(* PacketContract                                                          *)

Numbers == Int \union {NaN, Absent}
Names == {"time", "spectrum", "spectrogram", "table", "point", "meter"}

(* What RefusedOnlyWhere allows to be refused.                             *)
Exception(c) ==
  \/ c.opcode = "meter" /\ c.scale = "gain" /\ (Below(c.low) \/ Below(c.high))
  \/ c.opcode \in {"time", "spectrogram"} /\ ~Positive(Narrow(c.size))

(* The packet is the narrowed call, which the opcode accepted.             *)
ContractInv ==
  /\ call = None => packet = None
  /\ call # None => call \in Calls /\ Accepts(call) /\ packet = Narrowed(call)
  /\ window = "refused" => packet # None /\ ~ValidConfig(packet)

-----------------------------------------------------------------------------
(* Narrowing a number in bounds keeps it one, and does not turn it         *)
(* negative; what is absent stays so.                                      *)
LEMMA NarrowInBounds ==
  ASSUME NEW value \in -FloatMax .. FloatMax
  PROVE  Narrow(value) \in Int /\ (value >= 0 => Narrow(value) >= 0)
<1>1. value \in Int /\ Ulp \in Nat \ {0}
  BY ContractAssumption
<1>2. value \div Ulp \in Int /\ (value >= 0 => value \div Ulp >= 0)
  BY <1>1
<1>3. \A n \in Int : Ulp * n \in Int /\ (n >= 0 => Ulp * n >= 0)
  BY <1>1
<1>4. QED
  BY <1>1, <1>2, <1>3 DEF Narrow

(* What is absent has nothing to narrow.                                   *)
LEMMA NarrowAbsent == Narrow(Absent) = Absent
BY ContractAssumption DEF Narrow

(* A limit the opcode finds in bounds is a number, and has its sign, for   *)
(* the viewer.                                                             *)
LEMMA LimitStaysValid ==
  ASSUME NEW value, NEW lower \in Int, NEW upper \in Int,
         InBounds(value, lower, upper), -FloatMax <= lower, upper <= FloatMax
  PROVE  /\ value = Absent => Narrow(value) = Absent
         /\ value # Absent => /\ Narrow(value) \in Int /\ Narrow(value) # Absent
                              /\ lower >= 0 => Narrow(value) >= 0
<1>1. CASE value = Absent
  BY <1>1, NarrowAbsent
<1>2. CASE value # Absent
  <2>1. value \in -FloatMax .. FloatMax /\ (lower >= 0 => value >= 0)
    BY <1>2, ContractAssumption DEF InBounds
  <2>2. Narrow(value) \in Int /\ (value >= 0 => Narrow(value) >= 0)
    BY <2>1, NarrowInBounds
  <2>3. Narrow(value) # Absent
    BY <2>2, ContractAssumption
  <2>4. QED
    BY <1>2, <2>1, <2>2, <2>3
<1>3. QED
  BY <1>1, <1>2

(* So numeric_range is at least as strict as valid_range.                  *)
LEMMA RangeStaysValid ==
  ASSUME NEW low, NEW high, NEW lower \in Int, NEW upper \in Int,
         NumericRange(low, high, lower, upper), -FloatMax <= lower, upper <= FloatMax
  PROVE  /\ ValidRange(Narrow(low), Narrow(high), FALSE)
         /\ lower >= 0 => ValidRange(Narrow(low), Narrow(high), TRUE)
<1>1. InBounds(low, lower, upper) /\ InBounds(high, lower, upper)
  BY DEF NumericRange
<1>2. \/ Narrow(low) = Absent \/ Narrow(high) = Absent \/ Narrow(low) < Narrow(high)
  BY NarrowAbsent DEF NumericRange, Ordered
<1>3. /\ low = Absent => Narrow(low) = Absent
      /\ low # Absent => Narrow(low) \in Int /\ (lower >= 0 => Narrow(low) >= 0)
  BY <1>1, LimitStaysValid
<1>4. /\ high = Absent => Narrow(high) = Absent
      /\ high # Absent => Narrow(high) \in Int /\ (lower >= 0 => Narrow(high) >= 0)
  BY <1>1, LimitStaysValid
<1>5. QED
  BY <1>2, <1>3, <1>4 DEF ValidRange, ValidLimit

(* So does a range that may be any of finite numbers.                      *)
LEMMA AnyRangeStaysValid ==
  ASSUME NEW low, NEW high, NumericRange(low, high, -FloatMax, FloatMax)
  PROVE  ValidRange(Narrow(low), Narrow(high), FALSE)
<1>1. -FloatMax \in Int /\ FloatMax \in Int /\ -FloatMax <= -FloatMax /\ FloatMax <= FloatMax
  BY ContractAssumption
<1>2. QED
  BY <1>1, RangeStaysValid

(* A number of divisions that is accepted is not too many for the viewer,  *)
(* and zero if none was given.                                             *)
LEMMA TicksStayValid ==
  ASSUME NEW ticks, TickCount(ticks)
  PROVE  (IF ticks = Absent THEN 0 ELSE ticks) <= MaxTicks
BY ContractAssumption DEF TickCount

-----------------------------------------------------------------------------
(* One opcode after the other                                              *)

(* What watchinit accepts for a time graph                                 *)
LEMMA TimeIsValid ==
  ASSUME NEW c \in [opcode : {"time"}, size : Given(Limits), ticks : Given(Divisions),
                    low : Limits, high : Limits],
         Accepts(c), ~Exception(c)
  PROVE  ValidConfig(Narrowed(c))
<1>1. /\ Narrowed(c).opcode = "time" /\ Narrowed(c).size = Narrow(c.size)
      /\ Narrowed(c).low = Narrow(c.low) /\ Narrowed(c).high = Narrow(c.high)
      /\ Narrowed(c).ticks = IF c.ticks = Absent THEN 0 ELSE c.ticks
  BY DEF Narrowed
<1>2. TimeAccepts(c) /\ c.opcode = "time"
  BY DEF Accepts
<1>3. Positive(Narrow(c.size)) /\ Narrowed(c).ticks <= MaxTicks
  BY <1>1, <1>2, TicksStayValid DEF TimeAccepts, Exception
<1>4. ValidRange(Narrow(c.low), Narrow(c.high), FALSE)
  BY <1>2, AnyRangeStaysValid DEF TimeAccepts
<1>5. QED
  BY <1>1, <1>3, <1>4 DEF ValidConfig

(* The settings both spectral opcodes have                                 *)
LEMMA SpectralIsValid ==
  ASSUME NEW c, NEW p, SpectralAccepts(c), p.scale = c.scale,
         p.ticks = IF c.ticks = Absent THEN 0 ELSE c.ticks,
         p.low = Narrow(c.low), p.high = Narrow(c.high),
         p.xlow = Narrow(c.xlow), p.xhigh = Narrow(c.xhigh)
  PROVE  ValidSpectral(p)
<1>1. p.ticks <= MaxTicks /\ p.scale # "other"
  BY TicksStayValid DEF SpectralAccepts
<1>2. ValidRange(p.xlow, p.xhigh, TRUE)
  <2>1. /\ 0 \in Int /\ Nyquist \in Int /\ -FloatMax <= 0 /\ 0 >= 0 /\ Nyquist <= FloatMax
        /\ NumericRange(c.xlow, c.xhigh, 0, Nyquist)
    BY ContractAssumption DEF SpectralAccepts
  <2>2. QED
    BY <2>1, RangeStaysValid
<1>3. ValidRange(p.low, p.high, p.scale # "decibel")
  <2>1. /\ LowestOf(c.scale) \in Int /\ -FloatMax <= LowestOf(c.scale)
        /\ c.scale # "decibel" => LowestOf(c.scale) >= 0
    BY ContractAssumption DEF LowestOf
  <2>2. /\ FloatMax \in Int /\ FloatMax <= FloatMax
        /\ NumericRange(c.low, c.high, LowestOf(c.scale), FloatMax)
    BY ContractAssumption DEF SpectralAccepts
  <2>3. /\ ValidRange(p.low, p.high, FALSE)
        /\ c.scale # "decibel" => ValidRange(p.low, p.high, TRUE)
    BY <2>1, <2>2, RangeStaysValid
  <2>4. QED
    BY <2>3 DEF ValidRange, ValidLimit
<1>4. QED
  BY <1>1, <1>2, <1>3 DEF ValidSpectral

(* for a spectrum,                                                         *)
LEMMA SpectrumIsValid ==
  ASSUME NEW c \in [opcode : {"spectrum"}, ticks : Divisions, scale : Scales,
                    xlow : Frequencies, xhigh : Frequencies, low : Limits, high : Limits],
         Accepts(c)
  PROVE  ValidConfig(Narrowed(c))
<1>1. /\ Narrowed(c).opcode = "spectrum" /\ Narrowed(c).scale = c.scale
      /\ Narrowed(c).ticks = IF c.ticks = Absent THEN 0 ELSE c.ticks
      /\ Narrowed(c).low = Narrow(c.low) /\ Narrowed(c).high = Narrow(c.high)
      /\ Narrowed(c).xlow = Narrow(c.xlow) /\ Narrowed(c).xhigh = Narrow(c.xhigh)
  BY DEF Narrowed
<1>2. SpectralAccepts(c)
  BY DEF Accepts
<1>3. QED
  BY <1>1, <1>2, SpectralIsValid DEF ValidConfig

(* for a spectrogram,                                                      *)
LEMMA SpectrogramIsValid ==
  ASSUME NEW c \in [opcode : {"spectrogram"}, size : Given(Limits), ticks : {Absent},
                    scale : {"gain"}, xlow : Frequencies, xhigh : Frequencies,
                    low : Limits, high : Limits],
         Accepts(c), ~Exception(c)
  PROVE  ValidConfig(Narrowed(c))
<1>1. /\ Narrowed(c).opcode = "spectrogram" /\ Narrowed(c).scale = c.scale
      /\ Narrowed(c).size = Narrow(c.size)
      /\ Narrowed(c).ticks = IF c.ticks = Absent THEN 0 ELSE c.ticks
      /\ Narrowed(c).low = Narrow(c.low) /\ Narrowed(c).high = Narrow(c.high)
      /\ Narrowed(c).xlow = Narrow(c.xlow) /\ Narrowed(c).xhigh = Narrow(c.xhigh)
  BY DEF Narrowed
<1>2. SpectralAccepts(c) /\ Positive(Narrow(c.size))
  BY DEF Accepts, SpectrogramAccepts, Exception
<1>3. QED
  BY <1>1, <1>2, SpectralIsValid DEF ValidConfig

(* for a table,                                                            *)
LEMMA TableIsValid ==
  ASSUME NEW c \in [opcode : {"table"}, count : Counts, low : Limits, high : Limits], Accepts(c)
  PROVE  ValidConfig(Narrowed(c))
<1>1. /\ Narrowed(c).opcode = "table" /\ Narrowed(c).count = c.count
      /\ Narrowed(c).low = Narrow(c.low) /\ Narrowed(c).high = Narrow(c.high)
  BY DEF Narrowed
<1>2. TableAccepts(c)
  BY DEF Accepts
<1>3. ValidRange(Narrow(c.low), Narrow(c.high), FALSE)
  BY <1>2, AnyRangeStaysValid DEF TableAccepts
<1>4. QED
  BY <1>1, <1>2, <1>3 DEF ValidConfig, TableAccepts

(* for a point graph,                                                      *)
LEMMA PointIsValid ==
  ASSUME NEW c \in [opcode : {"point"}, xlow : Given(Frequencies), xhigh : Given(Frequencies),
                    low : Given(Limits), high : Given(Limits)], Accepts(c)
  PROVE  ValidConfig(Narrowed(c))
<1>1. /\ Narrowed(c).opcode = "point"
      /\ Narrowed(c).low = Narrow(c.low) /\ Narrowed(c).high = Narrow(c.high)
      /\ Narrowed(c).xlow = Narrow(c.xlow) /\ Narrowed(c).xhigh = Narrow(c.xhigh)
  BY DEF Narrowed
<1>2. PointAccepts(c)
  BY DEF Accepts
<1>3. /\ ValidRange(Narrow(c.low), Narrow(c.high), FALSE)
      /\ ValidRange(Narrow(c.xlow), Narrow(c.xhigh), FALSE)
  BY <1>2, AnyRangeStaysValid DEF PointAccepts
<1>4. QED
  BY <1>1, <1>3 DEF ValidConfig

(* or for a meter is a valid packet, exceptions aside.                     *)
LEMMA MeterIsValid ==
  ASSUME NEW c \in [opcode : {"meter"}, count : Counts, scale : Scales,
                    low : Given(Limits), high : Given(Limits)],
         Accepts(c), ~Exception(c)
  PROVE  ValidConfig(Narrowed(c))
<1>1. /\ Narrowed(c).opcode = "meter" /\ Narrowed(c).scale = c.scale
      /\ Narrowed(c).count = c.count
      /\ Narrowed(c).low = Narrow(c.low) /\ Narrowed(c).high = Narrow(c.high)
  BY DEF Narrowed
<1>2. MeterAccepts(c) /\ c.opcode = "meter"
  BY DEF Accepts
<1>3. ValidRange(Narrow(c.low), Narrow(c.high), FALSE)
  BY <1>2, AnyRangeStaysValid DEF MeterAccepts
<1>4. ASSUME c.scale = "gain"
      PROVE  ValidRange(Narrow(c.low), Narrow(c.high), TRUE)
  <2>1. c.low \in Int /\ c.high \in Int
    BY <1>2, ContractAssumption DEF MeterAccepts, NumericRange, InBounds, Given
  <2>2. Narrow(c.low) \in Int /\ Narrow(c.high) \in Int
    BY <1>2, <2>1, NarrowInBounds, ContractAssumption
       DEF MeterAccepts, NumericRange, InBounds, Given
  <2>3. Narrow(c.low) >= 0 /\ Narrow(c.high) >= 0
    BY <1>2, <1>4, <2>1, <2>2 DEF Exception, Below
  <2>4. QED
    BY <1>3, <2>2, <2>3 DEF ValidRange, ValidLimit
<1>5. QED
  BY <1>1, <1>2, <1>3, <1>4 DEF ValidConfig, MeterAccepts

(* Every call that is accepted, and is no exception, is valid.             *)
LEMMA AcceptedIsValid ==
  ASSUME NEW c \in Calls, Accepts(c), ~Exception(c)
  PROVE  ValidConfig(Narrowed(c))
BY TimeIsValid, SpectrumIsValid, SpectrogramIsValid, TableIsValid, PointIsValid, MeterIsValid
   DEF Calls, OneAxis, TwoAxes

-----------------------------------------------------------------------------
(* A call is told from no call.                                            *)
LEMMA CallHasName == ASSUME NEW c \in Calls PROVE c # None
BY DEF Calls, OneAxis, TwoAxes, None

(* Nothing is registered yet.                                              *)
LEMMA InitContract == ContractInit => ContractInv
BY DEF ContractInit, ContractInv

(* Only an accepted call makes a packet, and it is the one narrowed.       *)
LEMMA NextContract == ContractInv /\ [ContractNext]_contractVars => ContractInv'
<1> SUFFICES ASSUME ContractInv, [ContractNext]_contractVars PROVE ContractInv'
  OBVIOUS
<1>1. ASSUME NEW c \in Calls, CallOpcode(c) PROVE ContractInv'
  BY <1>1, CallHasName DEF CallOpcode, ContractInv
<1>2. CASE DeliverConfig
  BY <1>2 DEF DeliverConfig, ContractInv
<1>3. CASE UNCHANGED contractVars
  BY <1>3 DEF contractVars, ContractInv
<1>4. QED
  BY <1>1, <1>2, <1>3 DEF ContractNext

(* A configuration that was registered without an init error is refused by *)
(* validate_config_packet only for a gain meter with a negative limit, or  *)
(* for a size that is not a positive float.                                *)
THEOREM AcceptedIsShown == ContractSpec => []RefusedOnlyWhere
<1>1. ContractInv => RefusedOnlyWhere
  <2> SUFFICES ASSUME ContractInv, window = "refused" PROVE Exception(call)
    BY DEF RefusedOnlyWhere, Exception
  <2>1. call \in Calls /\ Accepts(call) /\ packet = Narrowed(call) /\ ~ValidConfig(packet)
    BY DEF ContractInv
  <2>2. QED
    BY <2>1, AcceptedIsValid
<1>2. QED
  BY <1>1, InitContract, NextContract, PTL DEF ContractSpec

-----------------------------------------------------------------------------
(* TickLabels                                                              *)

(* A label set that was made is a new one.                                 *)
LEMMA MadeIs ==
  ASSUME LabelTypeOK, NEW id \in FreshIds, NEW succeeds \in BOOLEAN,
         NEW shows \in {"names", "numbers"}
  PROVE  LET l == Made(succeeds, id, shows)
         IN /\ l = NoLabels \/ l.id = id
            /\ l # NoLabels => /\ l \in LabelSets /\ l \notin allocated
                               /\ l.shows = shows /\ l.theme = axes.theme
<1>1. axes.theme \in LabelThemes
  BY DEF LabelTypeOK, Axes
<1>2. id \in 1 .. MaxLabelSets /\ \A l \in allocated : l.id # id
  BY DEF FreshIds
<1>3. CASE succeeds
  <2> DEFINE l == [id |-> id, shows |-> shows, theme |-> axes.theme]
  <2>1. Made(succeeds, id, shows) = l
    BY <1>3 DEF Made
  <2>2. l \in LabelSets /\ l.id = id /\ l.shows = shows /\ l.theme = axes.theme
    BY <1>1, <1>2 DEF LabelSets
  <2> HIDE DEF l
  <2>3. QED
    BY <1>2, <2>1, <2>2
<1>4. CASE ~succeeds
  BY <1>4 DEF Made
<1>5. QED
  BY <1>3, <1>4

(* A label set is told from none by its number.                            *)
LEMMA SetIsNotNone == ASSUME NEW l \in LabelSets PROVE l # NoLabels /\ l.id # 0
<1>1. l.id \in 1 .. MaxLabelSets
  BY DEF LabelSets
<1>2. NoLabels.id = 0
  BY DEF NoLabels
<1>3. QED
  BY <1>1, <1>2

LabelInv == LabelTypeOK /\ LabelsAreCurrent

(* What the cache holds is in memory, or nothing.                          *)
LEMMA CacheIs ==
  ASSUME LabelInv
  PROVE  /\ cache.ready \in BOOLEAN
         /\ cache.ready => {cache.x, cache.y} \subseteq allocated
         /\ ~cache.ready => cache.x = NoLabels /\ cache.y = NoLabels
         /\ NoLabels \notin allocated
<1>1. cache.ready \in BOOLEAN /\ (~cache.ready => cache.x = NoLabels /\ cache.y = NoLabels)
  <2>1. CASE cache = EmptyCache
    BY <2>1 DEF EmptyCache
  <2>2. CASE cache \in [ready : {TRUE}, x : LabelSets, y : LabelSets, view : LabelViews]
    BY <2>2
  <2>3. QED
    BY <2>1, <2>2 DEF LabelInv, LabelTypeOK
<1>2. cache.ready => {cache.x, cache.y} \subseteq allocated
  BY DEF LabelInv, LabelsAreCurrent
<1>3. NoLabels \notin allocated
  BY SetIsNotNone DEF LabelInv, LabelTypeOK
<1>4. QED
  BY <1>1, <1>2, <1>3

(* render_graph takes new labels over only when both axes have them; else  *)
(* it frees what it made, except names that were replaced.                 *)
LEMMA PrepareKeepsLabels ==
  ASSUME LabelInv, NEW namesMade \in BOOLEAN, NEW numbersMade \in BOOLEAN, NEW yMade \in BOOLEAN,
         PrepareLabels(namesMade, numbersMade, yMade)
  PROVE  LabelInv'
<1> DEFINE names(id) == Made(namesMade /\ axes.xmax \in 1 .. MaxMeterChannels, id, "names")
           numbers(id) == Made(numbersMade, id, "numbers")
           xMade(n, m) == (IF axes.format = "channel" THEN n ELSE m) # NoLabels
<1>1. PICK namesId \in FreshIds, numbersId \in FreshIds, yId \in FreshIds :
        /\ namesId < numbersId /\ numbersId < yId
        /\ LET n == names(namesId)
               m == numbers(numbersId)
               x == XLabels(n, m)
               y == Made(xMade(n, m) /\ yMade, yId, "numbers")
               created == allocated \union {n, m, y}
           IN IF y # NoLabels
              THEN /\ cache' = [ready |-> TRUE, x |-> x, y |-> y, view |-> LabelView]
                   /\ allocated' = created \ ({NoLabels} \union OldLabels)
              ELSE allocated' = created \ {NoLabels, x} /\ UNCHANGED cache
  BY Zenon DEF PrepareLabels
<1> DEFINE n == names(namesId)
           m == numbers(numbersId)
           x == XLabels(n, m)
           y == Made(xMade(n, m) /\ yMade, yId, "numbers")
           created == allocated \union {n, m, y}
<1>2. /\ n = NoLabels \/ n.id = namesId
      /\ n # NoLabels => /\ n \in LabelSets /\ n \notin allocated
                         /\ n.shows = "names" /\ n.theme = axes.theme
  BY MadeIs DEF LabelInv
<1>3. /\ m = NoLabels \/ m.id = numbersId
      /\ m # NoLabels => /\ m \in LabelSets /\ m \notin allocated
                         /\ m.shows = "numbers" /\ m.theme = axes.theme
  BY MadeIs DEF LabelInv
<1>4. /\ y = NoLabels \/ y.id = yId
      /\ y # NoLabels => /\ y \in LabelSets /\ y \notin allocated
                         /\ y.shows = "numbers" /\ y.theme = axes.theme
                         /\ xMade(n, m)
  <2> HIDE DEF n, m, xMade
  <2>1. (xMade(n, m) /\ yMade) \in BOOLEAN
    BY DEF xMade
  <2>2. ~xMade(n, m) => y = NoLabels
    BY DEF Made
  <2>3. QED
    BY <2>1, <2>2, MadeIs DEF LabelInv
<1>5. IF y # NoLabels
      THEN /\ cache' = [ready |-> TRUE, x |-> x, y |-> y, view |-> LabelView]
           /\ allocated' = created \ ({NoLabels} \union OldLabels)
      ELSE allocated' = created \ {NoLabels, x} /\ UNCHANGED cache
  BY <1>1
<1>6. x = IF m # NoLabels THEN m ELSE n
  BY DEF XLabels
<1>7. y # NoLabels => x # NoLabels
  <2> HIDE DEF n, m, x, y
  <2>1. QED
    BY <1>4, <1>6
<1>8. numbersId \in Int /\ namesId \in Int /\ yId \in Int /\ namesId < yId /\ numbersId < yId
  BY <1>1 DEF FreshIds
<1>9. UNCHANGED axes /\ LabelView \in LabelViews
  BY DEF PrepareLabels, LabelView, LabelViews, LabelInv, LabelTypeOK
<1> HIDE DEF n, m, x, y, names, numbers, xMade
<1>10. y # NoLabels => x # y
  BY <1>2, <1>3, <1>4, <1>6, <1>7, <1>8
<1>11. allocated' \subseteq LabelSets
  BY <1>2, <1>3, <1>4, <1>5 DEF LabelInv, LabelTypeOK
<1>12. CASE y # NoLabels
  <2>1. cache'.ready /\ cache'.x = x /\ cache'.y = y
    BY <1>5, <1>12
  <2>2. x \in LabelSets /\ y \in LabelSets /\ x.theme = axes.theme /\ y.theme = axes.theme
    BY <1>2, <1>3, <1>4, <1>6, <1>7, <1>12
  <2>3. LabelTypeOK'
    <3>1. cache' = [ready |-> TRUE, x |-> x, y |-> y, view |-> LabelView]
      BY <1>5, <1>12
    <3>2. cache' \in [ready : {TRUE}, x : LabelSets, y : LabelSets, view : LabelViews]
      BY <1>9, <2>2, <3>1
    <3>3. axes' \in Axes
      BY <1>9 DEF LabelInv, LabelTypeOK
    <3>4. QED
      BY <1>9, <1>11, <3>2, <3>3 DEF LabelTypeOK, LabelViews
  <2>4. x \notin OldLabels /\ y \notin OldLabels
    BY <1>2, <1>3, <1>4, <1>6, <1>7, <1>12, CacheIs DEF OldLabels
  <2>5. {x, y} \subseteq allocated'
    BY <1>5, <1>6, <1>7, <1>12, <2>4
  <2>6. ASSUME NEW l \in allocated' \ {x, y} PROVE l.shows = "names"
    <3>1. l # NoLabels /\ l \notin OldLabels /\ (l \in allocated \/ l = n \/ l = m)
      BY <1>5, <1>12
    <3>2. CASE l \in allocated
      BY <3>1, <3>2 DEF LabelInv, LabelsAreCurrent, OldLabels
    <3>3. CASE l = n
      BY <1>2, <3>1, <3>3
    <3>4. l = m => FALSE
      BY <1>6, <3>1
    <3>5. QED
      BY <3>1, <3>2, <3>3, <3>4
  <2>7. QED
    BY <1>9, <1>10, <1>12, <2>1, <2>2, <2>3, <2>5, <2>6 DEF LabelInv, LabelsAreCurrent
<1>13. CASE y = NoLabels
  <2>1. allocated' = created \ {NoLabels, x} /\ cache' = cache
    BY <1>5, <1>13
  <2>2. LabelTypeOK'
    BY <1>9, <1>11, <2>1 DEF LabelInv, LabelTypeOK
  <2>3. x \notin allocated
    BY <1>2, <1>3, <1>6, CacheIs
  <2>4. cache.ready => {cache.x, cache.y} \subseteq allocated'
    BY <2>1, <2>3, CacheIs
  <2>5. ASSUME NEW l \in allocated' \ {cache.x, cache.y} PROVE l.shows = "names"
    <3>1. l # NoLabels /\ l # x /\ (l \in allocated \/ l = n \/ l = m)
      BY <1>13, <2>1
    <3>2. CASE l \in allocated
      BY <3>2 DEF LabelInv, LabelsAreCurrent
    <3>3. CASE l = n
      BY <1>2, <3>1, <3>3
    <3>4. l = m => FALSE
      BY <1>6, <3>1
    <3>5. QED
      BY <3>1, <3>2, <3>3, <3>4
  <2>6. QED
    BY <1>9, <2>1, <2>2, <2>4, <2>5 DEF LabelInv, LabelsAreCurrent
<1>14. QED
  BY <1>12, <1>13

(* There are no labels yet.                                                *)
LEMMA InitLabels == LabelInit => LabelInv
BY DEF LabelInit, LabelInv, LabelTypeOK, LabelsAreCurrent, EmptyCache

(* A change of theme and the end of the graph free the labels; a new range *)
(* or density leaves them until the next frame.                            *)
LEMMA NextLabels == LabelInv /\ [LabelNext]_labelVars => LabelInv'
<1> SUFFICES ASSUME LabelInv, [LabelNext]_labelVars PROVE LabelInv'
  OBVIOUS
(* The labels go, and only names are left in memory.                       *)
<1>1. ASSUME axes' \in Axes, allocated' = allocated \ OldLabels, cache' = EmptyCache
      PROVE  LabelInv'
  <2>1. LabelTypeOK'
    BY <1>1 DEF LabelInv, LabelTypeOK
  <2>2. \A l \in allocated' : l.shows = "names"
    BY <1>1 DEF LabelInv, LabelsAreCurrent, OldLabels
  <2>3. ~cache'.ready
    BY <1>1 DEF EmptyCache
  <2>4. QED
    BY <2>1, <2>2, <2>3 DEF LabelInv, LabelsAreCurrent
<1>2. CASE ChangeView
  <2>1. axes' \in Axes /\ axes'.theme = axes.theme /\ UNCHANGED <<cache, allocated>>
    BY <1>2 DEF ChangeView
  <2>2. QED
    BY <2>1 DEF LabelInv, LabelTypeOK, LabelsAreCurrent
<1>3. ASSUME NEW theme \in LabelThemes, ApplyLabelTheme(theme) PROVE LabelInv'
  <2>1. axes' \in Axes
    <3>1. axes' = [axes EXCEPT !.theme = theme] /\ axes \in Axes
      BY <1>3 DEF ApplyLabelTheme, LabelInv, LabelTypeOK
    <3>2. QED
      BY <3>1 DEF Axes
  <2>2. QED
    BY <1>1, <1>3, <2>1 DEF ApplyLabelTheme
<1>4. CASE ReplaceLabelledGraph
  BY <1>1, <1>4 DEF ReplaceLabelledGraph
<1>5. CASE UNCHANGED labelVars
  BY <1>5 DEF labelVars, LabelInv, LabelTypeOK, LabelsAreCurrent
<1>6. QED
  BY <1>2, <1>3, <1>4, <1>5, PrepareKeepsLabels DEF LabelNext

(* Whatever fails while labels are made, and whatever changes between two  *)
(* frames: render_graph draws labels that are in memory and in the colors  *)
(* of the graph, and but for the names of channels none is left behind.    *)
THEOREM LabelsStayCurrent == LabelSpec => []LabelsAreCurrent
<1>1. LabelInv => LabelsAreCurrent
  BY DEF LabelInv
<1>2. QED
  BY <1>1, InitLabels, NextLabels, PTL DEF LabelSpec

(* tick_labels is empty or holds two label sets.                           *)
THEOREM LabelTypeCorrect == LabelSpec => []LabelTypeOK
<1>1. LabelInv => LabelTypeOK
  BY DEF LabelInv
<1>2. QED
  BY <1>1, InitLabels, NextLabels, PTL DEF LabelSpec
===============================================================================
