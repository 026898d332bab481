SPECIFICATION AllSpec
CONSTANTS
  csoundA = csoundA
  light = light
  dark = dark
  Senders = {csoundA}
  GraphIds = {1, 2}
  Themes = {light, dark}
  FirstThemes = {light, dark}
  Changing = {csoundA}
  MaxViewerGraphs = 2
  Repetitions = 1
  MaxSequence = 1
  MaxQueue = 2
  MaxAnswers = 1
  MaxLosses = 1
  NoWindow = NoWindow
  NoGraph = NoGraph
  StreamIds = {s1, s2}
  WindowSamples = 2
  Latency = 1
  MaxSamples = 2
  Faulty = TRUE
  RealTime = FALSE
  MaxElapsed = 1
  MaxNow = 6
  Formats = {2, 3}
  MaxSpectralBins = 2
  QueueSize = 3
  HistoryCapacity = 2
  MaxFrameTime = 3
  Lengths = {1, 2, 3, 5}
  Values = {0, 1, 2}
  NotFinite = NotFinite
  MaxStreamSamples = 2
  MaxBuckets = 2
  Channels = {left}
  CycleLevels <- Levels
  NotANumber = NotANumber
  Lowest <- BelowAllLevels
  AxisMin <- BottomOfAxis
  FramesPerPacket = 2
  MeterQueue = 2
  PeakHold = 1
  LongestFrame = 1
  PointRates = {5, 25, 28, 90}
  TrailsPerSecond = 10
  MaxTrail = 4
  MaxPointSamples = 3
  MaxPoints = 9
  LabelThemes = {"light", "dark"}
  AxisEnds = {0, 2, 40}
  MeterChannels = {2}
  Densities = {1, 2}
  MaxMeterChannels = 32
  MaxLabelSets = 6
  Limits <- DoubleLimits
  Frequencies <- FrequencyLimits
  Divisions <- Grids
  Counts = {0, 1, 2, 3}
  NaN = NaN
  Absent = Absent
  FloatMax = 100
  FloatTiny = 1
  Ulp = 2
  Nyquist = 50
  MaxTicks = 6
  MaxCount = 2
SYMMETRY Symmetry
INVARIANTS
  TypesOK
  OneWindowPerGraph
  PointsAreInPlace
  
  FullWindowIsDrawn
  ShownFrameIsWhole
  HistoryInOrder
  CompleteFrameIsShown
  BinsAccounted
  ShownTableIsSnapshot
  EnvelopeCoversTable
  EveryPeakReportedOnce
  MarkIsInPlace
  MarkIsHeld
  TrailIsNewest
  LabelsAreCurrent
  
PROPERTY SpectrumNeverOlder
CHECK_DEADLOCK FALSE
