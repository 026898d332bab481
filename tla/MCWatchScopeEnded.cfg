SPECIFICATION ScopeSpec
CONSTANTS
  StreamIds = {s1, s2}
  WindowSamples = 2
  Latency = 1
  MaxSamples = 2
  Faulty = FALSE
  RealTime = TRUE
  MaxElapsed = 1
  MaxNow = 10
INVARIANT
  PlayingStreamIsDrawn
CHECK_DEADLOCK FALSE
