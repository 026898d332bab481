SPECIFICATION ContractSpec
CONSTANTS
  Limits <- DoubleLimits
  Frequencies <- FrequencyLimits
  Divisions <- Grids
  Counts = {0, 1, 2, 3}
  NaN = NaN
  Absent = Absent
  FloatMax = 100
  FloatTiny = 1
  Ulp = 2
  Nyquist = 50
  MaxTicks = 6
  MaxCount = 2
INVARIANT
  MeterCallOpensWindow
CHECK_DEADLOCK FALSE
