SPECIFICATION LabelSpec
CONSTANTS
  LabelThemes = {"light", "dark"}
  AxisEnds = {0, 2, 40}
  MeterChannels = {2}
  Densities = {1, 2}
  MaxMeterChannels = 32
  MaxLabelSets = 6
INVARIANT
  ChannelsAreNamed
CHECK_DEADLOCK FALSE
