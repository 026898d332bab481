SPECIFICATION LiveAllSpec
CONSTANTS
  Slots = 3
  MaxSamples = 2
  PassLimit = 2
  MaxTime = 6
  LaunchGraphs = {1, 2}
  RefusedGraphs = {2}
  Places <- PlaceOrder
  ProbeDelay = 2
  ConfigRetry = 3
  RelaunchDelay = 3
  LongestPass = 2
  StartUp = 2
  MaxQuits = 1
INVARIANTS
  TypeOK
  SlotReserved
  NoSlotRace
  ConsecutiveSamples
  EverySampleAccounted
  FailureIsKnown
  OneViewerStarts
PROPERTIES
  
  
  ReleasedIsFreed
  WaitingIsServed
