SPECIFICATION LiveSpec
CONSTANTS
  Scopes = {scope}
  Tables = {}
  Meters = {}
  Adders = {add}
  SpectralAdders = {add}
  Capacity = 2
  MaxStreams = 1
  MaxHandleId = 3
  Heap = {1}
  MaxThemes = 0
  Domain <- MCDomain
  CellOf <- PrivateCells
  scope = scope
  table = table
  meter = meter
  add = add
  add2 = add2
  NoGraph = NoGraph
  NoStream = NoStream
  NoInstance = NoInstance
  Unused = Unused
PROPERTY FinishedGraphIsFreed
