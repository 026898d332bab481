SPECIFICATION Spec
CONSTANTS
  Scopes = {scope}
  Tables = {}
  Meters = {}
  Adders = {add}
  SpectralAdders = {add}
  Capacity = 1
  MaxStreams = 2
  MaxHandleId = 2
  Heap = {1, 2}
  MaxThemes = 0
  Domain <- MCDomain
  CellOf <- PrivateCells
  scope = scope
  table = table
  meter = meter
  add = add
  add2 = add2
  NoGraph = NoGraph
  NoStream = NoStream
  NoInstance = NoInstance
  Unused = Unused
INVARIANT NoLeakedStream
