SPECIFICATION Spec
CONSTANTS
  Scopes = {}
  Tables = {table}
  Meters = {meter}
  Adders = {}
  SpectralAdders = {}
  Capacity = 2
  MaxStreams = 1
  MaxHandleId = 3
  Heap = {1, 2}
  MaxThemes = 1
  Domain <- MCDomain
  CellOf <- PrivateCells
  scope = scope
  table = table
  meter = meter
  add = add
  add2 = add2
  NoGraph = NoGraph
  NoStream = NoStream
  NoInstance = NoInstance
  Unused = Unused
INVARIANTS
  NoOrphanGraph
  AckIsCurrent
