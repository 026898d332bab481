SPECIFICATION Spec
CONSTANTS
  Scopes = {scope}
  Tables = {}
  Meters = {}
  Adders = {add, add2}
  SpectralAdders = {}
  Capacity = 2
  MaxStreams = 2
  MaxHandleId = 3
  Heap = {1, 2}
  MaxThemes = 0
  Domain <- MCDomain
  CellOf <- PrivateCells
  scope = scope
  table = table
  meter = meter
  add = add
  add2 = add2
  NoGraph = NoGraph
  NoStream = NoStream
  NoInstance = NoInstance
  Unused = Unused
SYMMETRY AdderSymmetry
INVARIANTS
  RegistryConsistent
  NoDanglingStream
  NoLeakedStream
  HandleUsable
PROPERTY LifeSpec
