SPECIFICATION Spec
CONSTANTS
  Sessions = {s1}
  NodeIds = {n1, n2}
  NoNode = NoNode
  MinL1Buffer = 2
  MaxL1Buffer = 3
  MaxLen = 5
  MaxRestarts = 1
  Scripts <- SafeScripts
  Fps <- MCFps
SYMMETRY Symmetric
INVARIANTS
  TypeOK
  SensorFlagExact
  OneCheckPerSession
  InFlightExact
  MaskedIsStored
  OnlyStoredTurnsDropped
  DropCarriesSummary
PROPERTY
  ImplementsMemory
