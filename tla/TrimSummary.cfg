SPECIFICATION Spec
CONSTANTS
  Sessions = {s1}
  NodeIds = {n1, n2}
  NoNode = NoNode
  MinL1Buffer = 2
  MaxL1Buffer = 3
  MaxLen = 5
  MaxRestarts = 0
  Scripts <- CleanScripts
  Fps <- MCFps
INVARIANT
  AbsorbedIsCoveredByPair
