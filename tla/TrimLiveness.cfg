SPECIFICATION FairSpec
CONSTANTS
  Sessions = {s1, s2}
  NodeIds = {n1}
  NoNode = NoNode
  MinL1Buffer = 2
  MaxL1Buffer = 3
  MaxLen = 5
  MaxRestarts = 1
  Scripts <- ShortScripts
  Fps <- MCFps
PROPERTIES
  SensorNeverStarved
  BacklogIsCompacted
