SPECIFICATION FairSpec
CONSTANTS
  Sessions = {s1}
  NodeIds = {n1, n2}
  None = None
  MinL1Buffer = 1
  MaxL1Buffer = 2
  MaxLen = 3
  MaxQueue = 1
  MaxRestarts = 1
  Script <- GrowingScripts
  Fps = {f1}
  f1 = f1
INVARIANTS
  TypeOK
  ConsumedIsSaved
  TurnsSummarisedOnce
  LostMinutesWereRaced
  IdleAnswerMissesGapsOnly
PROPERTIES
  ImplementsMemory
  BacklogIsAbsorbed
