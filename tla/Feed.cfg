SPECIFICATION FairSpec
CONSTANTS
  Items = {i1, i2}
  Tabs = {t1, t2}
  QueueMax = 2
  MaxServers = 1
INVARIANTS
  TypeOK
  InStep
PROPERTY
  ViewCatchesUp
