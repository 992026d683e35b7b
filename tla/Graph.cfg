SPECIFICATION Spec
CONSTANTS
  Sessions = {s1, s2}
  MaxNodeId = 4
  TrimModes = {"active"}
  HookModes = {"both"}
  Readers = {r1, r2}
  ReadIds = {1}
  None = None
  TopK = 2
  MaxChildren = 1
  MaxRpc = 1
  MaxRestarts = 1
  MayCross = TRUE
  Sims = {0, 1}
  MaxNodes = 3
  MinScore = 1
  Hop1 = TRUE
SYMMETRY Symmetric
INVARIANTS
  TypeOK
  LinksAreMutual
  BundleLinksAreItsChildren
  OrphansAreTorn
  DetailComesFromTurns
  GenerationsAreBounded
  WindowIsScoped
  RoomIsLostToChildrenOnly
CHECK_DEADLOCK FALSE
