SPECIFICATION FairSpec
CONSTANTS
  Daemons = {d1, d2, d3}
  Callers = {c1}
  None = None
  Torn = Torn
  Patient = TRUE
  MaxCrashes = 2
INVARIANTS
  TypeOK
  AtMostOneAlive
  NoSplitBrain
  ServingIsVisible
  ChainIsTrusted
  ProxyLacksCertsOnlyIfTorn
PROPERTY
  StartRecovers
