SPECIFICATION Spec
CONSTANTS
  Daemons = {d1, d2}
  Callers = {c1}
  None = None
  Torn = Torn
  Patient = FALSE
  MaxCrashes = 0
INVARIANT
  StopFreesPort
CHECK_DEADLOCK FALSE
