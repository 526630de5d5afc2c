SPECIFICATION Spec
CHECK_DEADLOCK FALSE
CONSTANTS
  t1 = t1
  Terminal = {t1}
  MaxHosts = 3
  MaxStops = 1
  None = None
  Overlaps = {"resumes"}
INVARIANT NoSecondAgent
