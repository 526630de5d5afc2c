SPECIFICATION Spec
CHECK_DEADLOCK FALSE
CONSTANTS
  s1 = s1
  s2 = s2
  c1 = c1
  c2 = c2
  Session = {s1, s2}
  Call = {c1, c2}
  SessionOf <- MCSolo
  Scopes = {"command"}
  Core = core
  None = None
  MaxRuns = 1
  Resumed = {}
INVARIANT NotOvertaken
