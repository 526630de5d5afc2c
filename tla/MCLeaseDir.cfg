SPECIFICATION Spec
CHECK_DEADLOCK FALSE
CONSTANTS
  s1 = s1
  s2 = s2
  c1 = c1
  c2 = c2
  Session = {s1, s2}
  Call = {c1, c2}
  SessionOf <- MCSolo
  Scopes = {"command", "turn"}
  Core = core
  None = None
  MaxRuns = 2
  Resumed = {s1}
INVARIANTS TypeOK MutualExclusion GrantedIsHeld ReapsOnlyTheDead
PROPERTIES HookEnds DeadLeaseGoes
