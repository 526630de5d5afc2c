SPECIFICATION Spec
CHECK_DEADLOCK FALSE
CONSTANTS
  Ask = {a1, a2}
  Client = {c1, c2}
  Uuid = {u1, u2}
  None = None
  SentMemory = 1
  SettledMemory = 1
  MaxSends = 3
INVARIANTS TypeOK AppliedIsAnswered NothingHangs SentOnce EndingIsNoFailure
PROPERTIES ExitIsLast LateIsStale EndingEnds
