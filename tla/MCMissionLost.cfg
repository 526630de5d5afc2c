SPECIFICATION Spec
CHECK_DEADLOCK FALSE
CONSTANTS
  t1 = t1
  t2 = t2
  Task = {t1, t2}
  None = None
  MaxStarts = 1
  MaxAttempts = 1
  AcceptUnapplied = TRUE
  MaxOf <- MCOneCrash
  MaxTroubles = 2
  Picks = {}
  MaxBaseMoves = 0
INVARIANT DoneHasItsWork
