SPECIFICATION Spec
CHECK_DEADLOCK FALSE
CONSTANTS
  t1 = t1
  t2 = t2
  Task = {t1, t2}
  None = None
  MaxStarts = 2
  MaxAttempts = 2
  AcceptUnapplied = FALSE
  MaxOf <- MCOnce
  MaxTroubles = 2
  Picks = {}
  MaxBaseMoves = 0
SYMMETRY Symmetry
INVARIANT BranchMatchesRecord
