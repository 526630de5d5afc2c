SPECIFICATION Spec
CHECK_DEADLOCK FALSE
CONSTANTS
  t1 = t1
  t2 = t2
  Task = {t1}
  None = None
  MaxStarts = 3
  MaxAttempts = 2
  AcceptUnapplied = FALSE
  MaxOf <- MCOften
  MaxTroubles = 4
  Picks = {"merge-local", "pull-request", "keep", "discard"}
  MaxBaseMoves = 1
INVARIANTS TypeOK FinishMatchesBase
PROPERTY RecordsSettle
