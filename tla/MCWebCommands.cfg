SPECIFICATION Spec
CONSTANTS
  MaxCommands = 2
  MaxConns = 2
  MaxAges = 1
  MaxUnacked = 2
  CacheMax = 1
INVARIANT TypeOK
INVARIANT ActedOnce
INVARIANT ActedInOrder
INVARIANT BoundFirst
PROPERTY AllActedOrSwallowed
CHECK_DEADLOCK FALSE
