SPECIFICATION Spec
CHECK_DEADLOCK FALSE
CONSTANTS
  t1 = t1
  Terminal = {t1}
  MaxHosts = 2
  MaxStops = 1
  None = None
  Overlaps = {}
INVARIANTS TypeOK OrphanStaysNamed LiveIsFollowed
PROPERTIES OneProcess OnlyInterruptedComesBack OrphansGo
