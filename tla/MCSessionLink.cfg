SPECIFICATION Spec
CONSTANTS
  a1 = a1
  Ask <- MCAsk
  None = None
  RingCap = 2
  QueueCap = 1
  WireCap = 2
  Adopt = TRUE
  MaxSeq = 4
  MaxLosses = 1
INVARIANTS TypeOK AgreesWhenQuiet ExitIsFinal
PROPERTIES FeedSpec ExitReachesView CatchesUp
