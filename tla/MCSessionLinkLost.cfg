SPECIFICATION Spec
CONSTANTS
  a1 = a1
  Ask <- MCAsk
  None = None
  RingCap = 4
  QueueCap = 2
  WireCap = 2
  Adopt = FALSE
  MaxSeq = 5
  MaxLosses = 0
INVARIANTS LiveMeansFollowing
