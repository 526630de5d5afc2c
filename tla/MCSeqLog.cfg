SPECIFICATION Spec
CONSTANTS
  l1 = l1
  l2 = l2
  Listener <- MCListener
  Size <- MCSize
  MaxBytes = 2
  MaxSeq = 4
INVARIANTS TypeOK NoGap InOrderOnce RingInBudget
PROPERTY AllHandedOut
