CONSTANTS
  Tables = {t1}
  FirstTable = t1
  CopyTable = t2
  NoTable = NoTable
  Capacity = 2
  Descriptions = {d1, d2}
  MaxGeneration = 4
  Flags = {TRUE, FALSE}
  BatchLimits = {0, 1}
  e1 = e1
  e2 = e2
  e3 = e3
  Leaf = Leaf
  o1 = o1
  o2 = o2
  o3 = o3
  w1 = w1
  w2 = w2
  NoWaiter = NoWaiter
SYMMETRY Symmetry
SPECIFICATION MCSpec
INVARIANTS
  FdInv
  TokensHonoured
  DetachComplete
  DeliveryOwned
  ReadinessNotLost
CHECK_DEADLOCK FALSE
