CONSTANTS
  Capacity = 2
  CqEntries = 2
  Modulus = 4
  MaxGeneration = 2
  MaxSequence = 3
  UserData = {7}
  Causes = {"Completed", "Closing"}
  o1 = o1
  o2 = o2
  l1 = l1
  l2 = l2
  l3 = l3
  NoOwner = NoOwner
SPECIFICATION MCSpec
INVARIANTS
  RingInv
  OneTerminalOwner
  UnreadIntact
  LeasesHonoured
  InputExact
PROPERTIES
  CancelTakesOldest
CHECK_DEADLOCK FALSE
