CONSTANTS
  s0 = s0
  s1 = s1
  Nobody = Nobody
  o1 = o1
  l1 = l1
  l2 = l2
  NoOwner = NoOwner
  k1 = k1
  k2 = k2
  w1 = w1
  NoWaiter = NoWaiter
SPECIFICATION Spec
PROPERTIES ExitTerminates CloseCompletes RetireCompletes QueueServed
CHECK_DEADLOCK FALSE
