CONSTANTS
  Managers = {m1, m2}
  Deliveries = {d1, d2}
  MaxGeneration = 2
  MaxOwners = 2
  Threads = {t1}
  Tids = {i1}
  Senders = {s1}
  Process = proc
  ThreadLimit = 1
  Varied = {20}
  MaxEntry = 2
  s1 = s1
  s2 = s2
  c1 = c1
  c2 = c2
  t1 = t1
  t2 = t2
  proc = proc
  i1 = i1
  i2 = i2
  m1 = m1
  m2 = m2
  d1 = d1
  d2 = d2
SYMMETRY Symmetry
SPECIFICATION MCSpec
INVARIANTS
  SharedInOrder
CHECK_DEADLOCK FALSE
