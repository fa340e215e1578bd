CONSTANTS
  p1 = p1
  p2 = p2
  t1 = t1
  t2 = t2
  c1 = c1
  c2 = c2
  Procs = {p1, p2}
  InitProcs = {p2}
  Tids = {t1, t2}
  Codes = {1, 2}
  Cpus = {c1, c2}
  Limit = 3
  Legacy = {p2}
SYMMETRY Symmetry
SPECIFICATION Spec
INVARIANTS
  ThreadsInv
  ChargesConserved
  ExitTokenExclusive
PROPERTIES
  GroupExitCodeSticky
  NoStranding
CHECK_DEADLOCK FALSE
