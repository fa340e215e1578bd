CONSTANTS
  Procs = {1, 2}
  Groups = {1, 2, 3}
  Sessions = {1, 2}
  Cpus = {c1, c2}
  Limit = 2
  None = None
  s0 = s0
  s1 = s1
  N = 4
  Scopes = {s0, s1}
  RootScope = s0
  Batch = 2
  Nobody = Nobody
  Booted = {1, 2, 3, 4}
  Subreapers = {2}
  Exiters = {2, 3}
  MaxToggles = 0
SYMMETRY Symmetry
SPECIFICATION MCSpec
INVARIANTS
  ParentRegistered
CHECK_DEADLOCK FALSE
