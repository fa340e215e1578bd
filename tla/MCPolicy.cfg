CONSTANTS
  MaxAddress = 6
  SignatureBytes = 1
  UserLimit = 6
  Threads = {1, 2}
  First = 1
  Requests = {"q"}
  Events = {"preempt", "signal"}
  MaxEpoch = 3
  MaxRevision = 4
  Gates <- RseqGates
SPECIFICATION MCSpec
INVARIANTS
  PlansSettle
  Confined
  DecisionsExact
PROPERTIES
  ForksInherit
  NothingUndone
  PrivilegeEarned
CHECK_DEADLOCK FALSE
