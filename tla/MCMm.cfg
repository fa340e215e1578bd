CONSTANTS
  a1 = a1
  a2 = a2
  MaxAddress = 7
  PageSize = 2
  Spaces = {1}
  Owners = {"a", "b"}
  OwnerCapacity = 2
  TokenCapacity = 2
  MaxToken = 2
  MaxGeneration = 2
  GlobalQuota <- PinGlobalQuota
  OwnerQuotas <- PinOwnerQuotas
  Profiles <- PinProfiles
  Requests <- PinRequests
  ChargeCapacity = 2
  MaxIdentity = 2
  MaxCharge = 3
  Quota <- BudgetQuota
  ByteRanges <- BudgetRanges
SYMMETRY Symmetry
SPECIFICATION MCSpec
INVARIANTS
  MmBooks
  GeometryExact
  PinsHold
PROPERTIES
  PreparedStaysExact
CHECK_DEADLOCK FALSE
