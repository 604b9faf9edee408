SPECIFICATION Spec
CONSTANTS
  d1 = d1
  d2 = d2
  d3 = d3
  p1 = p1
  p2 = p2
  DataExports = {d1,d2}
  Restores = {d1,d2}
  Snapshots = {}
  LocalRestores = {d2}
  PvcOf <- SharedClaim
  JobLimit = 1
  SSL = FALSE
  Deletable = {d1}
  MaxFaults = 1
INVARIANT BackedInv
INVARIANT SuccessLeavesNothing
INVARIANT JobLimitRespected
CHECK_DEADLOCK FALSE
