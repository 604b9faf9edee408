SPECIFICATION Spec
CONSTANTS
  d1 = d1
  d2 = d2
  d3 = d3
  p1 = p1
  p2 = p2
  DataExports = {d1,d2}
  Restores = {}
  Snapshots = {}
  LocalRestores = {}
  PvcOf <- SharedClaim
  JobLimit = 2
  SSL = TRUE
  Deletable = {d1}
  MaxFaults = 1
INVARIANT TypeOK
INVARIANT OneJobPerClaim
INVARIANT ClaimInv
INVARIANT TransferHasResources
PROPERTY KeepsPromise
CHECK_DEADLOCK FALSE
