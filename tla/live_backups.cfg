SPECIFICATION FairSpec
CONSTANTS
  d1 = d1
  d2 = d2
  d3 = d3
  p1 = p1
  p2 = p2
  DataExports = {d1,d2}
  Restores = {}
  Snapshots = {}
  LocalRestores = {}
  PvcOf <- SharedClaim
  JobLimit = 1
  SSL = FALSE
  Deletable = {d1}
  MaxFaults = 0
PROPERTY EventuallyDone
PROPERTY DeletionCompletes
PROPERTY KeepsPromiseInTime
CHECK_DEADLOCK FALSE
