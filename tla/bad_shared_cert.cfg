SPECIFICATION FairSpec
CONSTANTS
  d1 = d1
  d2 = d2
  d3 = d3
  p1 = p1
  p2 = p2
  DataExports = {d1,d2}
  Restores = {}
  Snapshots = {}
  LocalRestores = {}
  PvcOf <- OwnClaims
  JobLimit = 2
  SSL = TRUE
  Deletable = {}
  MaxFaults = 0
PROPERTY EventuallyDone
CHECK_DEADLOCK FALSE
