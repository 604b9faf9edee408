SPECIFICATION FairSpec
CONSTANTS
  d1 = d1
  d2 = d2
  d3 = d3
  p1 = p1
  p2 = p2
  DataExports = {d1}
  Restores = {}
  Snapshots = {d1}
  LocalRestores = {}
  PvcOf <- OwnClaims
  JobLimit = 1
  SSL = TRUE
  Deletable = {d1}
  MaxFaults = 3
INVARIANT SuccessIsBacked
PROPERTY FailureIsFinal
PROPERTY EventuallyDone
PROPERTY DeletionCompletes
PROPERTY KeepsPromise
CHECK_DEADLOCK FALSE
