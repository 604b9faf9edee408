SPECIFICATION Spec
CONSTANTS
  d1 = d1
  d2 = d2
  d3 = d3
  p1 = p1
  p2 = p2
  DataExports = {d1}
  Restores = {}
  Snapshots = {d1}
  LocalRestores = {}
  PvcOf <- OwnClaims
  JobLimit = 1
  SSL = FALSE
  Deletable = {d1}
  MaxFaults = 0
INVARIANT RemovedLeavesNoSnapshotPVC
CHECK_DEADLOCK FALSE
