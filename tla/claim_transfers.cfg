SPECIFICATION FairSpec
CONSTANTS
  d1 = d1
  d2 = d2
  c1 = c1
  DataExports = {d1, d2}
  Claims = {c1}
  Mixes <- Pairs
  Source <- OneClaim
  Destination <- OneClaim
  Deletable = {d1, d2}
  MaxFaults = 1
INVARIANT TypeOK
INVARIANT RemovedLeavesNothing
PROPERTY FailureIsFinal
PROPERTY EventuallySettled
CHECK_DEADLOCK FALSE
