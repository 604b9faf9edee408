SPECIFICATION FairSpec
CONSTANTS
  d1 = d1
  d2 = d2
  c1 = c1
  DataExports = {d1}
  Claims = {c1}
  Mixes <- Bare
  Source <- OneClaim
  Destination <- OneClaim
  Deletable = {}
  MaxFaults = 0
PROPERTY RsyncSucceeds
CHECK_DEADLOCK FALSE
