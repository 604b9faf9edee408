SPECIFICATION FairSpec
CONSTANTS
  b1 = b1
  b2 = b2
  r1 = r1
  x1 = x1
  Backups = {b1}
  Restores = {r1}
  Deletes = {x1}
  SourceOf <- FirstBackup
  Compression = TRUE
  BackOffLimit = 1
  MaxFaults = 3
INVARIANT TypeOK
INVARIANT SavedIsStored
INVARIANT SuccessIsTrue
PROPERTY SavedStays
PROPERTY KeepsContract
PROPERTY EventuallyEnds
CHECK_DEADLOCK FALSE
