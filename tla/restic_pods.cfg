SPECIFICATION FairSpec
CONSTANTS
  b1 = b1
  b2 = b2
  r1 = r1
  Backups = {b1, b2}
  Restores = {r1}
  BackOffLimit = 1
  MaxFaults = 3
INVARIANT TypeOK
INVARIANT SavedIsStored
INVARIANT NeverOlder
PROPERTY SuccessIsTrue
PROPERTY SavedOrError
PROPERTY EventuallyEnds
CHECK_DEADLOCK FALSE
