SPECIFICATION FairSpec
CONSTANTS
  r1 = r1
  r2 = r2
  r3 = r3
  s1 = s1
  s2 = s2
  Requests = {r1, r2, r3}
  Snapshots = {s1, s2}
  SnapshotOf <- TwoForOne
  JobLimit = 1
  BackOffLimit = 1
  Nobody = Nobody
  MaxFaults = 2
INVARIANT TypeOK
INVARIANT JobLimitRespected
INVARIANT NothingLeft
PROPERTY EventuallyDone
CHECK_DEADLOCK FALSE
