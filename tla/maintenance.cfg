SPECIFICATION FairSpec
CONSTANTS
  RepoCount = 2
  MaxRounds = 1
  MaxFaults = 2
INVARIANT TypeOK
INVARIANT EveryRepoTried
PROPERTY OwnStatusOnly
PROPERTY RoundEnds
CHECK_DEADLOCK FALSE
