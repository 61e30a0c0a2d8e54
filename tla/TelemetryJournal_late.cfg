CONSTANTS
  Agents = {a1, a2}
  MaxReport = 2
  MaxBatch = 1
  MaxCrashes = 1
SPECIFICATION FairSpec
PROPERTY RecoveryEnds
