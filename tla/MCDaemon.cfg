SPECIFICATION FairSpec
CONSTANTS
  x1 = x1
  x2 = x2
  cut = cut
  Jobs <- TwoJobs
  Cuts <- OneCut
  Streams <- MCStreams
  Limit = 3
  RefillSize = 1
  Chunk = 2
  T = 2
  Size = 2
  MaxRuns = 2
INVARIANTS
  RateBound
  HealthIsHonest
PROPERTIES
  StopReturns
CHECK_DEADLOCK FALSE
