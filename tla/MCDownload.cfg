SPECIFICATION FairSpec
CONSTANTS
  Tolerance = 1
  Guess <- MCGuess
  Size <- MCSize
  RangeSupport = {{FALSE}, {TRUE, FALSE}}
  Conflict = "remote"
  Retries = 1
  MaxFaults = 2
  MaxCrashes = 1
  MaxChanges = 3
INVARIANTS
  UnchangedMeansExact
  Inv
PROPERTIES
  EventuallyExact
  Settles
CHECK_DEADLOCK FALSE
