SPECIFICATION Spec
CONSTANTS
  Tolerance = 1
  Guess <- MCGuess
  Size <- MCSize
  RangeSupport = {{TRUE}}
  Conflict = "newest"
  Retries = 1
  MaxFaults = 1
  MaxCrashes = 0
  MaxChanges = 0
INVARIANTS
  RenamedWhenComplete
CHECK_DEADLOCK FALSE
