SPECIFICATION StoreSpec
CHECK_DEADLOCK FALSE
CONSTANTS
  Threads = {t1, t2, t3}
  MaxVersion = 4
  MaxWriteFaults = 1
  MaxStops = 2
SYMMETRY ThreadSymmetry
INVARIANTS
  AnsweredIsDurable
PROPERTIES
  ImplementsDurable
