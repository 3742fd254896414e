SPECIFICATION FairSpec
CONSTANTS
  Callers = {g1, g2}
  NoOne = none
  MaxCalls = 3
  MaxFaults = 1
INVARIANTS
  Inv
  AnonymousOnlyIfDiscarded
PROPERTIES
  TokenNotOverwritten
  CallsEnd
CHECK_DEADLOCK FALSE
