SPECIFICATION FairSpec
CONSTANTS
  N = 4
  Workers = {w1, w2, w3}
INVARIANTS
  Inv
  ExactReport
PROPERTIES
  ImplementsBatch
  Returns
  StopsOnCancel
