SPECIFICATION FairSpec
CONSTANTS
  Connections = {c1}
  TaskIds = {"t1"}
  Intervals = {1, 2}
  Requests = {r1}
  Slots = {s1, s2}
  Edits <- MCEdits
  StartStates <- MCStartStates
  MaxTime = 1
  MaxRequests = 2
  MaxStops = 1
INVARIANTS
  OneRunPerTask
  RunningIsReal
PROPERTIES
  DueTasksRun
