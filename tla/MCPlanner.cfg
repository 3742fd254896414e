SPECIFICATION Spec
CONSTANTS
  Tolerance = 1
  Guess <- MCGuess
  Configs <- MCConfigs
  RemoteTrees <- MCRemoteTrees
  LocalTrees <- MCLocalTrees
INVARIANTS
  TypeOK
  CleanupSparesTransfers
  RemovesOnlyOnReceivingSide
  UpToDateIffMirrored
  WinnerReplacesLoser
