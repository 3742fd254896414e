SPECIFICATION FairSpec
CONSTANTS
  Tolerance = 1
  Guess <- MCGuess
  SizeOf <- MCSizeOf
  Configs <- AllConfigs
  StartRemote <- OneFile
  StartLocal <- FileOrDir
  StartTime = 2
  UserFiles <- JustA
  Concurrency = 2
  Retries = 1
  EditsDuringPass = FALSE
  UsersChangeKinds = FALSE
  MaxEdits = 2
  MaxFaults = 1
  MaxStops = 1
INVARIANTS
  UpToDateMeansSameContent
  OrderInv
PROPERTIES
  NewestSurvives
  OlderOnlyByPolicy
  Settles
