SPECIFICATION Spec
CONSTANTS
  Tolerance = 1
  Guess <- MCGuess
  SizeOf <- MCSizeOf
  Configs <- MixedWays
  StartRemote <- Kinds
  StartLocal <- Kinds
  StartTime = 2
  UserFiles <- AandDX
  Concurrency = 2
  Retries = 0
  EditsDuringPass = TRUE
  UsersChangeKinds = TRUE
  MaxEdits = 1
  MaxFaults = 1
  MaxStops = 1
INVARIANTS
  TypedInv
PROPERTIES
  RemovalOnlyAfterAllTransfers
  SourceKeepsEveryFile
  OneWayLeavesSourceAlone
