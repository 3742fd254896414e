SPECIFICATION ConfigSpec
CONSTANTS
  Inputs <- MCInputs
  SettingsSent <- MCSettingsSent
  ConnectionsSent <- MCConnectionsSent
  TasksSent <- MCTasksSent
INVARIANTS
  AcceptedIsUsable
  FlagsShadowEnvironment
PROPERTIES
  RestartChangesNoSetting
CHECK_DEADLOCK FALSE
