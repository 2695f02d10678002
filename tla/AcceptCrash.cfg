SPECIFICATION Spec
CONSTANTS
  SessionIds = {1}
  Threads = {main}
  Main = main
  Apexes <- TwoVersions
  Builtin = {}
  Staging <- UpdateOnly
  FactoryActive <- OldOrNothing
  SupportsFsCheckpoints = FALSE
  Debuggable = FALSE
  CrashAnywhere = TRUE
  TornWrites = FALSE
  Faults = {}
  NoSession = NoSession
PROPERTY
  RollbackAlwaysRestores
