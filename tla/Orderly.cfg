SPECIFICATION Spec
CONSTANTS
  SessionIds = {1, 2}
  Threads = {main}
  Main = main
  Apexes <- MCApexes
  Builtin <- MCBuiltin
  Staging <- MCStaging
  FactoryActive <- AnyVersion
  SupportsFsCheckpoints = FALSE
  Debuggable = TRUE
  CrashAnywhere = FALSE
  TornWrites = FALSE
  Faults = {"link", "activate", "commit"}
  NoSession = NoSession
PROPERTIES
  ActivatedIsNewest
  StageAllOrNothing
