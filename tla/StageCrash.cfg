SPECIFICATION Spec
CONSTANTS
  SessionIds = {1, 2}
  Threads = {main}
  Main = main
  Apexes <- MCApexes
  Builtin <- MCBuiltin
  Staging <- MCStaging
  FactoryActive <- AnyVersion
  SupportsFsCheckpoints = FALSE
  Debuggable = FALSE
  CrashAnywhere = TRUE
  TornWrites = FALSE
  Faults = {}
  NoSession = NoSession
PROPERTY
  ActivatedIsNewest
