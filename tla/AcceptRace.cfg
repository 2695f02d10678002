SPECIFICATION Spec
CONSTANTS
  SessionIds = {1}
  Threads = {main, binder}
  Main = main
  Apexes <- TwoVersions
  Builtin = {}
  Staging <- UpdateOnly
  FactoryActive <- OldOrNothing
  SupportsFsCheckpoints = FALSE
  Debuggable = FALSE
  CrashAnywhere = FALSE
  TornWrites = FALSE
  Faults = {}
  NoSession = NoSession
PROPERTY
  AcceptsActivatedOnly
