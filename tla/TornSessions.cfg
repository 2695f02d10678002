SPECIFICATION Spec
CONSTANTS
  SessionIds = {1, 2}
  Threads = {main}
  Main = main
  Apexes <- TwoVersions
  Builtin = {}
  Staging <- UpdateOnly
  FactoryActive <- OldOrNothing
  SupportsFsCheckpoints = FALSE
  Debuggable = FALSE
  CrashAnywhere = TRUE
  TornWrites = TRUE
  Faults = {}
  NoSession = NoSession
INVARIANT
  AtMostOneActiveSession
