SPECIFICATION Spec
CONSTANTS
  SessionIds = {1}
  Threads = {main}
  Main = main
  Apexes <- TwoVersions
  Builtin = {}
  Staging <- UpdateOnly
  FactoryActive <- OldOrNothing
  SupportsFsCheckpoints = TRUE
  Debuggable = FALSE
  CrashAnywhere = TRUE
  TornWrites = FALSE
  Faults = {"activate"}
  NoSession = NoSession
PROPERTIES
  NoActivationAfterVoldRollback
  FollowsLifecycle
