SPECIFICATION FairSpec
CONSTANTS
  SessionIds = {1}
  Threads = {main}
  Main = main
  Apexes <- TwoVersions
  Builtin = {}
  Staging <- UpdateOnly
  FactoryActive <- OldOrNothing
  SupportsFsCheckpoints = FALSE
  Debuggable = FALSE
  CrashAnywhere = TRUE
  TornWrites = TRUE
  Faults = {"activate"}
  NoSession = NoSession
INVARIANTS
  HalfRestoredIsRecorded
PROPERTIES
  RollbackFinishes
  StagedIsDecided
  HandlersEnd
  RolledBackIsUndone
