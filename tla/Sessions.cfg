SPECIFICATION Spec
CONSTANTS
  SessionIds = {1, 2}
  Threads = {main}
  Main = main
  Apexes <- MCApexes
  Builtin = {}
  Staging <- MCStaging
  FactoryActive <- OldOrNothing
  SupportsFsCheckpoints = FALSE
  Debuggable = FALSE
  CrashAnywhere = TRUE
  TornWrites = FALSE
  Faults = {"commit", "dir", "link", "unlink", "rename", "chmod"}
  NoSession = NoSession
INVARIANTS
  TypeOK
  AtMostOneActiveSession
  BackupIntact
  RollbackResumable
PROPERTIES
  RollbackRestores
  ReplacedBeforeRemoved
  ActivatedIsInstalled
  FollowsLifecycle
