SPECIFICATION Spec
CONSTANTS
  ApexFiles <- UpdatedFiles
  NumLoops = 2
  IntMax = 9
  Debuggable = FALSE
  MayRestart = TRUE
  NoFile = NoFile
  Faults = {}
INVARIANT RestoredIsBound
