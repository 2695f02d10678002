SPECIFICATION Spec
CONSTANTS
  ApexFiles <- MCFiles
  NumLoops = 2
  IntMax = 2
  Debuggable = TRUE
  MayRestart = TRUE
  NoFile = NoFile
  Faults = {"verity", "mount", "bind", "umount", "dm"}
INVARIANTS
  TypeOK
  DatabaseIsMounted
  DatabaseChecksPass
  MountsAreKnown
  DevicesAreFreed
  
PROPERTIES
  BootActivatesNewest
  
