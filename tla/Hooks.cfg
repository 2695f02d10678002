SPECIFICATION FairSpec
CONSTANTS
  Calls = {"c1", "c2"}
  ApexFiles <- MCFiles
  Sessions <- MCSessions
  Installed <- MCInstalled
  Active <- MCActive
  Host = "host"
  NoFile = NoFile
  Faults = {"mount", "mkdir", "fork", "child"}
CHECK_DEADLOCK FALSE
INVARIANTS
  TypeOK
  HostKeepsActive
  HookSeesPackages
  
  
PROPERTIES
  CallsEnd
