SPECIFICATION Spec
CONSTANTS
  ApexFiles <- MCFiles
  Images <- MCImages
  Submissions <- MCSubmissions
  Shim = "shim"
  kBootstrapApexes = {"r"}
  NoKey = "none"
INVARIANTS
  TypeOK
  MountedIsTrusted
  KeysMatchImage
  InstalledWasVerified
  BootCoversBuiltins
  NoBootLoop
