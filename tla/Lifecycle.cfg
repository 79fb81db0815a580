SPECIFICATION Spec
CONSTANTS
  c1 = c1
  c2 = c2
  r1 = r1
  r2 = r2
  none = none
  Missing = none
  Keys <- MCKeys
  KeyList <- MCKeyList
  Models <- MCModels
  FileProviders = {"pf", "pg"}
  OpenAIProviders = {"pf"}
  FilePools <- MCFilePools
  FileKeys = {"f"}
  OwnerOf <- MCOwnerOf
  Presets <- MCPresets
  DefaultModel = "m2"
  Bodies <- MCBodies
  Statuses = {"disabled"}
  Consoles <- MCConsoles
  Requests <- MCRequests
  Threshold = 2
  CoolingDown = 5
  MaxOps = 2
  MaxCrashes = 2
  MaxFailures = 2
  MaxEvents = 3
INVARIANTS
  TypeOK
  RestartOnlyReopens
  StoredKeysRoutable
  AuditComplete
  HealthyFailuresBounded
  StorageAgrees
PROPERTIES
  DurableRegistry
  RoutesKept
  StoredKeyGetsAdapter
CHECK_DEADLOCK FALSE
