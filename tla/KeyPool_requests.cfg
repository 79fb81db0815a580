\* Overlapping requests, sticky sessions and an administrator.
SPECIFICATION Spec
CONSTANTS
  Keys <- TwoKeys
  NoKey = "none"
  Clients = {"c1", "c2"}
  SeededKeys <- TwoKeys
  Order <- KeyOrder
  Strategy = "round_robin"
  Weight <- EqualWeights
  Rpm <- NoLimits
  MaxAttempts = 2
  Threshold = 2
  CoolingDown = 1
  Minute = 1
  CallerExclusions <- StickyToFirst
  AdminStatuses = {"disabled", "cooling_down"}
  Faults = {}
  MaxRequests = 2
  MaxAdmin = 1
  MaxNow = 1
INVARIANTS
  TypeOK
  HealthyMeansNoFailures
  OneUsageEntryPerRequest
PROPERTIES
  GivesUpOnlyWithReason
  DisabledStaysOut
  LogSpec
CHECK_DEADLOCK FALSE
