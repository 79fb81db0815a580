\* Usage entries when a health event cannot be written.
SPECIFICATION Spec
CONSTANTS
  Keys <- TwoKeys
  NoKey = "none"
  Clients = {"c1"}
  SeededKeys <- TwoKeys
  Order <- KeyOrder
  Strategy = "round_robin"
  Weight <- EqualWeights
  Rpm <- NoLimits
  MaxAttempts = 2
  Threshold = 2
  CoolingDown = 1
  Minute = 1
  CallerExclusions <- StickyToFirst
  AdminStatuses = {}
  Faults = {"health"}
  MaxRequests = 2
  MaxAdmin = 0
  MaxNow = 1
INVARIANTS
  SingleUsageEntry
CHECK_DEADLOCK FALSE
