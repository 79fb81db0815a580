\* The RPM limit as documented.
SPECIFICATION Spec
CONSTANTS
  Keys <- TwoKeys
  NoKey = "none"
  Clients = {"c1", "c2"}
  SeededKeys <- TwoKeys
  Order <- KeyOrder
  Strategy = "round_robin"
  Weight <- EqualWeights
  Rpm <- FirstLimited
  MaxAttempts = 1
  Threshold = 2
  CoolingDown = 1
  Minute = 1
  CallerExclusions <- StickyToFirst
  AdminStatuses = {}
  Faults = {}
  MaxRequests = 2
  MaxAdmin = 0
  MaxNow = 1
INVARIANTS
  RpmRespected
CHECK_DEADLOCK FALSE
