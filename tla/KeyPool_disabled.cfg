\* A disabled key and a request already sent with it.
SPECIFICATION Spec
CONSTANTS
  Keys <- TwoKeys
  NoKey = "none"
  Clients = {"c1", "c2"}
  SeededKeys <- TwoKeys
  Order <- KeyOrder
  Strategy = "round_robin"
  Weight <- EqualWeights
  Rpm <- NoLimits
  MaxAttempts = 2
  Threshold = 3
  CoolingDown = 1
  Minute = 1
  CallerExclusions <- StickyToFirst
  AdminStatuses = {"disabled"}
  Faults = {}
  MaxRequests = 2
  MaxAdmin = 1
  MaxNow = 1
PROPERTIES
  OnlyAdminEnables
CHECK_DEADLOCK FALSE
