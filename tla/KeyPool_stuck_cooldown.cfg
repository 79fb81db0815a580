\* A late success and the cooldown of its key.
SPECIFICATION Spec
CONSTANTS
  Keys <- OneKey
  NoKey = "none"
  Clients = {"c1", "c2"}
  SeededKeys <- OneKey
  Order <- KeyOrder
  Strategy = "round_robin"
  Weight <- EqualWeights
  Rpm <- NoLimits
  MaxAttempts = 1
  Threshold = 3
  CoolingDown = 1
  Minute = 1
  CallerExclusions <- NoExclusions
  AdminStatuses = {}
  Faults = {}
  MaxRequests = 4
  MaxAdmin = 0
  MaxNow = 1
INVARIANTS
  CoolingKeyHasDeadline
CHECK_DEADLOCK FALSE
