\* Requests one at a time, a key limited to one request a minute, and recorders
\* that fail at any write.
SPECIFICATION Spec
CONSTANTS
  Keys <- TwoKeys
  NoKey = "none"
  Clients = {"c1"}
  SeededKeys <- TwoKeys
  Order <- KeyOrder
  Strategy = "round_robin"
  Weight <- EqualWeights
  Rpm <- FirstLimited
  MaxAttempts = 2
  Threshold = 2
  CoolingDown = 1
  Minute = 1
  CallerExclusions <- StickyToFirst
  AdminStatuses = {}
  Faults = {"usage", "health"}
  MaxRequests = 4
  MaxAdmin = 0
  MaxNow = 2
INVARIANTS
  AnsweredIsRecorded
  HealthPolicyInTurn
  CoolingKeyHasDeadline
  RpmRespected
PROPERTIES
  LogSpec
CHECK_DEADLOCK FALSE
