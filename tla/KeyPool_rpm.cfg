\* A key limited to one request a minute, the weighted strategy, and usage entries
\* that cannot always be written.
SPECIFICATION Spec
CONSTANTS
  Keys <- TwoKeys
  NoKey = "none"
  Clients = {"c1", "c2"}
  SeededKeys <- TwoKeys
  Order <- KeyOrder
  Strategy = "weighted_round_robin"
  Weight <- DoubleFirst
  Rpm <- FirstLimited
  MaxAttempts = 1
  Threshold = 2
  CoolingDown = 1
  Minute = 1
  CallerExclusions <- NoExclusions
  AdminStatuses = {}
  Faults = {"usage"}
  MaxRequests = 4
  MaxAdmin = 0
  MaxNow = 1
INVARIANTS
  RpmOvershootBounded
  RpmReserve
  SingleUsageEntry
CHECK_DEADLOCK FALSE
