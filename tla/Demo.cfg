SPECIFICATION Spec
CONSTANTS
  k1 = k1
  k2 = k2
  k3 = k3
  c1 = c1
  c2 = c2
  Keys = {k1, k2, k3}
  NoKey = unknown
  Shared = shared
  Callers = {c1, c2}
  MaxAttempts = 2
  Settings <- MCSettings
INVARIANTS
  TypeOK
  SessionKeepsItsKey
  AnswerIsComplete
  BurstBounded
  RetryPassesPeriodic
PROPERTIES
  EveryCallAnswered
CHECK_DEADLOCK FALSE
