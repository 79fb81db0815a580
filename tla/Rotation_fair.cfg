\* One provider per pool: a full round serves every key its share.
SPECIFICATION Spec
CONSTANTS
  Keys = {1, 2, 3, 4}
  Order <- IndexOrder
  Strategy = "weighted_round_robin"
  Weight <- IndexWeight
  Providers = {"p1"}
  ProviderOf <- OneProvider
  MaxCursor = 12
INVARIANTS
  TypeOK
  FullRoundIsFair
CHECK_DEADLOCK FALSE
