\* Two providers in one pool share its cursor.
SPECIFICATION Spec
CONSTANTS
  Keys = {1, 2, 3, 4}
  Order <- IndexOrder
  Strategy = "round_robin"
  Weight <- IndexWeight
  Providers = {"p1", "p2"}
  ProviderOf <- TwoProviders
  MaxCursor = 4
INVARIANTS
  FullRoundIsFair
CHECK_DEADLOCK FALSE
