SPECIFICATION Spec
CONSTANTS
  Choices = {"any", "error"}
  Classes = {"success", "error"}
  AnyClass = "any"
  Tokens = {"good", "bad"}
  Valid = "good"
  NoToken = "none"
  Cap = 2
  PageSize = 1
  StateSize = 1
  Settings <- MCSettings
  MaxInFlight = 2
INVARIANTS
  TypeOK
  NoneSkipped
  EndIsEnd
  RepeatsBounded
  ShownMatchesFilter
  OpenMeansSignedIn
PROPERTIES
  EveryFetchEnds
CHECK_DEADLOCK FALSE
