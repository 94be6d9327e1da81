SPECIFICATION FairSpec
CONSTANTS
  Clients = {c1}
  Service = srv
  None = none
  MaxCalls = 2
  Usage = {"socket"}
INVARIANT MarkIsHonoured
PROPERTY CloseTakesEffect
CHECK_DEADLOCK FALSE
