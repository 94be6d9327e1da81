SPECIFICATION FairSpec
CONSTANTS
  Clients = {c1, c2}
  Service = srv
  None = none
  MaxCalls = 1
  Usage = {"giveup"}
PROPERTY CloseTakesEffect
CHECK_DEADLOCK FALSE
