SPECIFICATION Spec
CONSTANTS
  Clients = {c1, c2}
  Service = srv
  None = none
  MaxCalls = 1
  Usage = {"giveup", "cause", "decode", "encode", "socket", "event"}
INVARIANTS TypeOK NoneInsideClosed ClosedMeansSettled
PROPERTY OutcomeIsFinal
SYMMETRY Symmetry
CHECK_DEADLOCK FALSE
