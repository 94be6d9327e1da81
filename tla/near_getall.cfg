CONSTANTS
  Clients = {c1, c2}
  Keys = {k1}
  Service = srv
  None = none
  Ignore = ignore
  Modes <- GetAlls
  MaxUnits = 2
  MaxVersion = 2
SPECIFICATION Spec
INVARIANTS AllReturned
SYMMETRY Symmetry
CHECK_DEADLOCK FALSE
