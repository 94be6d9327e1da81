CONSTANTS
  Clients = {c1, c2}
  Keys = {k1}
  Service = srv
  None = none
  Ignore = ignore
  Modes <- Expires
  MaxUnits = 2
  MaxVersion = 2
SPECIFICATION Spec
INVARIANTS Fresh
SYMMETRY Symmetry
CHECK_DEADLOCK FALSE
