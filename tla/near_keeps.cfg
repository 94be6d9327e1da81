CONSTANTS
  Clients = {c1, c2}
  Keys = {k1, k2}
  Service = srv
  None = none
  Ignore = ignore
  Modes <- Every
  MaxUnits = 1
  MaxVersion = 2
SPECIFICATION Spec
INVARIANTS TypeOK Coherent Listened LocksReturned NeverWaitsUnlisted
SYMMETRY Symmetry
CHECK_DEADLOCK FALSE
