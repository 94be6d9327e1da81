SPECIFICATION Spec
CONSTANTS
  Clients = {c1, c2}
  SafeCaches = {n1, n2, n3}
  First = n1
  NoOne = NoOne
  MaxServices = 2
  MaxCaches = 3
  MaxCalls = 3
INVARIANTS TypeOK OneService Unusable Heard
PROPERTY Returns
CHECK_DEADLOCK FALSE
