SPECIFICATION Spec
CONSTANTS
    Clients = {c1, c2}  Conns = {k1, k2}  Addresses = 1  MaxCalls = 3
    Usage = {"inside", "broken", "fatal"}
INVARIANTS TypeOK NoEmbrace ExitedIsClean Reported
PROPERTIES Truthful Returns
CHECK_DEADLOCK FALSE
