CONSTANTS
    Threads = {t1, t2}
    None = None
    MaxEnters = 3
    MaxClose = 2
    MaxDebt = 1
    MaxCount = 3
    Usage = {"promote"}
SPECIFICATION Spec
CHECK_DEADLOCK FALSE
INVARIANT Exclusion
