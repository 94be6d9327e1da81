CONSTANTS
    Threads = {t1, t2}
    None = None
    MaxEnters = 3
    MaxClose = 2
    MaxDebt = 1
    MaxCount = 3
    Usage = {"timed", "interrupt", "clockback", "promote", "destroy"}
SPECIFICATION Spec
SYMMETRY Symmetry
CHECK_DEADLOCK FALSE
INVARIANTS NoLostWakeup
