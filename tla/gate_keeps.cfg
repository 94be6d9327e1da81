CONSTANTS
    Threads = {t1, t2}
    None = None
    MaxEnters = 3
    MaxClose = 1
    MaxDebt = 0
    MaxCount = 4
    Usage = {"timed", "interrupt", "clockback"}
SPECIFICATION FairSpec
INVARIANTS TypeOK Protocol Exclusion EnterCount NoLostWakeup
PROPERTIES ImplementsGate CloserServed Reopens
