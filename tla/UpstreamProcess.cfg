SPECIFICATION ProcessSpec
CONSTANTS
    Pids = {p1, p2, p3, p4}
    ShutdownRequestAttempts = 3
    MaxRuns = 2
    None = None
INVARIANT StopInv
PROPERTIES NoSecondUpstream StopReturns
CHECK_DEADLOCK FALSE
