SPECIFICATION Spec
CONSTANTS
    Procs = {p1, p2}
    NoProc = NoProc
    N = 2
    MaxTime = 2
INVARIANTS CleanupHarmless
CHECK_DEADLOCK FALSE
