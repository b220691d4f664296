SPECIFICATION Spec
CONSTANTS
    Procs = {p1, p2}
    NoProc = NoProc
    N = 2
    MaxTime = 2
INVARIANTS OneAtATime ProgressTrue EveryDiskHasImage SequentialCopyKept
CHECK_DEADLOCK FALSE
SYMMETRY Symmetry
