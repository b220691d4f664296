SPECIFICATION FairSpec
CONSTANTS
    j1 = j1
    j2 = j2
    w1 = w1
    Servers = {s1, s2}
    Workers = {w1}
    Jobs = {j1, j2}
    NoJob = NoJob
    Priority <- MCPriority
    Needs <- MCNeeds
    Caps <- MCCaps
    DiskFails = TRUE
    MaxStarts = 4
INVARIANTS TypeOK AtMostOnce FileMeansUnhanded CancelHolds
PROPERTIES CapableDrains Dispatches
CHECK_DEADLOCK FALSE
