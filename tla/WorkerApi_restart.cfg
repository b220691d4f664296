SPECIFICATION Spec
CONSTANTS
    j1 = j1
    j2 = j2
    w1 = w1
    Servers = {s1}
    Workers = {w1}
    Jobs = {j1, j2}
    NoJob = NoJob
    Priority <- MCPriority
    Needs <- MCNeeds
    Caps <- MCCaps
    DiskFails = FALSE
    MaxStarts = 4
INVARIANTS QueuedJobAssignable
CHECK_DEADLOCK FALSE
