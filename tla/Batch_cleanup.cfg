SPECIFICATION Spec
CONSTANTS
    VMs = {v1, v2, v3}
    Limits = {1, 2}
    MaxRuns = 3
    MaxFaults = 0
PROPERTIES CleanupOnSuccess
CHECK_DEADLOCK FALSE
