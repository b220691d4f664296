SPECIFICATION Spec
CONSTANTS
    Urls = {u1, u2}
    MaxUid = 2
    MaxEdits = 0
    MaxFaults = 0
    MaxCrashes = 0
    Resyncs = FALSE
INVARIANTS RecreatedImportsNewSource
CHECK_DEADLOCK FALSE
