SPECIFICATION FairSpec
CONSTANTS
    VMs = {v1, v2, v3}
    Limits = {1, 2}
    MaxRuns = 3
    MaxFaults = 2
INVARIANTS TypeOK CompletedIsConverted OneWorkerPerVM ReportCoversBatch
PROPERTIES SequentialNeverForgets SequentialCleanup StopsOnError RunEnds
CHECK_DEADLOCK FALSE
