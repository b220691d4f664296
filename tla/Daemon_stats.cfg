SPECIFICATION FairSpec
CONSTANTS
    Files = {f1}
    NoFile = NoFile
    Workers = {w1, w2}
    MaxRetries = 2
    Minutes = TRUE
    MaxDrops = 2
    MaxRuns = 2
    MaxFaults = 1
PROPERTIES CompletionReturns
CHECK_DEADLOCK FALSE
