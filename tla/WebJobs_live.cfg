SPECIFICATION FairSpec
CONSTANTS
    Jobs = {j1}
    ChanCap = 2
    MaxOut = 3
    MaxCancels = 2
INVARIANTS TypeOK OutcomeMeansExited EndedMeansSettled
PROPERTIES ExitIsNoticed StopKills
CHECK_DEADLOCK FALSE
