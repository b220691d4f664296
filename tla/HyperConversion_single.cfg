SPECIFICATION Spec
CONSTANTS
    Urls = {u1}
    MaxUid = 1
    MaxEdits = 1
    MaxFaults = 1
    MaxCrashes = 1
    Resyncs = TRUE
INVARIANTS TypeOK FixerNeverBesideVM ReadyHasEvidence ReadyVMExists
PROPERTIES VMOnFinishedDisk PhaseFollowsSwitch ChildrenUnderFinalizer HandsOver
CHECK_DEADLOCK FALSE
