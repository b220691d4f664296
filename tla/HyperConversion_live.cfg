SPECIFICATION FairSpec
CONSTANTS
    Urls = {u1}
    MaxUid = 1
    MaxEdits = 0
    MaxFaults = 1
    MaxCrashes = 1
    Resyncs = TRUE
PROPERTIES Settles DeletionCompletes ChildrenGoWithOwner
CHECK_DEADLOCK FALSE
