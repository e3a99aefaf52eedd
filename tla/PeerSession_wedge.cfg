SPECIFICATION FairSpec
CONSTANTS
    QueueMax = 3
    MaxViewers = 1
    MaxCandidates = 0
PROPERTY CloseResetsToInited
CHECK_DEADLOCK FALSE
