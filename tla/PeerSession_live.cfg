SPECIFICATION FairSpec
CONSTANTS
    QueueMax = 3
    MaxViewers = 1
    MaxCandidates = 0
PROPERTY AwakeCloseEnds
CHECK_DEADLOCK FALSE
