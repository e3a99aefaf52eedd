SPECIFICATION Spec
CONSTANTS
    QueueMax = 2
    MaxViewers = 2
    MaxCandidates = 1
INVARIANTS
    TypeOK
    PreparedWhileAsleep
CHECK_DEADLOCK FALSE
