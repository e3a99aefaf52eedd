SPECIFICATION Spec
CONSTANTS
    SeqModulus = 64
    Entries = 10
    SeqThreshold = 2
    TsModulus = 64
    TsThreshold = 1
    Tolerance = 1
    FrameMax = 2
    FirstSeq = 58
    FirstTs = 10
    Streams <- MCStreams
    LateMax = 3
    BurstMax = 1
    MaxSessions = 2
INVARIANTS
    TypeOK
    FrameIsIntact
    NoPayloadLeak
PROPERTY
    FramesInOrder
CHECK_DEADLOCK FALSE
