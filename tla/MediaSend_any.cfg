SPECIFICATION Spec
CONSTANTS
    HeapSize = 4
    Capacity = 2
    SeqModulus = 3
    NackMax = 2
    FrameMax = 2
    MaxPackets = 5
    MaxNacks = 1
    MaxSessions = 2
INVARIANTS
    TypeOK
    NoUseAfterFree
    NothingLeaks
    WindowIsNewest
    AskedPacketIsSent
    SentOverHostIsProtected
PROPERTIES
    BufferIsStore
    CloseEnds
CHECK_DEADLOCK FALSE
