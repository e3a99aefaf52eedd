SPECIFICATION QuietFairSpec
CONSTANTS
    MaxFrames = 6
    MaxSessions = 3
INVARIANTS
    NoStaleFrame
    SentInOrder
    FirstFrameInSlot0
PROPERTIES
    RingIsFifo
    SlotsAreFreed
CHECK_DEADLOCK FALSE
