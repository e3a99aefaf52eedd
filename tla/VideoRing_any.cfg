SPECIFICATION Spec
CONSTANTS
    MaxFrames = 6
    MaxSessions = 3
INVARIANTS
    TypeOK
    HeldSlotIntactInSession
    NoFlagOnSlotBeingWritten
CHECK_DEADLOCK FALSE
