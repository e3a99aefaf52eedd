SPECIFICATION FairSpec
CONSTANTS
    Viewers = {v1, v2}
    NoViewer = NoViewer
    OutboxDepth = 2
    EarlyMax = 2
    MaxFrames = 4
    MaxRounds = 3
    MaxLocal = 2
INVARIANTS
    TypeOK
    AnswerGoesToOfferer
    AnswerIsOfThisConnection
    EarlyIceIsOfThisRound
    EarlyIceIsReplayed
PROPERTY
    OutboxIsDrained
CHECK_DEADLOCK FALSE
