SPECIFICATION Spec
CONSTANTS
    Viewers = {v1, v2}
    NoViewer = NoViewer
    OutboxDepth = 2
    EarlyMax = 2
    MaxFrames = 5
    MaxRounds = 3
    MaxLocal = 2
INVARIANT CandidateGoesToOfferer
SYMMETRY Symmetry
CHECK_DEADLOCK FALSE
