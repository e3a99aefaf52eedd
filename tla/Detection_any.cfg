SPECIFICATION Spec
CONSTANTS
    MaxFrames = 3
    MaxBoxes = 1
INVARIANTS
    TypeOK
PROPERTIES
    TelemetryGoesForward
    HandedFrameIsEncoded
CHECK_DEADLOCK FALSE
