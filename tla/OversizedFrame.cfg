CONSTANTS
    MaxLiteral = 3
    MaxItems = 3
    MaxU32 = 29
    MaxFrame = 20
    MaxRead = 9
    Streams <- PieceStreams
SPECIFICATION Spec
INVARIANT FramesWithinCeiling
CHECK_DEADLOCK FALSE
