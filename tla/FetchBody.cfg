CONSTANTS
    MaxLiteral = 3
    MaxItems = 4
    MaxU32 = 29
    MaxFrames = 2
    MaxText = 3
    Buffers <- ServerBuffers
SPECIFICATION Spec
INVARIANT BodyIsContent
