CONSTANTS
    MaxLiteral = 3
    MaxItems = 3
    MaxU32 = 29
    MaxFrame = 20
    MaxRead = 9
    Streams <- AllStreams
SPECIFICATION Spec
INVARIANTS CutsDoNotMatter BytesConserved BufferIsBounded RefusedFramesAreTooLarge
CHECK_DEADLOCK FALSE
