CONSTANTS
    MaxLiteral = 3
    MaxItems = 3
    MaxU32 = 29
    MaxReceived = 6
    MaxTail = 1
    Feeds <- DataFeeds
SPECIFICATION Spec
INVARIANT LiteralsAreAwaited
CHECK_DEADLOCK FALSE
