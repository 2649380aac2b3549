CONSTANTS
    MaxLiteral = 3
    MaxItems = 3
    MaxU32 = 29
    MaxReceived = 6
    MaxTail = 4
    Feeds <- DataFeeds
SPECIFICATION Spec
INVARIANT TrailingTextIsTolerated
CHECK_DEADLOCK FALSE
