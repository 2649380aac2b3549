CONSTANTS
    MaxLiteral = 3
    MaxItems = 2
    MaxU32 = 29
    MaxReceived = 5
    MaxTail = 1
    Feeds <- AllFeeds
SPECIFICATION Spec
INVARIANTS FrameIsOneLine LineIsDecided BudgetIsShared DebugHidesContent
PROPERTY VerdictIsFinal
CHECK_DEADLOCK FALSE
