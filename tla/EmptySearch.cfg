CONSTANTS
    MaxLiteral = 3
    MaxItems = 3
    MaxU32 = 12
    FetchArgs <- FetchPairs
    StoreArgs <- StorePairs
    MoveArgs <- MovePairs
    ArgTexts <- AllArgs
    Keys <- KeysWithEmpty
SPECIFICATION Spec
INVARIANT SearchIsGrammatical
