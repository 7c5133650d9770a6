SPECIFICATION FairSpec
CONSTANTS
    Pieces = {1, 2}
    Blocks = {1, 2}
    Cap = 1
    PreviewCap = 1
    Quick = {1}
    Sessions <- AllSessions
CHECK_DEADLOCK FALSE
INVARIANTS CompleteIsWhole NothingFabricated
PROPERTIES  EvictedIsFetchedAgain
