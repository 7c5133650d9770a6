\* Liveness of the write-back cache and of the checkpoint timer.
SPECIFICATION MCSpec
CONSTANTS
    Pieces = {p1, p2}
    Blocks = {b1, b2}
    First = b1
    Writers = {w1, w2}
    Hashers = {h1}
    Refreshers = {}
    Cap = 1
    MaxTries = 2
    MaxBad = 0
    MaxIoErrors = 0
    MaxSelections = 0
    MaxRefreshes = 0
    Careful = TRUE
    Free = Free
    None = None
    p1 = p1
    p2 = p2
    f1 = f1
    f2 = f2
CHECK_DEADLOCK FALSE
PROPERTIES
    CacheWriteReturns
    CompletionIsRecorded
