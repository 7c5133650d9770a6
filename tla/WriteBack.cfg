\* The eviction instance; MCWriteBack gives the refresh instance its own constants.
SPECIFICATION MCSpec
CONSTANTS
    Pieces = {p1, p2}
    Blocks = {b1, b2}
    First = b1
    Writers = {w1, w2}
    Hashers = {h1}
    Refreshers = {}
    Cap = 1
    MaxTries = 1
    MaxBad = 1
    MaxIoErrors = 1
    MaxSelections = 0
    MaxRefreshes = 0
    Careful = TRUE
    Free = Free
    None = None
    q1 = q1
    d1 = d1
    d2 = d2
    d3 = d3
    r1 = r1
SYMMETRY Symmetry
INVARIANTS
    
    NoLostBlock
    
PROPERTIES
    DiskNeverZeroed
