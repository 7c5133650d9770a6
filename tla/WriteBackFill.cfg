\* One probe of a piece that is filled while its slot is evicted and written again.
SPECIFICATION Spec
CONSTANTS
    Pieces = {p1, p2}
    Blocks = {b1, b2, b3}
    First = b1
    Writers = {w1}
    Hashers = {h1}
    Refreshers = {r1}
    Cap = 1
    MaxTries = 1
    MaxBad = 0
    MaxIoErrors = 0
    MaxSelections = 0
    MaxRefreshes = 1
    Careful = TRUE
    Free = Free
    None = None
INVARIANT NoLostBlock
