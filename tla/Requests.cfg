\* Every kind of trouble once, a seek, a web seed; c2 answers in the end.
SPECIFICATION FairSpec
CONSTANTS
    c1 = c1
    c2 = c2
    c3 = c3
    w = w
    a1 = a1
    a2 = a2
    a3 = a3
    None = None
    Blocks = {1}
    Pieces = {1}
    Piece <- OnePiece
    Conns = {c1, c2}
    Addr <- Apart
    Fast = {c2}
    Serves <- Everything
    Reliable = {c2}
    Pace <- SteadyPace
    QueueLimit = 2
    Starving = 1
    OpenLimit = 1
    EndgamePieces = 1
    FocusPieces = {1}
    SeekCopies = 1
    Web = {w}
    MaxExpects = 1
    MaxTrouble = 1
CHECK_DEADLOCK FALSE
INVARIANTS
    OneBlockWriter
    HoldersAsk

    
