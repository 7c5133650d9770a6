\* The constants of Promises; MCProgress gives HashPool its own.
SPECIFICATION MCSpec
CONSTANTS
    MetaPeers = {p1, p2}
    MetaPieces = {1, 2}
    Slots = 2
    MetaFaults = 1
    Records = {r1, r2}
    Addresses = {p1}
    MaxGen = 2
    RecordChanges = 1
    Rounds = 1
    IdleReaders = {r1, r2}
    Wakers = {w1, w2, w3}
    IdleChanges = 2
    FilePieces = 3
    Chunk = 2
    Depth = 1
    Attempts = 2
    PreviewPieces = {1, 2}
    PreviewThreads = {t1, t2}
    Closers = {c1, c2}
    PreviewBudget = 1
    Layouts <- MCLayouts
    Offsets <- MCOffsets
    Plans <- MCPlans
    UploadBlocks = {1}
    MaxQueued = 1
    Batch = 2
    Headroom = 1
    MaxRequests = 2
    UploadEvents = 1
CHECK_DEADLOCK FALSE
INVARIANTS
    
    ReadersAreServed
    
PROPERTIES
    MagnetGetsInfo
    EveryTorrentSearches
    ReadGetsPeers
    NoWakeupIsLost
    LeavingIsPrompt
