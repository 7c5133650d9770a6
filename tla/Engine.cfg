\* Constants of Engine and of Services; MCEngine gives the other components theirs.
SPECIFICATION MCSpec
CONSTANTS
    NoId = NoId
    Callers = {c1, c2}
    Ids = {i1, i2}
    Previews = {p1, p2}
    Uses <- MCUses
    i1 = i1
    i2 = i2
    p1 = p1
    p2 = p2
    c1 = c1
    c2 = c2
    ra = ra
    rb = rb
    a1 = a1
    a2 = a2
    a3 = a3
    Readers = {ra, rb}
    LastPiece = 2
    MaxReads = 3
    MaxReaders = 2
    MaxHolds = 2
    Adaptive = {rb}
    Sessions <- ReaderSessions
    Hashes = {h1, h2}
    MaxSaves = 2
    MaxClears = 1
    Budget = 1
    Urls = {u1}
    Threads = {t1, t2}
    MaxAdds = 2
    MaxCalls = 1
    MaxPerTracker = 1
    Calls = {c1, c2}
    MaxTrips = 2
    MaxIds = 3
    MaxSends = 6
    MaxLost = 1
    MaxOutstanding = 2
    MaxOffers = 4
    MaxBroken = 2
    Lists <- MCLists
    Default = {"x", "y"}
    Core = {"x"}
    Torrents = {h1}
    Limit = 3
    MaxFailures = 3
    Day = 3
    Far = 9
    MaxFaults = 2
SYMMETRY CallersAreAlike
CHECK_DEADLOCK FALSE
INVARIANTS
    
    
    ReadersEndClean
    PositionsStayCleared
    AnnouncesAreCounted
    AnswersAreShared
    
    ListIsLawful
    ExchangeTellsSteady
