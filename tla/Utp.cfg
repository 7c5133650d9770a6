SPECIFICATION FairSpec
CHECK_DEADLOCK FALSE
CONSTANTS
    MayClose = {"a"}
    Loads <- OneSided
    RecvWnd = 3
    WndUpdate = 2
    Cwnd = 2
    DupAcks = 2
    SeqMod = 12
    MaxFaults = 1
    MaxNet = 2
INVARIANT NoOrphanStream
PROPERTY ImplementsByteStream
 
