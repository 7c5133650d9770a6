SPECIFICATION FairSpec
CONSTANTS
    Addrs = {"a", "b", "c"}
    PeerOf <- MCPeerOf
    Conns = {1, 2, 3}
    NoConn = NoConn
    Total = 2
    PerTorrent = 2
    HighWater = 2
    BurstConns = 2
    Elsewhere = 1
    Sessions <- AllSessions
CHECK_DEADLOCK FALSE
INVARIANTS SlotsAreHeld
PROPERTIES ReadyIsDialled
