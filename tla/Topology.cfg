CONSTANTS
    p1 = p1
    p2 = p2
    Peer <- MCPeer
    MaxPeers = 1
    Timeout = 6
    Period = 2
    Cleanup = 2
    MaxDelay = 1
    MaxMissed = 1
SPECIFICATION FairSpec
INVARIANTS
    TypeOK
    LiveIsKept
PROPERTY GoneIsRemoved
