CONSTANTS
    p1 = p1
    p2 = p2
    Peer <- MCPeer
    MaxRetries = 2
    MaxCalls = 4
    MaxDrops = 2
SPECIFICATION FairSpec
\* With no call left to make and every timer run out the device is at rest.
CHECK_DEADLOCK FALSE
INVARIANTS
    TypeOK
    NeverStranded
    PartedStaysParted
PROPERTIES
    LossIsNoticed
    RetriesEnd
