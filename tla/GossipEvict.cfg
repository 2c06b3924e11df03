CONSTANTS
    a = a
    b = b
    c = c
    d = d
    m1 = m1
    m2 = m2
    Msg <- MCMsg
    Origin <- MCOrigin
    Node <- EvictNode
    Links <- EvictLinks
    Large <- EvictLarge
    Chunks = 2
    DefaultTtl = 3
    MaxSeen = 1
    RateLimit = 1
    MaxFaults = 1
SPECIFICATION FairSpec
\* The mesh is silent once every message has died out.
CHECK_DEADLOCK FALSE
INVARIANTS
    TypeOK
    NoStorm
PROPERTIES
    KeepsPromise
    Quiet
