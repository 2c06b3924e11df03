CONSTANTS
    a = a
    b = b
    c = c
    d = d
    m1 = m1
    m2 = m2
    Msg <- MCMsg
    Origin <- MCOrigin
    Node <- EvictNode
    Links <- EvictLinks
    Large <- FloodLarge
    Chunks = 2
    DefaultTtl = 2
    MaxSeen = 4
    RateLimit = 1
    MaxFaults = 0
SPECIFICATION FairSpec
\* The mesh is silent once every message has died out.
CHECK_DEADLOCK FALSE
PROPERTY LargeEventuallyHandled
