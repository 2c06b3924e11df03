CONSTANTS
    m1 = m1
    m2 = m2
    x = x
    y = y
    Id <- MCId
    Data <- MCData
    MaxPayload = 2
    Timeout = 2
    MaxDelay = 2
    Foreign <- MCForeign
    MaxForeign = 1
    Account = {w1, w2}
    Device = {"p", "q"}
    Expiry = 2
    MaxKeys = 3
    Base = 4
    KeyLength = 3
    Step = 1
    IvLength = 2
    ByteXor <- MCXor
    Hash <- MCHash
    Texts <- MCTexts
    Ivs <- MCIvs
    Peer = {"d"}
    Start = {"k1", "k2"}
    ScanTime = 2
    Period = 3
    CleanupPeriod = 6
    PeerTimeout = 11
SPECIFICATION DeviceSpec
INVARIANTS
    DeviceTypeOK
    Intact
    ArrivedIsReturned
    StaleIsDropped
    ReportedCanLoad
    BackedUp
    SecretsAgree
    PeersUnderstand
    RunsOnlyWhenOn
PROPERTIES
    KeepsVault
    LostWasMissed
