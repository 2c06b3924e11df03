CONSTANTS
    a = a
    b = b
    c = c
    t1 = t1
    t2 = t2
    t3 = t3
    Node <- RelayNode
    TxId <- RelayTxId
    Order <- RelayOrder
    Initial <- RelayInitial
    MaxRestarts <- RestartRestarts
    MaxSeen = 2
    MaxSeenTx = 2
    ChainNonces <- RelayChain
    MaxCredits = 1
SPECIFICATION Spec
\* A device with nothing left to send or receive stops.
CHECK_DEADLOCK FALSE
INVARIANTS
    TypeOK
    CausesHappenedBefore
    CreditHasDebit
