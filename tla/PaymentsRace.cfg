CONSTANTS
    a = a
    b = b
    c = c
    t1 = t1
    t2 = t2
    t3 = t3
    Node <- RaceNode
    TxId <- RaceTxId
    Order <- RaceOrder
    Initial <- RaceInitial
    MaxRestarts <- RaceRestarts
    MaxSeen = 3
    MaxSeenTx = 3
    ChainNonces <- RaceChain
    MaxCredits = 2
SPECIFICATION Spec
\* A device with nothing left to send or receive stops.
CHECK_DEADLOCK FALSE
INVARIANTS
    HappenedBeforeIsCausal
    SupplyIsKept
    NonceFollowsClock
    CreditHasDebit
