CONSTANTS
    a = a
    b = b
    c = c
    t1 = t1
    t2 = t2
    t3 = t3
    Node <- RelayNode
    TxId <- RelayTxId
    Order <- RelayOrder
    Initial <- RelayInitial
    MaxRestarts <- ForgetRestarts
    MaxSeen = 1
    MaxSeenTx = 2
    ChainNonces <- RelayChain
    MaxCredits = 2
SPECIFICATION Spec
\* A device with nothing left to send or receive stops.
CHECK_DEADLOCK FALSE
INVARIANTS
    CreditedAtMostOnce
    BalanceMatchesHistory
    ReceiptMeansCredited
