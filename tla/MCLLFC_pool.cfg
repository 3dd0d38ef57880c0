CONSTANTS
    Node = {1, 2}
    NumQuorum = 2
    Tx <- MCOneTx
    TxTime <- MCTxTime
    HashRank <- MCHashRank
    MaxHeight = 1
    MaxRetry = 0
    PoolFitsEngine = FALSE
    Genesis = Genesis
    Nothing = Nothing
SPECIFICATION FairSpec
PROPERTIES
    PendingIsProposed
CHECK_DEADLOCK FALSE
