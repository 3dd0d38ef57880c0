CONSTANTS
    Node = {1, 2}
    NumQuorum = 2
    Tx <- MCOneTx
    TxTime <- MCTxTime
    HashRank <- MCHashRank
    MaxHeight = 1
    MaxRetry = 1
    PoolFitsEngine = TRUE
    Genesis = Genesis
    Nothing = Nothing
SPECIFICATION FairSpec
PROPERTIES
    WaitEnds
CHECK_DEADLOCK FALSE
