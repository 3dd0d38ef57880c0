CONSTANTS
    Node = {1, 2}
    NumQuorum = 2
    Tx <- MCTwoTx
    TxTime <- MCTxTime
    HashRank <- MCHashRank
    MaxHeight = 2
    MaxRetry = 0
    PoolFitsEngine = TRUE
    Genesis = Genesis
    Nothing = Nothing
SPECIFICATION Spec
INVARIANTS
    SignedIsApplied
CHECK_DEADLOCK FALSE
