CONSTANTS
    Node = {1, 2, 3, 4, 5}
    NumQuorum = 4
    Tx <- MCOneTx
    TxTime <- MCTxTime
    HashRank <- MCHashRank
    MaxHeight = 1
    MaxRetry = 1
    PoolFitsEngine = TRUE
    Genesis = Genesis
    Nothing = Nothing
SPECIFICATION Spec
CONSTRAINTS
    ForkSchedule
INVARIANTS
    OneFinalPerHeight
CHECK_DEADLOCK FALSE
