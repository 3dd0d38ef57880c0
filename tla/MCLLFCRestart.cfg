CONSTANTS
    Node = {1, 2}
    NumQuorum = 2
    Tx <- MCTwoTx
    TxTime <- MCTxTime
    HashRank <- MCHashRank
    MaxHeight = 1
    MaxRetry = 1
    MaxCrash = 1
    PoolFitsEngine = TRUE
    Genesis = Genesis
    Nothing = Nothing
SPECIFICATION RestartSpec
CONSTRAINTS
    CrashSchedule
INVARIANTS
    Agreement
CHECK_DEADLOCK FALSE
