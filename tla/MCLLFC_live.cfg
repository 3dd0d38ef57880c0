CONSTANTS
    Node = {1, 2}
    NumQuorum = 2
    Tx <- MCOneTx
    TxTime <- MCTxTime
    HashRank <- MCHashRank
    MaxHeight = 2
    MaxRetry = 1
    PoolFitsEngine = TRUE
    Genesis = Genesis
    Nothing = Nothing
SPECIFICATION FairSpec
INVARIANTS
    Certified
PROPERTIES
    RoundDecides
    FinalReachesAll
CHECK_DEADLOCK FALSE
