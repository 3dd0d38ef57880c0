CONSTANTS
    Node = {1, 2}
    NumQuorum = 2
    Tx <- MCTwoTx
    TxTime <- MCTxTime
    HashRank <- MCHashRank
    MaxHeight = 2
    MaxRetry = 1
    PoolFitsEngine = TRUE
    Genesis = Genesis
    Nothing = Nothing
SPECIFICATION Spec
CONSTRAINTS
    OneRetries
    TransactionsEarly
INVARIANTS
    TypeOK
    VoteOncePerWave
    OneFinalPerHeight
    EngineSurvives
    HeightsInOrder
    Lockstep
    ClearsTheFinalized
PROPERTIES
    ImplementsConsensus
CHECK_DEADLOCK FALSE
