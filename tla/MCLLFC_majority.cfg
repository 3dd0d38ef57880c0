CONSTANTS
    Node = {1, 2, 3}
    NumQuorum = 2
    Tx <- MCOneTx
    TxTime <- MCTxTime
    HashRank <- MCHashRank
    MaxHeight = 1
    MaxRetry = 0
    PoolFitsEngine = TRUE
    Genesis = Genesis
    Nothing = Nothing
SPECIFICATION Spec
CONSTRAINTS
    TransactionsFirst
    FewInFlight
INVARIANTS
    OneCertificatePerWave
    NamesAreUnique
CHECK_DEADLOCK FALSE
