CONSTANTS
    Node = {n1}
    t1 = t1
    c1 = c1
    c2 = c2
    PreviousHash = 2
    Tx <- MCTx
    TxTime <- MCTxTime
    Candidate <- MCCandidate
    HashRank <- MCHashRank
SPECIFICATION SelectionSpec
INVARIANTS
    ClosestHashWins
CHECK_DEADLOCK FALSE
