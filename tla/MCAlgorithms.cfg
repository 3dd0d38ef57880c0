CONSTANTS
    Node = {n1, n2}
    Address = {n1, n2}
    TxLists <- MCTxLists
    Engine = {n1, n2}
    t1 = t1
    t2 = t2
    t3 = t3
    c1 = c1
    c2 = c2
    c3 = c3
    Tx <- MCTx
    TxTime <- MCTxTime
    Candidate <- MCCandidate
    HashRank <- MCHashRank
    Empty = Empty
    Retries = {0, 1}
    MaxBlock = 2
    MaxMade = 2
    LLFCTerm = 2
    MaxTime = 20
    Never = Never
    P = 43
    N = 31
    Gx = 2
    Gy = 12
    Private <- MCPrivate
    MsgHash <- MCMsgHash
    Nonce <- MCNonce
    None = None
    Raised = Raised
    Leaf = {a, b}
    MaxLen = 7
    NoRoot = NoRoot
    MaxHeight = 4
    MaxRetry = 3
SPECIFICATION MCSpec
INVARIANTS
    SelectsTheRule
    RefusedStaysRefused
    ArrivesWhole
    HashesTellApart
    KeepStep
    ComputesInGroup
    RecoversSigner
    RootOfTheTree
PROPERTIES
    ImplementsRounds
\* Nothing follows a signature that is verified.
CHECK_DEADLOCK FALSE
