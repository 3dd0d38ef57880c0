CONSTANTS
    k1 = k1
    k2 = k2
    k3 = k3
    w1 = w1
    w2 = w2
    h1 = h1
    h2 = h2
    full = full
    t1 = t1
    t2 = t2
    t3 = t3
    None = None
    Key <- MCKey
    Wave <- MCWave
    Data <- MCData
    GetKey <- MCGetKey
    GetWave <- MCGetWave
    Hash <- MCHash
    GetHash <- MCGetHash
    Tx = {t1, t2, t3}
    TimeOf <- MCTimeOf
    Sender <- MCSender
    Signer <- MCSender
    FinalBlock = {b1, b2, b3, full}
    TxsOf <- MCTxsOf
    AcceptAge = 1
    KeepAge = 3
    FinalHigh = 2
    FinalLow = 2
    MaxTime = 4
    MaxPut = 4
    Address = {x1, x2, x3}
    Process = {p1, p2}
    NoCoinbase = NoCoinbase
    Absent = Absent
    Cut = Cut
    Thread = {s1, s2}
    DbKey = {d1, d2}
    Val = {v1, v2}
    Missing = Missing
    ann = ann
    bob = bob
    b1 = b1
    b2 = b2
    b3 = b3
    c1 = c1
    Account <- MCAccount
    Block <- MCBlock
    Height <- MCHeight
    Prev <- MCPrev
    Transactions <- MCTransactions
    Assignment <- MCAssignment
    MaxCrash = 2
    Genesis = Genesis
    NoBlock = NoBlock
    n1 = n1
    n2 = n2
    n3 = n3
    m1 = m1
    m2 = m2
    lost = lost
    Node = {n1, n2, n3}
    Message <- MCMessage
    Dest <- MCDest
    Hub <- MCHub
    Input <- MCInput
SPECIFICATION NodeSpec
INVARIANTS
    IndexFits
    FailsOnTwiceOnly
    VotesFit
    TransactionsStay
    IdentityStays
    Acknowledged
    LedgerTypeOK
    ChainIsLinked
    AppliedInOrder
    NothingSkipped
    NoOverspend
    MoneyIsConserved
PROPERTIES
    ImplementsPool
    VotesImplementPool
    ChainIsExecuted
    ImplementsNetwork
    PeersHear
\* A thread that an exception ends, and a chain with no more blocks, stop.
CHECK_DEADLOCK FALSE
