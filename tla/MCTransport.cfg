CONSTANTS
    n1 = n1
    n2 = n2
    n3 = n3
    m1 = m1
    m2 = m2
    lost = lost
    Node = {n1, n2, n3}
    Message <- MCMessage
    Dest <- MCDest
    Hub <- MCHub
    Input <- MCInput
SPECIFICATION TransportFairSpec
PROPERTIES
    EveryPeerHears
CHECK_DEADLOCK FALSE
