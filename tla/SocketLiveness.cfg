SPECIFICATION FairSpec
CONSTANTS
    c1 = c1
    c2 = c2
    k1 = k1
    None = None
    Conns <- OneConn
    Keys <- OneKey
    KeyOf <- OneClient
    MaxSignals = 2
CHECK_DEADLOCK FALSE
PROPERTIES LostPeerIsClosed ShutdownEnds
