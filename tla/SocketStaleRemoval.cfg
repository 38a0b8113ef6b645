SPECIFICATION Spec
CONSTANTS
    c1 = c1
    c2 = c2
    k1 = k1
    None = None
    Conns <- TwoConns
    Keys <- OneKey
    KeyOf <- SameClient
    MaxSignals = 0
CHECK_DEADLOCK FALSE
PROPERTIES RemovesOwnConnection
