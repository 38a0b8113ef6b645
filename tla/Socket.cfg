SPECIFICATION Spec
CONSTANTS
    c1 = c1
    c2 = c2
    k1 = k1
    None = None
    Conns <- TwoConns
    Keys <- OneKey
    KeyOf <- SameClient
    MaxSignals = 2
CHECK_DEADLOCK FALSE
SYMMETRY Swap
INVARIANTS TypeOK StopIsPassedOn ExitClosesConnections ClosedWasReported RegisteredOnlyIfOvertaken NobodyStuck
PROPERTIES ImplementsRegistry
