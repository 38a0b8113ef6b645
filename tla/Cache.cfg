SPECIFICATION FairSpec
CONSTANTS
    k1 = k1
    k2 = k2
    None = None
    Keys <- TwoKeys
    Hash <- Hashes
    Messages <- Times3
    Window = 10
    MinShards = 4
    MaxShards = 10
    MaxLength = 45
    MaxGets = 2
CHECK_DEADLOCK FALSE
INVARIANTS TypeOK InItsShard NeverShort CachesAllButFirst 
PROPERTIES ImplementsMap ShrinksAfterHit
