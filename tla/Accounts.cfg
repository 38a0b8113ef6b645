SPECIFICATION Spec
CONSTANTS
    ann = ann
    ben = ben
    n1 = n1
    n2 = n2
    r1 = r1
    r2 = r2
    r3 = r3
    Reqs = {r1, r2, r3}
    Users = {ann, ben}
    Numbers = {n1, n2}
    Asked <- Everything
    Registered <- AnnOnly
    MaxRestarts = 1
SYMMETRY AnyRequest
CHECK_DEADLOCK FALSE
INVARIANTS TypeOK PassedOncePerEntry SessionFollowsPassword
PROPERTIES GoneForGood
