SPECIFICATION Spec
CONSTANTS
    ann = ann
    ben = ben
    Group = Group
    None = None
    r1 = r1
    r2 = r2
    r3 = r3
    Reqs = {r1, r2, r3}
    Users <- TwoUsers
    Keys <- AllKeys
    Messages <- Times7
    Window = 2
    Limit = 3
    Asked <- Everything
    Stored <- Written
    Newest = 5
SYMMETRY AnyRequest
CHECK_DEADLOCK FALSE
INVARIANT FilterFinishes
