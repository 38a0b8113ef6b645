SPECIFICATION Spec
CONSTANTS
    c1 = c1
    c2 = c2
    c3 = c3
    alice = alice
    bob = bob
    carol = carol
    r1 = r1
    r2 = r2
    None = None
    Nobody = Nobody
    Conns = {c1, c2, c3}
    Keys = {alice, bob}
    Numbers = {alice, bob}
    Reqs = {r1, r2}
    NumberOf <- TwoUsers
    KeyOf <- TwoUsers
    Heard <- ShortNumbers
    Requests <- InGroup
INVARIANTS TypeOK RegisteredIsEntered OutsidersAreNamed AtMostOnce SameOrder
PROPERTIES PushSeesOneMap
CHECK_DEADLOCK FALSE
SYMMETRY AnyRequest
