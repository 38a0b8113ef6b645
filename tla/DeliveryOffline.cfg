SPECIFICATION Spec
CONSTANTS
    c1 = c1
    c2 = c2
    c3 = c3
    alice = alice
    bob = bob
    carol = carol
    r1 = r1
    r2 = r2
    None = None
    Nobody = Nobody
    Conns = {c1, c2}
    Keys = {alice, bob}
    Numbers = {alice, bob}
    Reqs = {r1}
    NumberOf <- TwoUsersShort
    KeyOf <- TwoUsersShort
    Heard <- ShortNumbers
    Requests <- JustToBob
INVARIANTS PushesForEver
CHECK_DEADLOCK FALSE
