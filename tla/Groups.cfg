SPECIFICATION Spec
CONSTANTS
    ann = ann
    ben = ben
    old = old
    new = new
    r1 = r1
    r2 = r2
    r3 = r3
    Reqs = {r1, r2, r3}
    Users = {ann, ben}
    GroupIds = {old, new}
    Founded = {old}
    Founder = ann
    Asked <- Everything
INVARIANTS TypeOK ChangedByAdmins ToldOnce AdminlessHasCause LastChangeDecides
SYMMETRY AnyRequest
CHECK_DEADLOCK FALSE
