------------------------------ MODULE MCGroups ------------------------------
(***************************************************************************)
(* Instances of Groups: a founder, another user, one group at the start and *)
(* one that can be created; shapes that race on the same rows.              *)
(***************************************************************************)
EXTENDS Groups, TLC

CONSTANTS ann, ben, old, new, r1, r2, r3

AskFor(k, by, who, g) == [kind |-> k, by |-> by, who |-> who, group |-> g]

Create1 == AskFor("create", ben, ben, new)
Add == AskFor("add_user", ann, ben, old)
AddAnn == AskFor("add_user", ann, ann, old)
Remove == AskFor("remove_user", ann, ben, old)
RemoveAnn == AskFor("remove_user", ann, ann, old)
BenAddsAnn == AskFor("add_user", ben, ann, old)
Promote == AskFor("make_admin", ann, ben, old)
Demote == AskFor("remove_admin", ann, ben, old)
DemoteAnn == AskFor("remove_admin", ben, ann, old)
Close == AskFor("remove_group", ann, ann, old)
NewName == AskFor("rename", ann, ann, old)

Everything == {Create1, Add, AddAnn, Remove, RemoveAnn, BenAddsAnn, Promote, Demote, DemoteAnn, Close, NewName}
CreateOnly == {Create1}
AddAndRemove == {Add, Remove}

AnyRequest == Permutations(Reqs)
=============================================================================
