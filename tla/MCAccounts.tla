----------------------------- MODULE MCAccounts -----------------------------
(***************************************************************************)
(* Instances of Accounts: ann has an account, ben may get one; ann's number *)
(* and another.                                                             *)
(***************************************************************************)
EXTENDS Accounts, TLC

CONSTANTS ann, ben, n1, n2, r1, r2, r3

AskFor(k, u, n) == [kind |-> k, user |-> u, number |-> n]

Login == AskFor("login", ann, n1)
Send1 == AskFor("send", ann, n1)
Send2 == AskFor("send", ann, n2)
Resend == AskFor("resend", ann, n1)
Register == AskFor("register", ben, n2)
Phone == AskFor("phone", ann, n2)
Password == AskFor("password", ann, n1)
NewName == AskFor("rename", ann, n1)
Leave == AskFor("remove", ann, n1)

AnnOnly == (ann :> n1) @@ (ben :> "new")

Everything == {Login, Send1, Send2, Resend, Register, Phone, Password, NewName, Leave}

AnyRequest == Permutations(Reqs)
=============================================================================
