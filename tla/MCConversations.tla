--------------------------- MODULE MCConversations ---------------------------
(***************************************************************************)
(* Instances of Conversations: two users and a group, a table with messages *)
(* in it, and requests that meet on the same conversation.                  *)
(***************************************************************************)
EXTENDS Conversations, TLC

CONSTANTS ann, ben, r1, r2, r3

Pairs == {ann, ben} \X {ann, ben}
AllKeys == Pairs \cup {Group}
TwoUsers == {ann, ben}

AskFor(k, by, to, m, named, before) ==
    [kind |-> k, by |-> by, to |-> to, msg |-> m, named |-> named, plain |-> TRUE, before |-> before]

Send == AskFor("send", ann, ben, 1, FALSE, 0)
SendOdd == [Send EXCEPT !.plain = FALSE]
SendNamed == AskFor("send", ann, ben, 1, TRUE, 0)
SendGroup == AskFor("send", ann, Group, 1, FALSE, 0)
Delete(by, m) == AskFor("delete", by, ben, m, FALSE, 0)
DeleteNamed(by, m) == AskFor("delete", by, Group, m, TRUE, 0)
Forget(by, to) == AskFor("forget", by, to, 1, FALSE, 0)
Read(by, to, before) == AskFor("read", by, to, 1, FALSE, before)
Leave(by) == AskFor("leave", by, by, 1, FALSE, 0)

Seen(m, by) == [id |-> m, from |-> by, sender |-> TRUE, receiver |-> TRUE]
Hidden(m, by) == [id |-> m, from |-> by, sender |-> FALSE, receiver |-> FALSE]

(* Ann has written two messages, Ben two and one to the group.  Ben's first *)
(* was being stored when he deleted his second, so that one alone is hidden.*)
Written == [k \in AllKeys |-> CASE k = <<ann, ben>> -> <<Seen(1, ann), Seen(2, ann)>>
                                [] k = <<ben, ann>> -> <<Seen(3, ben), Hidden(4, ben)>>
                                [] k = Group -> <<Seen(5, ben)>>
                                [] OTHER -> <<>>]
Times7 == 1..7

Everything == {Send, SendOdd, SendNamed, SendGroup, Delete(ann, 1), Delete(ben, 1), Delete(ben, 5),
               DeleteNamed(ben, 5), Forget(ann, ben), Forget(ben, ann),
               Leave(ann), Leave(ben),
               Read(ann, ben, 7), Read(ben, ann, 7), Read(ben, Group, 7)}

AnyRequest == Permutations(Reqs)
=============================================================================
