----------------------------- MODULE MCDelivery -----------------------------
(***************************************************************************)
(* Instances of Delivery: one to three connections of two or three users,   *)
(* and request shapes that reach every branch of the handlers.              *)
(***************************************************************************)
EXTENDS Delivery, TLC

CONSTANTS c1, c2, c3, alice, bob, carol, r1, r2

(* alice's client has two connections, bob's one.                           *)
TwoUsers == c1 :> alice @@ c2 :> bob @@ c3 :> alice
TwoUsersShort == c1 :> alice @@ c2 :> bob
BobOnly == c2 :> bob
BobAndCarol == c2 :> bob @@ c3 :> carol

ShortNumbers == alice :> alice @@ bob :> bob
ThreeShortNumbers == ShortNumbers @@ carol :> carol

(* bob's number is longer than eight bytes and begins with alice's.        *)
LongNumber == alice :> alice @@ bob :> alice @@ carol :> carol
KeysOfLong == c2 :> alice @@ c3 :> carol

(* What a body names and what the row of its message is.                   *)
Asks(k, by, named, group, sender, receiver, inGroup) ==
    [kind |-> k, by |-> by, named |-> named, group |-> group,
     sender |-> sender, receiver |-> receiver, inGroup |-> inGroup]

New(by, named, group) ==
    Asks("NEW_MESSAGE", by, named, group, by, named, group /\ named = Nobody)

ToBob == New(alice, bob, FALSE)
GroupNote == New(alice, Nobody, TRUE)
ToBobInGroup == New(alice, bob, TRUE)
NoteInGroup == New(alice, alice, TRUE)

EditToAlice == Asks("EDIT_MESSAGE", bob, alice, TRUE, bob, Nobody, TRUE)
EditInGroup == Asks("EDIT_MESSAGE", bob, Nobody, TRUE, bob, Nobody, TRUE)
EditOfNote == Asks("EDIT_MESSAGE", alice, bob, TRUE, alice, Nobody, TRUE)

DeletedByReader == Asks("DELETE_MESSAGE", bob, Nobody, FALSE, alice, bob, FALSE)
DeletedByMember == Asks("DELETE_MESSAGE", bob, Nobody, TRUE, alice, Nobody, TRUE)
DeletedBySender == Asks("DELETE_MESSAGE", alice, Nobody, TRUE, alice, Nobody, TRUE)
DeletedElsewhere == Asks("DELETE_MESSAGE", bob, Nobody, TRUE, alice, alice, FALSE)

ReadByBob == Asks("MARK_MESSAGE_READ", bob, alice, FALSE, alice, bob, FALSE)
ReadNamingCarol == Asks("MARK_MESSAGE_READ", bob, carol, FALSE, alice, bob, FALSE)
ReadOfNobody == Asks("MARK_MESSAGE_READ", bob, Nobody, FALSE, alice, bob, FALSE)
ReceivedInGroup == Asks("GROUP_MESSAGE_RECEIVED", bob, alice, TRUE, alice, Nobody, TRUE)
ReceivedByBob == Asks("MARK_MESSAGE_RECEIVED", bob, alice, FALSE, alice, bob, FALSE)

(* The author of an edit may name somebody who never joined the group.      *)
InGroup == {GroupNote, NoteInGroup, EditOfNote, ReceivedInGroup}
EveryKind == {ToBobInGroup, GroupNote, EditInGroup, DeletedByReader, DeletedBySender, ReadByBob}
EveryBranch == {ToBob, ToBobInGroup, GroupNote, EditInGroup, EditToAlice, DeletedByReader,
                DeletedByMember, DeletedBySender, DeletedElsewhere, ReadByBob,
                ReadNamingCarol, ReadOfNobody, ReceivedInGroup, ReceivedByBob}
JustToBob == {ToBob}

(* For what comments say: a mark as read that names a third user.           *)
ReadNaming == {ReadByBob, ReadNamingCarol}

AnyRequest == Permutations({r1, r2})
=============================================================================
