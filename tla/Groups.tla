------------------------------- MODULE Groups -------------------------------
(***************************************************************************)
(* Groups, their members and admins: the REST handlers of                   *)
(* controllers/group.controller.go.  Each request is served by a goroutine  *)
(* of its own; every database call is a transaction of its own, and between *)
(* the check that the requesting user is an admin and the change, between   *)
(* the change and its event, other requests run.                            *)
(***************************************************************************)
EXTENDS Naturals, Sequences

CONSTANTS
    Reqs,       \* requests
    Users,
    GroupIds,
    Asked,      \* what requests ask for
    Founded,    \* groups there are at the start
    Founder     \* who founded them

Kinds == {"create", "rename", "remove_group", "add_user", "remove_user", "make_admin", "remove_admin"}

(* who: the user a change is about, by: the requesting user.                *)
Ask == [kind : Kinds, by : Users, who : Users, group : GroupIds]

ASSUME GroupsAssumption ==
    /\ Asked \subseteq Ask
    /\ Founded \subseteq GroupIds
    /\ Founder \in Users

VARIABLES
    accounts,   \* table users: those of Users whose account is there
    used,       \* ids given to groups so far
    groups,     \* table groups
    admins,     \* table group_admins
    members,    \* table users_groups
    written,    \* table messages: who has a message in which group
    ask,        \* request -> what it asks for
    at,         \* request -> its place
    called,     \* the request's own client is still there
    wasAdmin,   \* history: who was admin of what at some time
    first,      \* history: rows of admins no MakeUserAdmin request made
    changes,    \* history: changes to members and admins, in the order they were committed
    told        \* history: their events, in the order GroupActionsEventHandler took them

tables == <<groups, admins, members>>
people == <<accounts, written>>
history == <<wasAdmin, first, changes, told>>
vars == <<used, tables, people, ask, at, called, history>>

Places == {"start", "created", "undo", "checked", "changed", "addressed", "ok", "error"}

(* Types; rows of members, admins and messages belong to groups and users   *)
(* that exist, although either may go between the check of a request and    *)
(* its change.                                                              *)
TypeOK ==
    /\ accounts \subseteq Users
    /\ groups \subseteq used /\ used \subseteq GroupIds
    /\ admins \subseteq accounts \X groups
    /\ members \subseteq accounts \X groups
    /\ written \subseteq accounts \X groups
    /\ ask \in [Reqs -> Ask]
    /\ at \in [Reqs -> Places]
    /\ called \subseteq Reqs
    /\ admins \cup first \subseteq wasAdmin
    /\ changes \in Seq(Reqs) /\ told \in Seq(Reqs)

Init ==
    /\ accounts = Users
    /\ groups = Founded /\ used = Founded
    /\ admins = {Founder} \X Founded
    /\ members = {} /\ written = {}
    /\ ask \in [Reqs -> Asked]
    /\ at = [r \in Reqs |-> "start"]
    /\ called = Reqs
    /\ wasAdmin = admins /\ first = admins
    /\ changes = <<>> /\ told = <<>>
-----------------------------------------------------------------------------
(* A client hangs up: the request's context is cancelled, and every         *)
(* database call that starts after that fails.                              *)
HangUp(r) ==
    /\ r \in called /\ at[r] \notin {"ok", "error"}
    /\ called' = called \ {r}
    /\ UNCHANGED <<used, tables, people, ask, at, history>>

(* HandleCreateNewMessage stores a message to the group; no one asks for    *)
(* membership.                                                              *)
SendMessage(u, g) ==
    /\ <<u, g>> \in (accounts \X groups) \ written
    /\ written' = written \cup {<<u, g>>}
    /\ UNCHANGED <<accounts, used, tables, ask, at, called, history>>

OfOthers(rows, u) == {row \in rows : row[1] # u}

(* RemoveUser: the rows of an account in group_admins, users_groups and      *)
(* messages go with it, without a request of this module and an event; the  *)
(* groups stay.  An account does not come back: a new one has another id.   *)
RemoveAccount(u) ==
    /\ u \in accounts
    /\ accounts' = accounts \ {u}
    /\ admins' = OfOthers(admins, u)
    /\ members' = OfOthers(members, u)
    /\ written' = OfOthers(written, u)
    /\ UNCHANGED <<used, groups, ask, at, called, history>>

Goes(r, from, to) ==
    /\ at[r] = from
    /\ at' = [at EXCEPT ![r] = to]
    /\ UNCHANGED <<people, called>>

Calls(r, from, to) == r \in called /\ Goes(r, from, to)

(* Any database call may fail; what was committed stays.  A statement that  *)
(* is committed although its caller is told of an error is the change       *)
(* followed by Fail; where the caller then goes another way, the action     *)
(* says so.                                                                 *)
Fail(r) ==
    /\ \E from \in {"start", "checked", "changed"} : Goes(r, from, "error")
    /\ UNCHANGED <<used, tables, ask, history>>
-----------------------------------------------------------------------------
(* HandleCreateGroup                                                        *)

(* The reply to the insertion may be lost: then the group is there, its     *)
(* request is answered with an error, and nobody becomes its admin.         *)
CreateGroup(r) ==
    /\ ask[r].kind = "create"
    /\ \E to \in {"created", "error"} : Calls(r, "start", to)
    /\ \E g \in GroupIds \ used :
        /\ used' = used \cup {g} /\ groups' = groups \cup {g}
        /\ ask' = [ask EXCEPT ![r].group = g]
    /\ UNCHANGED <<admins, members, history>>

Creator(r) == <<ask[r].by, ask[r].group>>

(* If the reply to this one is lost, the creation is undone all the same.   *)
MakeCreatorAdmin(r) ==
    /\ ask[r].by \in accounts
    /\ \E to \in {"ok", "undo"} : Calls(r, "created", to)
    /\ admins' = admins \cup {Creator(r)}
    /\ wasAdmin' = wasAdmin \cup {Creator(r)} /\ first' = first \cup {Creator(r)}
    /\ UNCHANGED <<used, groups, members, ask, changes, told>>

CreatorNotAdmin(r) ==
    /\ Goes(r, "created", "undo")
    /\ UNCHANGED <<used, tables, ask, history>>

(* DeleteGroup: rows that refer to the group go with it; a message that     *)
(* refers to it forbids the deletion.                                       *)
Delete(g) ==
    /\ \A u \in Users : <<u, g>> \notin written
    /\ groups' = groups \ {g}
    /\ admins' = {a \in admins : a[2] # g}
    /\ members' = {m \in members : m[2] # g}

UndoCreate(r) ==
    /\ Calls(r, "undo", "error")
    /\ Delete(ask[r].group)
    /\ UNCHANGED <<used, ask, history>>

UndoFails(r) ==
    /\ Goes(r, "undo", "error")
    /\ UNCHANGED <<used, tables, ask, history>>
-----------------------------------------------------------------------------
(* The other handlers: check, change, event                                 *)

(* Mutant of CheckAdmin: any member will do.                                *)
CheckMember(r) ==
    /\ ask[r].kind # "create"
    /\ Calls(r, "start", "checked")
    /\ <<ask[r].by, ask[r].group>> \in admins \cup members
    /\ UNCHANGED <<used, tables, ask, history>>

CheckAdmin(r) ==
    /\ ask[r].kind # "create"
    /\ Calls(r, "start", "checked")
    /\ <<ask[r].by, ask[r].group>> \in admins
    /\ UNCHANGED <<used, tables, ask, history>>

(* Handlers that send no event.                                             *)
Rename(r) ==
    /\ ask[r].kind = "rename" /\ ask[r].group \in groups
    /\ Calls(r, "checked", "ok")
    /\ UNCHANGED <<used, tables, ask, history>>

RemoveGroup(r) ==
    /\ ask[r].kind = "remove_group"
    /\ \E to \in {"ok", "error"} : Calls(r, "checked", to)
    /\ Delete(ask[r].group)
    /\ UNCHANGED <<used, ask, history>>

Changes(r, kind) ==
    /\ ask[r].kind = kind
    /\ Calls(r, "checked", "changed")
    /\ changes' = Append(changes, r)
    /\ UNCHANGED <<used, groups, ask, first, told>>

Row(r) == <<ask[r].who, ask[r].group>>

(* The foreign keys of a new row: both its user and its group are there.    *)
CanInsert(r) == Row(r) \in accounts \X groups

(* Mutant of AddUserToGroup: rows need no group.                            *)
AddUserToAnyGroup(r) ==
    /\ Changes(r, "add_user")
    /\ members' = members \cup {Row(r)}
    /\ UNCHANGED <<admins, wasAdmin>>

AddUserToGroup(r) ==
    /\ Changes(r, "add_user")
    /\ CanInsert(r) /\ Row(r) \notin members
    /\ members' = members \cup {Row(r)}
    /\ UNCHANGED <<admins, wasAdmin>>

(* Mutant of RemoveUserFromGroup: an admin who goes stops being one.        *)
RemoveUserAndAdmin(r) ==
    /\ Changes(r, "remove_user")
    /\ members' = members \ {Row(r)} /\ admins' = admins \ {Row(r)}
    /\ UNCHANGED wasAdmin

RemoveUserFromGroup(r) ==
    /\ Changes(r, "remove_user")
    /\ members' = members \ {Row(r)}
    /\ UNCHANGED <<admins, wasAdmin>>

MakeUserAdmin(r) ==
    /\ Changes(r, "make_admin")
    /\ CanInsert(r) /\ Row(r) \notin admins
    /\ admins' = admins \cup {Row(r)} /\ wasAdmin' = wasAdmin \cup {Row(r)}
    /\ UNCHANGED members

RemoveUserFromAdmin(r) ==
    /\ Changes(r, "remove_admin")
    /\ admins' = admins \ {Row(r)}
    /\ UNCHANGED <<members, wasAdmin>>

(* The members' phone numbers are looked up after the change, and, but for  *)
(* a user added, the user it is about.                                      *)
Address(r) ==
    /\ Calls(r, "changed", "addressed")
    /\ ask[r].kind = "add_user" \/ ask[r].who \in accounts
    /\ UNCHANGED <<used, tables, ask, history>>

(* Mutant of Emit: the event is dropped when its client is gone.            *)
EmitIfCalled(r) ==
    /\ Goes(r, "addressed", "ok")
    /\ told' = IF r \in called THEN Append(told, r) ELSE told
    /\ UNCHANGED <<used, tables, ask, wasAdmin, first, changes>>

(* The send waits for GroupActionsEventHandler, not for the client.         *)
Emit(r) ==
    /\ Goes(r, "addressed", "ok")
    /\ told' = Append(told, r)
    /\ UNCHANGED <<used, tables, ask, wasAdmin, first, changes>>
-----------------------------------------------------------------------------
Create(r) ==
    CreateGroup(r) \/ MakeCreatorAdmin(r) \/ CreatorNotAdmin(r) \/ UndoCreate(r) \/ UndoFails(r)

Change(r) ==
    \/ Rename(r) \/ RemoveGroup(r)
    \/ AddUserToGroup(r) \/ RemoveUserFromGroup(r)
    \/ MakeUserAdmin(r) \/ RemoveUserFromAdmin(r)

Next ==
    \/ \E r \in Reqs : \/ HangUp(r) \/ Fail(r) \/ Create(r)
                      \/ CheckAdmin(r) \/ Change(r) \/ Address(r) \/ Emit(r)
    \/ \E u \in Users : RemoveAccount(u) \/ \E g \in GroupIds : SendMessage(u, g)

Spec == Init /\ [][Next]_vars
-----------------------------------------------------------------------------
InSeq(s) == {s[i] : i \in DOMAIN s}

(* The check and the change are two statements: whoever changes a group     *)
(* need not be its admin any more, but has been.                            *)
ChangedByAdmins ==
    \A r \in InSeq(changes) : <<ask[r].by, ask[r].group>> \in wasAdmin

(* An event tells of a change that was committed, once; a change that was   *)
(* not told was answered with an error or is not answered yet.              *)
ToldOnce ==
    /\ InSeq(told) \subseteq InSeq(changes)
    /\ \A i, j \in DOMAIN told : told[i] = told[j] => i = j
    /\ \A r \in InSeq(changes) : r \in InSeq(told) \/ at[r] \in {"changed", "addressed", "error"}

(* A group comes to be without admins in three ways only: its creation is   *)
(* under way or could not be undone; an admin was removed, two who remove   *)
(* one another at a time included; or one of its admins has removed their   *)
(* account (user.controller.go:217).                                        *)
AdminlessHasCause ==
    \A g \in groups : (\A u \in Users : <<u, g>> \notin admins) =>
        \/ \E r \in Reqs : /\ ask[r].kind = "create" /\ ask[r].group = g
                          /\ at[r] \in {"created", "undo", "error"}
        \/ \E r \in InSeq(changes) : ask[r].kind = "remove_admin" /\ ask[r].group = g
        \/ \E u \in Users \ accounts : <<u, g>> \in wasAdmin

(* The last request of a history about a row that is of one of two kinds is *)
(* of the one and not of the other.                                         *)
LastIs(seq, kind, other, row) ==
    \E i \in DOMAIN seq :
        /\ Row(seq[i]) = row /\ ask[seq[i]].kind = kind
        /\ \A j \in DOMAIN seq : j > i /\ Row(seq[j]) = row => ask[seq[j]].kind # other

(* The order in which changes were committed decides who is a member and    *)
(* who an admin of a group that is still there, of those whose account is:  *)
(* no check, no failure, no lost reply and no other deletion makes a change *)
(* undone or one done twice, and an account takes its own rows and no       *)
(* others.                                                                  *)
LastChangeDecides ==
    \A row \in Users \X groups :
        /\ row \in members <=>
              row[1] \in accounts /\ LastIs(changes, "add_user", "remove_user", row)
        /\ row \in admins <=>
              /\ row[1] \in accounts
              /\ \/ LastIs(changes, "make_admin", "remove_admin", row)
                 \/ /\ row \in first
                    /\ \A r \in InSeq(changes) : Row(r) = row => ask[r].kind # "remove_admin"
-----------------------------------------------------------------------------
(* What comments say and the code does not do                               *)

(* group.controller.go:45 "creating group and making the requesting user    *)
(* admin": when the request is over, there is no group its creator has not  *)
(* been admin of.                                                           *)
CreatedHasAdmin ==
    \A r \in Reqs : ask[r].kind = "create" /\ at[r] \in {"ok", "error"} /\ ask[r].group \in groups
        => <<ask[r].by, ask[r].group>> \in wasAdmin

(* group.event_handlers.go:37 "what action had been executed server side    *)
(* will sent to client for appropriate action on the client side": a client *)
(* that follows the events of all changes knows the members, of those whose *)
(* account is there.  (Who removes their account goes without an event.)    *)
FollowingGivesMembers ==
    InSeq(told) = InSeq(changes) =>
        \A row \in accounts \X groups :
            row \in members <=> LastIs(told, "add_user", "remove_user", row)
=============================================================================
