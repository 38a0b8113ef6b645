------------------------------ MODULE Delivery ------------------------------
(***************************************************************************)
(* How a message reaches a client: REST handlers of the message routes      *)
(* (controllers/message.controller.go) write to the database and send an    *)
(* event on an unbuffered channel; MessageEventHandler                      *)
(* (event_handlers/message.event_handlers.go) takes one event at a time and *)
(* writes it to the connections of its recipients through PushNotification  *)
(* (internal/services/notification.service.go).  The map of connections is  *)
(* the one of Registry, which the TCP server implements.                    *)
(***************************************************************************)
EXTENDS Registry, Sequences, Integers

CONSTANTS
    Reqs,       \* requests, each served by a goroutine of its own
    Numbers,    \* phone numbers of the users
    NumberOf,   \* connection -> number of the client behind it
    Heard,      \* number -> its first eight bytes, which the accept loop reads
    Nobody,     \* no receiver: a message to the group
    Requests    \* what requests ask for

Kinds == {"NEW_MESSAGE", "EDIT_MESSAGE", "DELETE_MESSAGE", "MARK_MESSAGE_RECEIVED",
          "MARK_MESSAGE_READ", "GROUP_MESSAGE_RECEIVED", "GROUP_MESSAGE_READ"}

(* by: who asks.  Of the row of the message: sender, its one receiver, and   *)
(* whether it belongs to the group of the model.  Of the request's body: the *)
(* user it names (receiver_id of NEW and EDIT, sender_id of the marks) and    *)
(* whether it names the group.  Nobody compares the body with the row: the   *)
(* two agree only where the row is written from the body.                   *)
Request == [kind : Kinds, by : Numbers,
            sender : Numbers, receiver : Numbers \cup {Nobody}, inGroup : BOOLEAN,
            named : Numbers \cup {Nobody}, group : BOOLEAN]

(* A message goes to one receiver or to a group, and CreateMessage is given *)
(* the receiver if the body has one.                                        *)
WellFormed(q) ==
    /\ q.inGroup => q.receiver = Nobody
    /\ q.kind = "NEW_MESSAGE" =>
          /\ q.sender = q.by /\ q.receiver = q.named
          /\ q.inGroup = (q.group /\ q.named = Nobody)

ASSUME DeliveryAssumption ==
    /\ Numbers \subseteq Keys
    /\ NumberOf \in [Conns -> Numbers]
    /\ Heard \in [Numbers -> Keys]
    /\ \A c \in Conns : KeyOf[c] = Heard[NumberOf[c]]
    /\ Nobody \notin Numbers
    /\ Requests \subseteq {q \in Request : WellFormed(q)}
    /\ None \notin Reqs

VARIABLES
    proc,       \* "running", "crashed"
    up,         \* connections that take what is written to them
    members,    \* numbers of the members of the one group of the model
    joined,     \* history: numbers that were members at some time
    req,        \* request -> what it asks for
    at,         \* request -> its place: "none", "start", "stored", "send", "sent",
                \* and the two answers "ok" and "error"
    recipients, \* request -> MessageEvent.Phonenumbers
    handler,    \* MessageEventHandler: "idle", "event", "push" holding the read lock
    event,      \* request whose event it serves
    todo,       \* recipients still to be written to
    got         \* history: connection -> requests written to it, in order

groupVars == <<members, joined>>
reqVars == <<req, at, recipients>>
handlerVars == <<handler, event, todo>>
vars == <<registryVars, proc, up, groupVars, reqVars, handlerVars, got>>

(* Types; recipients are numbers of users, never of nobody.                *)
TypeOK ==
    /\ RegistryTypeOK
    /\ proc \in {"running", "crashed"}
    /\ up \subseteq Conns
    /\ members \subseteq joined /\ joined \subseteq Numbers
    /\ req \in [Reqs -> Requests]
    /\ at \in [Reqs -> {"none", "start", "stored", "send", "sent", "ok", "error"}]
    /\ recipients \in [Reqs -> SUBSET Numbers]
    /\ handler \in {"idle", "event", "push"}
    /\ event \in Reqs \cup {None}
    /\ todo \subseteq Numbers
    /\ got \in [Conns -> Seq(Reqs)]

Init ==
    /\ RegistryInit
    /\ proc = "running" /\ up = Conns
    /\ members = {} /\ joined = {}
    /\ req \in [Reqs -> Requests]
    /\ at = [r \in Reqs |-> "none"]
    /\ recipients = [r \in Reqs |-> {}]
    /\ handler = "idle" /\ event = None /\ todo = {}
    /\ got = [c \in Conns |-> <<>>]
-----------------------------------------------------------------------------
(* Around the handlers                                                     *)

(* A client connects and the event handler is told.                        *)
Connect(c) ==
    /\ proc = "running"
    /\ Announce(c)
    /\ UNCHANGED <<proc, up, groupVars, reqVars, handlerVars, got>>

(* Mutant of Register: the map is changed without the mutex.               *)
RegisterUnlocked(c) ==
    /\ proc = "running"
    /\ Enter(c)
    /\ UNCHANGED <<proc, up, groupVars, reqVars, handlerVars, got>>

(* AddUserConnection and RemoveUserConnection wait for the mutex that      *)
(* PushNotification holds for reading.                                     *)
Register(c) ==
    /\ proc = "running" /\ handler # "push"
    /\ Enter(c)
    /\ UNCHANGED <<proc, up, groupVars, reqVars, handlerVars, got>>

Unregister(k) ==
    /\ proc = "running" /\ handler # "push"
    /\ reg[k] # None
    /\ Leave(k)
    /\ UNCHANGED <<proc, up, groupVars, reqVars, handlerVars, got>>

(* A connection takes nothing more: the peer is gone, or a push fell        *)
(* between a write deadline and the ping that sets the next, after which    *)
(* TLS refuses every write.  It stays registered until DISCONNECTED is      *)
(* served.                                                                  *)
Break(c) ==
    /\ proc = "running" /\ c \in seen \cap up
    /\ up' = up \ {c}
    /\ UNCHANGED <<registryVars, proc, groupVars, reqVars, handlerVars, got>>

(* AddUserToGroup and RemoveUserFromGroup.                                 *)
ChangeMembers(n) ==
    /\ proc = "running"
    /\ members' = IF n \in members THEN members \ {n} ELSE members \cup {n}
    /\ joined' = joined \cup {n}
    /\ UNCHANGED <<registryVars, proc, up, reqVars, handlerVars, got>>
-----------------------------------------------------------------------------
(* REST handlers                                                           *)

Goes(r, from, to) ==
    /\ proc = "running" /\ at[r] = from
    /\ at' = [at EXCEPT ![r] = to]
    /\ UNCHANGED <<registryVars, proc, up, groupVars, got>>

Receive(r) ==
    /\ Goes(r, "none", "start")
    /\ UNCHANGED <<req, recipients, handlerVars>>

(* Which requests get past their statements.  UpdateMessage wants the        *)
(* asker's own row in the group the body names, and compares group_id with  *)
(* NULL if it names none; MarkMessageRead takes any row; MarkMessageReceived *)
(* and MarkGroupMessageRead name columns the tables do not have.            *)
CanWrite(q) ==
    \/ q.kind = "NEW_MESSAGE" /\ (q.named # Nobody \/ q.group)
    \/ q.kind = "EDIT_MESSAGE" /\ q.group /\ q.inGroup /\ q.sender = q.by
    \/ q.kind \in {"DELETE_MESSAGE", "MARK_MESSAGE_READ"}

(* The handler's statements, committed one by one, and its cache update.    *)
Write(r) ==
    /\ Goes(r, "start", "stored")
    /\ CanWrite(req[r])
    /\ UNCHANGED <<req, recipients, handlerVars>>

(* A member's receipt of a group message is stored.  The handler compares   *)
(* the number of members with that of the receipts of the member named as   *)
(* sender, answers without an event while they differ, and fails in         *)
(* MarkMessageReceived when they agree.                                     *)
WriteReceipt(r) ==
    /\ Goes(r, "start", "ok")
    /\ req[r].kind = "GROUP_MESSAGE_RECEIVED"
    /\ UNCHANGED <<req, recipients, handlerVars>>

ToGroup(q) == IF q.group THEN members ELSE {}

(* Mutant of Recipients: the lookups add up.                                *)
RecipientsAddUp(q) == ToGroup(q) \cup ({q.named} \ {Nobody})

(* Mutant of Recipients: the user in the body is looked up whether there is *)
(* one or not, and replaces the members.                                    *)
RecipientsUnchecked(q) == {q.named}

(* The numbers looked up for the event, after the write: the last lookup    *)
(* that applies replaces the earlier ones.  Only a deletion reads the row;  *)
(* the others look up the user their body names.                            *)
Recipients(q) ==
    CASE q.kind = "DELETE_MESSAGE" /\ q.by \in {q.sender, q.receiver} ->
            IF q.by = q.sender THEN {q.receiver} \ {Nobody} ELSE {q.by}
      [] q.kind # "DELETE_MESSAGE" /\ q.named # Nobody -> {q.named}
      [] OTHER -> ToGroup(q)

(* Whoever deletes a message of their own has its receiver looked up, and a *)
(* group message has none; a mark as read has the sender looked up.         *)
CanAddress(q) ==
    /\ ~(q.kind = "DELETE_MESSAGE" /\ q.by = q.sender /\ q.receiver = Nobody)
    /\ ~(q.kind = "MARK_MESSAGE_READ" /\ q.named = Nobody)

Address(r) ==
    /\ Goes(r, "stored", "send")
    /\ CanAddress(req[r])
    /\ recipients' = [recipients EXCEPT ![r] = Recipients(req[r])]
    /\ UNCHANGED <<req, handlerVars>>

(* Each database call may fail: the handler answers with an error and      *)
(* leaves what it has written.                                             *)
Fail(r) ==
    /\ \E from \in {"start", "stored"} : Goes(r, from, "error")
    /\ UNCHANGED <<req, recipients, handlerVars>>

(* Send and receive on the unbuffered channel.                             *)
Emit(r) ==
    /\ Goes(r, "send", "sent")
    /\ handler = "idle"
    /\ handler' = "event" /\ event' = r
    /\ UNCHANGED <<req, recipients, todo>>

Answer(r) ==
    /\ Goes(r, "sent", "ok")
    /\ UNCHANGED <<req, recipients, handlerVars>>
-----------------------------------------------------------------------------
(* MessageEventHandler and PushNotification                                *)

HandlerKeeps == UNCHANGED <<registryVars, up, groupVars, reqVars>>

(* Mutant of StartPush: with nobody to tell the handler never comes back.   *)
StartPushToSome ==
    /\ proc = "running" /\ handler = "event"
    /\ recipients[event] # {}
    /\ handler' = "push" /\ todo' = recipients[event]
    /\ HandlerKeeps /\ UNCHANGED <<proc, event, got>>

StartPush ==
    /\ proc = "running" /\ handler = "event"
    /\ handler' = "push" /\ todo' = recipients[event]
    /\ HandlerKeeps /\ UNCHANGED <<proc, event, got>>

(* connections[phonenumber], the whole number being the key.               *)
Lookup(n) == reg[n]

(* Mutant of WriteTo: the number is not taken off the list.                *)
WriteToAgain(n) ==
    /\ proc = "running" /\ handler = "push" /\ n \in todo
    /\ Lookup(n) # None
    /\ got' = [got EXCEPT ![Lookup(n)] = Append(@, event)]
    /\ HandlerKeeps /\ UNCHANGED <<proc, handler, event, todo>>

(* Mutant of WriteTo: no deadline ends a write nobody takes.               *)
WriteToBlocks(n) ==
    /\ proc = "running" /\ handler = "push" /\ n \in todo
    /\ Lookup(n) \in up
    /\ todo' = todo \ {n}
    /\ got' = [got EXCEPT ![Lookup(n)] = Append(@, event)]
    /\ HandlerKeeps /\ UNCHANGED <<proc, handler, event>>

(* Mutant of WriteTo: each write has a goroutine of its own, and may come   *)
(* before the one that was begun last.                                      *)
WriteToInBackground(n) ==
    /\ proc = "running" /\ handler = "push" /\ n \in todo
    /\ Lookup(n) # None
    /\ todo' = todo \ {n}
    /\ \/ got' = [got EXCEPT ![Lookup(n)] = Append(@, event)]
       \/ got' = [got EXCEPT ![Lookup(n)] = <<event>> \o @]
    /\ HandlerKeeps /\ UNCHANGED <<proc, handler, event>>

(* The numbers are a query's result, in no promised order.  The error of a *)
(* write is ignored.                                                       *)
WriteTo(n) ==
    /\ proc = "running" /\ handler = "push" /\ n \in todo
    /\ Lookup(n) # None
    /\ todo' = todo \ {n}
    /\ got' = IF Lookup(n) \in up THEN [got EXCEPT ![Lookup(n)] = Append(@, event)] ELSE got
    /\ HandlerKeeps /\ UNCHANGED <<proc, handler, event>>

(* The map yields a nil connection: its Write dereferences nil, and nobody *)
(* recovers in the event handler's goroutine.                              *)
WriteToNil(n) ==
    /\ proc = "running" /\ handler = "push" /\ n \in todo
    /\ Lookup(n) = None
    /\ proc' = "crashed"
    /\ HandlerKeeps /\ UNCHANGED <<handlerVars, got>>

EndPush ==
    /\ proc = "running" /\ handler = "push" /\ todo = {}
    /\ handler' = "idle" /\ event' = None
    /\ HandlerKeeps /\ UNCHANGED <<proc, todo, got>>
-----------------------------------------------------------------------------
Environment ==
    \/ \E c \in Conns : Connect(c) \/ Register(c) \/ Break(c)
    \/ \E k \in Keys : Unregister(k)
    \/ \E n \in Numbers : ChangeMembers(n)

Serve(r) == Write(r) \/ WriteReceipt(r) \/ Address(r) \/ Fail(r) \/ Answer(r)

Push == StartPush \/ EndPush \/ \E n \in Numbers : WriteTo(n) \/ WriteToNil(n)

Next ==
    \/ Environment
    \/ \E r \in Reqs : Receive(r) \/ Serve(r) \/ Emit(r)
    \/ Push

Spec == Init /\ [][Next]_vars

(* Goroutines run, database calls end, a send on the channel is served in  *)
(* turn, and a write to a connection has the deadline the heartbeat sets.  *)
FairSpec ==
    /\ Spec
    /\ \A r \in Reqs : WF_vars(Serve(r)) /\ SF_vars(Emit(r))
    /\ WF_vars(Push)
-----------------------------------------------------------------------------
RangeOf(s) == {s[i] : i \in DOMAIN s}

(* One send on the channel, one write per recipient: although two           *)
(* connections may carry one number and the registry changes between        *)
(* events, nobody is written the same event twice.                          *)
AtMostOnce ==
    \A c \in Conns : \A i, j \in DOMAIN got[c] : got[c][i] = got[c][j] => i = j

(* MessageEventHandler serves one event at a time: two clients that get the *)
(* same two events get them in the same order.                              *)
SameOrder ==
    \A c, d \in Conns : \A r, s \in Reqs :
        LET before(x) == \E i, j \in DOMAIN got[x] : i < j /\ got[x][i] = r /\ got[x][j] = s
            both(x) == {r, s} \subseteq RangeOf(got[x])
        IN  r # s /\ both(c) /\ both(d) => (before(c) <=> before(d))

(* Who has a part in the message itself: its sender, its receiver, whoever  *)
(* was a member of its group at some time.                                  *)
Party(r, n) ==
    \/ n \in {req[r].sender, req[r].receiver}
    \/ req[r].inGroup /\ n \in joined

(* Whom a body brings in although the row does not: the user named by the   *)
(* author of an edit or by whoever marks a message as read, and the members *)
(* of the group named by somebody who deletes a message that is not theirs  *)
(* and not in that group.                                                   *)
Named(r, n) ==
    LET q == req[r]
    IN  \/ q.kind \in {"EDIT_MESSAGE", "MARK_MESSAGE_READ"} /\ n = q.named
        \/ /\ q.kind = "DELETE_MESSAGE" /\ q.group /\ ~q.inGroup
           /\ q.by \notin {q.sender, q.receiver} /\ n \in joined

(* Who is written an event has a part in its message: the members are read  *)
(* before the send, so a client may get the event of a group it has left    *)
(* since, but not of one it never joined.  The bodies of three requests are *)
(* not compared with the row (message.controller.go:254-262, 817-853,       *)
(* 423-432), and bring in exactly the outsiders of Named; a new message and *)
(* a deletion by a party reach parties only.                                *)
OutsidersAreNamed ==
    \A c \in Conns : \A r \in RangeOf(got[c]) :
        Party(r, NumberOf[c]) \/ Named(r, NumberOf[c])

(* However numbers are shortened when a connection is entered: an event is  *)
(* written only to connections entered under a number of such a user.       *)
OutsiderKeysAreNamed ==
    \A c \in Conns : \A r \in RangeOf(got[c]) :
        Party(r, KeyOf[c]) \/ Named(r, KeyOf[c])

(* Nobody is told of what was answered with an error, or not yet stored:    *)
(* the event is sent behind the last statement that may fail.               *)
ErrorIsSilent ==
    \A c \in Conns : \A r \in RangeOf(got[c]) : at[r] \in {"sent", "ok"} /\ CanWrite(req[r])

(* The process ends by a push to a number without a connection, and by      *)
(* nothing else; and whoever was to be written to after it gets nothing.    *)
CrashHasCause ==
    proc = "crashed" =>
        handler = "push" /\ \E n \in todo \cap recipients[event] : reg[n] = None

(* The map of connections is used by the calls of the service, each under   *)
(* its mutex, and by no others.                                             *)
UsesRegistry == RegistrySpec

(* While PushNotification holds the read lock the map stands still: when it *)
(* is done, every recipient is registered, and has been written the event   *)
(* if the connection registered now takes writes.                           *)
PushSeesOneMap ==
    [][handler = "push" /\ handler' = "idle" =>
         \A n \in recipients[event] :
            /\ reg[n] # None
            /\ reg[n] \in up => event \in RangeOf(got[reg[n]])]_vars

(* What was stored is announced or answered with an error: no request stays *)
(* in its handler for ever, unless the process dies.                        *)
StoredIsAnswered ==
    \A r \in Reqs : at[r] = "stored" ~> at[r] \in {"ok", "error"} \/ proc = "crashed"

(* An event that was taken from the channel is written to every recipient   *)
(* that stays connected, unless the process dies.                           *)
TakenIsPushed ==
    \A r \in Reqs : event = r ~> handler = "idle" \/ proc = "crashed"
-----------------------------------------------------------------------------
(* What comments say and the code does not do                              *)

(* main.go:105 "notification service for pushing real time updates to users *)
(* based on events": events come and the service goes on.                   *)
PushesForEver == proc # "crashed"

(* notification.service.go:14 "this will store user_phonenumber ->          *)
(* tls_tcp_connection_object": what is found under a number is the          *)
(* connection of the user with that number.                                 *)
FoundIsTheUsers ==
    \A n \in Numbers : Lookup(n) # None => NumberOf[Lookup(n)] = n

(* message.controller.go:844 "creating MESSAGE_RECEIVED event" and :847      *)
(* "fetching sender phonenumber": who is told that a message was read has    *)
(* written it.  The number is that of whoever the body calls the sender.    *)
ReadGoesToSender ==
    \A c \in Conns : \A r \in RangeOf(got[c]) :
        req[r].kind = "MARK_MESSAGE_READ" => NumberOf[c] = req[r].sender
=============================================================================
