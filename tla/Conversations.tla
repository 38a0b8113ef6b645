---------------------------- MODULE Conversations ----------------------------
(***************************************************************************)
(* Writing, deleting and reading messages: the table of messages with its   *)
(* two visibility flags, the cache beside it, and the handlers of           *)
(* controllers/message.controller.go that use both; and the removal of an   *)
(* account, whose messages go with it.  Every statement is a transaction of *)
(* its own; between two statements of a handler, and between a statement    *)
(* and the cache, other requests run.  The events the handlers send are the *)
(* subject of Delivery.                                                     *)
(***************************************************************************)
EXTENDS ConversationMap, MessageFilter

CONSTANTS
    Reqs,       \* requests, each served by a goroutine of its own
    Users,
    Group,      \* the one group
    Limit,      \* rows a query yields at most: 10 in the code
    Asked,      \* what requests ask for
    Stored,     \* the table when the process starts
    Newest      \* time of the newest message when the process starts

(* A row: its creation time, which stands for its id, its sender, and the   *)
(* columns is_sender_allowed_to_see and is_receiver_allowed_to_see.         *)
Row == [id : Messages, from : Users, sender : BOOLEAN, receiver : BOOLEAN]

(* to: receiver, or the group; msg: the message to delete; named: whether   *)
(* the request names the group (beside the receiver, when it sends to one); *)
(* plain: whether it writes ids as UUID.String() does; before: the time up  *)
(* to which to read.                                                        *)
Ask == [kind : {"send", "delete", "forget", "read", "leave"}, by : Users, to : Users \cup {Group},
        msg : Messages, named : BOOLEAN, plain : BOOLEAN, before : Nat]

(* The conversation of a sender and whom the message is for: the key of the *)
(* cache, and the condition of the queries.                                 *)
KeyOf(from, to) == IF to = Group THEN Group ELSE <<from, to>>

ASSUME ConversationsAssumption ==
    /\ Group \notin Users /\ Group \notin Users \X Users /\ None \notin Keys
    /\ Keys = (Users \X Users) \cup {Group}
    /\ Asked \subseteq Ask
    /\ \A a \in Asked : a.kind = "forget" => a.to \in Users
    /\ Limit \in Nat /\ Newest \in Nat
    /\ Stored \in [Keys -> Seq(Row)]
    /\ \A k \in Keys : \A x \in DOMAIN Stored[k] : Stored[k][x].id <= Newest
    /\ \A j, k \in Keys : \A x \in DOMAIN Stored[j], y \in DOMAIN Stored[k] :
         Stored[j][x].id = Stored[k][y].id => j = k /\ x = y

VARIABLES
    accounts,   \* table users
    rows,       \* table messages: conversation -> its rows, oldest first
    last,       \* time of the newest message
    lost,       \* history: conversation -> messages whose rows went with an account
    ask, at,    \* request -> what it asks for, and its place
    own,        \* request -> conversation, if it deletes a message of its user's there
    stamp,      \* request -> message it created, or time of its first statement that hides
    loop,       \* request -> the loop it is in
    kept,       \* request -> what the loop over its own messages left
    queried,    \* history: request -> what the loop started from
    hiddenAt,   \* history: request -> messages hidden from its user when it began to read
    answers     \* request -> what it was answered

tableVars == <<accounts, rows, last, lost>>
loopVars == <<loop, kept, queried>>
readVars == <<loopVars, hiddenAt, answers>>
vars == <<conv, tableVars, ask, at, own, stamp, readVars>>

Places == {"start", "stored", "half", "hidden", "query", "own", "peer",
           "ok", "error", "panic"}

Answer == [source : {"cache", "table"}, ids : Seq(Messages \cup {0})]

(* Sender and receiver of a message, if it has one, are among the users.    *)
Among(k, row, users) == IF k = Group THEN row.from \in users ELSE {k[1], k[2]} \subseteq users

(* Types; messages are of accounts.                                         *)
TypeOK ==
    /\ conv \in [Keys -> Seq(Entry) \cup {None}]
    /\ accounts \subseteq Users
    /\ rows \in [Keys -> Seq(Row)]
    /\ last \in Nat
    /\ \A k \in Keys : \A x \in DOMAIN rows[k] : rows[k][x].id <= last /\ Among(k, rows[k][x], accounts)
    /\ lost \in [Keys -> SUBSET Messages]
    /\ ask \in [Reqs -> Asked]
    /\ at \in [Reqs -> Places]
    /\ own \in [Reqs -> Keys \cup {None}]
    /\ stamp \in [Reqs -> 0..last]
    /\ loop \in [Reqs -> [arr : Seq(Item(Messages \cup {0})), n : Nat, i : Nat \ {0}]]
    /\ \A r \in Reqs : loop[r].n <= Len(loop[r].arr) /\ loop[r].i <= Len(loop[r].arr) + 1
    /\ kept \in [Reqs -> Seq(Item(Messages \cup {0}))]
    /\ queried \in [Reqs -> Seq(Item(Messages))]
    /\ hiddenAt \in [Reqs -> SUBSET Messages]
    /\ answers \in [Reqs -> Seq(Answer)]

Init ==
    /\ MapInit
    /\ accounts = Users /\ rows = Stored /\ last = Newest
    /\ lost = [k \in Keys |-> {}]
    /\ ask \in [Reqs -> Asked]
    /\ at = [r \in Reqs |-> "start"]
    /\ own = [r \in Reqs |-> None]
    /\ stamp = [r \in Reqs |-> 0]
    /\ loop = [r \in Reqs |-> LoopOver(<<>>)]
    /\ kept = [r \in Reqs |-> <<>>]
    /\ queried = [r \in Reqs |-> <<>>]
    /\ hiddenAt = [r \in Reqs |-> {}]
    /\ answers = [r \in Reqs |-> <<>>]
-----------------------------------------------------------------------------
Goes(r, from, to) ==
    /\ at[r] = from
    /\ at' = [at EXCEPT ![r] = to]
    /\ UNCHANGED ask

(* HandleCreateNewMessage                                                   *)

NewRow(m, from) == [id |-> m, from |-> from, sender |-> TRUE, receiver |-> TRUE]

(* Mutant of CreateMessage: the row's time is ahead of the clock.           *)
CreateAhead(r) ==
    /\ ask[r].kind = "send"
    /\ Goes(r, "start", "stored")
    /\ last + 1 \in Messages
    /\ rows' = [rows EXCEPT ![KeyOf(ask[r].by, ask[r].to)] = Append(@, NewRow(last + 1, ask[r].by))]
    /\ stamp' = [stamp EXCEPT ![r] = last + 1]
    /\ UNCHANGED <<conv, accounts, last, lost, own, readVars>>

(* CreateMessage, for a sender and a receiver that have accounts.  A        *)
(* receiver goes before a group.                                            *)
CreateMessage(r) ==
    /\ ask[r].kind = "send"
    /\ Goes(r, "start", "stored")
    /\ {ask[r].by, ask[r].to} \subseteq accounts \cup {Group}
    /\ last + 1 \in Messages
    /\ last' = last + 1
    /\ rows' = [rows EXCEPT ![KeyOf(ask[r].by, ask[r].to)] = Append(@, NewRow(last + 1, ask[r].by))]
    /\ stamp' = [stamp EXCEPT ![r] = last + 1]
    /\ UNCHANGED <<conv, accounts, lost, own, readVars>>

(* Mutant of CacheKey: receiver and sender change places.                   *)
CacheKeySwapped(r) ==
    IF ask[r].named \/ ask[r].to = Group THEN Group ELSE <<ask[r].to, ask[r].by>>

(* The key of a new message in the cache.  A group goes before a receiver.  *)
CacheKey(r) == IF ask[r].named THEN Group ELSE KeyOf(ask[r].by, ask[r].to)

(* With ids written otherwise it is cached under another key: no handler    *)
(* gets or removes what is there.                                           *)
CacheMessage(r) ==
    /\ Goes(r, "stored", "ok")
    /\ IF ask[r].plain THEN MapSet(CacheKey(r), stamp[r]) ELSE UNCHANGED conv
    /\ UNCHANGED <<tableVars, own, stamp, readVars>>
-----------------------------------------------------------------------------
(* HandleDeleteMessage and HandleDeleteConversation                         *)

Holds(k, m) == \E x \in DOMAIN rows[k] : rows[k][x].id = m

(* MarkIsSenderAllowedToSeeFalse and MarkIsReceiverAllowedToSeeFalse name   *)
(* a sender and a receiver, and no message.                                 *)
HideFromSender(k) ==
    rows' = [rows EXCEPT ![k] = [x \in DOMAIN @ |-> [@[x] EXCEPT !.sender = FALSE]]]

HideFromReceiver(k) ==
    rows' = [rows EXCEPT ![k] = [x \in DOMAIN @ |-> [@[x] EXCEPT !.receiver = FALSE]]]

Stamp(r) == stamp' = [stamp EXCEPT ![r] = last]

(* The sender deletes: first of two statements.                             *)
DeleteOwn(r) ==
    /\ ask[r].kind = "delete" /\ ~ask[r].named
    /\ Goes(r, "start", "half")
    /\ \E to \in Users :
        /\ Holds(<<ask[r].by, to>>, ask[r].msg)
        /\ HideFromSender(<<ask[r].by, to>>)
        /\ own' = [own EXCEPT ![r] = <<ask[r].by, to>>]
    /\ Stamp(r)
    /\ UNCHANGED <<conv, accounts, last, lost, readVars>>

(* Mutant of DeleteForReceiver: the second statement is forgotten.          *)
DeleteForNobody(r) ==
    /\ ask[r].kind = "delete"
    /\ Goes(r, "half", "hidden")
    /\ UNCHANGED <<conv, tableVars, own, stamp, readVars>>

(* The second.                                                              *)
DeleteForReceiver(r) ==
    /\ ask[r].kind = "delete"
    /\ Goes(r, "half", "hidden")
    /\ HideFromReceiver(own[r])
    /\ UNCHANGED <<conv, accounts, last, lost, own, stamp, readVars>>

DeleteReceived(r) ==
    /\ ask[r].kind = "delete" /\ ~ask[r].named
    /\ Goes(r, "start", "hidden")
    /\ \E from \in Users \ {ask[r].by} :
        Holds(<<from, ask[r].by>>, ask[r].msg) /\ HideFromReceiver(<<from, ask[r].by>>)
    /\ Stamp(r)
    /\ UNCHANGED <<conv, accounts, last, lost, own, readVars>>

(* A message to the group has no receiver, and group_message_receivers, to  *)
(* which no handler adds, no rows: the statements change nothing.  Nor does *)
(* anything happen for a user who is neither sender nor receiver, or when   *)
(* the request names a group the message is not of.  The sender's request   *)
(* goes on to the list of the group it names.                               *)
DeleteNothing(r) ==
    /\ ask[r].kind = "delete"
    /\ Goes(r, "start", "hidden")
    /\ \E k \in Keys : \E x \in DOMAIN rows[k] :
        /\ rows[k][x].id = ask[r].msg
        /\ k # Group /\ ask[r].by \in {k[1], k[2]} => ask[r].named
        /\ own' = IF ask[r].named /\ rows[k][x].from = ask[r].by
                  THEN [own EXCEPT ![r] = Group] ELSE own
    /\ UNCHANGED <<conv, tableVars, stamp, readVars>>

(* RemoveMessage, for the sender only.  The receiver's Update changes no    *)
(* list (see ConversationList), nor does a call for a key without one.      *)
Uncache(r) ==
    /\ Goes(r, "hidden", "ok")
    /\ IF own[r] # None /\ conv[own[r]] # None
       THEN MapRemoveMessage(own[r], ask[r].msg)
       ELSE UNCHANGED conv
    /\ UNCHANGED <<tableVars, own, stamp, readVars>>

ForgetSent(r) ==
    /\ ask[r].kind = "forget"
    /\ Goes(r, "start", "half")
    /\ HideFromSender(<<ask[r].by, ask[r].to>>)
    /\ Stamp(r)
    /\ UNCHANGED <<conv, accounts, last, lost, own, readVars>>

ForgetReceived(r) ==
    /\ ask[r].kind = "forget"
    /\ Goes(r, "half", "ok")
    /\ HideFromReceiver(<<ask[r].to, ask[r].by>>)
    /\ UNCHANGED <<conv, accounts, last, lost, own, stamp, readVars>>
-----------------------------------------------------------------------------
(* user.controller.go, RemoveUser: messages are deleted on cascade with     *)
(* their sender and with their receiver.  Copies in the cache stay.         *)

(* The rows of the group's are moved together without u's, those of pairs   *)
(* are all u's or none is.                                                  *)
Lose(u) ==
    LET others == {x \in DOMAIN rows[Group] : rows[Group][x].from # u}
    IN  /\ accounts' = accounts \ {u}
        /\ \E n \in 0..Len(rows[Group]) : \E place \in [1..n -> others] :
            /\ \A x, y \in 1..n : x < y => place[x] < place[y]
            /\ others \subseteq {place[x] : x \in 1..n}
            /\ rows' = [k \in Keys |-> IF k = Group THEN [x \in 1..n |-> rows[k][place[x]]]
                                      ELSE IF u \in {k[1], k[2]} THEN <<>> ELSE rows[k]]

RemoveUser(r) ==
    /\ ask[r].kind = "leave"
    /\ Goes(r, "start", "ok")
    /\ Lose(ask[r].by)
    /\ lost' = [k \in Keys |-> lost[k] \cup {m \in Messages : Holds(k, m) /\ ~Holds(k, m)'}]
    /\ UNCHANGED <<conv, last, own, stamp, readVars>>
-----------------------------------------------------------------------------
(* HandleGetConversation and HandleGetAllGroupMessages                      *)

(* Messages a user may not see in the conversation with another.            *)
HiddenFrom(by, to) ==
    {rows[<<by, to>>][x].id : x \in {y \in DOMAIN rows[<<by, to>>] : ~rows[<<by, to>>][y].sender}}
    \cup
    {rows[<<to, by>>][x].id : x \in {y \in DOMAIN rows[<<to, by>>] : ~rows[<<to, by>>][y].receiver}}

Answers(r, source, ids) ==
    answers' = [answers EXCEPT ![r] = Append(@, [source |-> source, ids |-> ids])]

(* The cache's Get returns a list whose last message is early enough.  All  *)
(* copies in it have both flags set, and zero messages are of nobody: the   *)
(* loop over it cuts nothing.  The handler answers and goes on.             *)
LookInCache(r) ==
    LET k == KeyOf(ask[r].by, ask[r].to)
        hit == conv[k] # None /\ conv[k][Len(conv[k])].at <= ask[r].before
    IN  /\ ask[r].kind = "read"
        /\ Goes(r, "start", "query")
        /\ hiddenAt' = [hiddenAt EXCEPT ![r] =
                          IF k = Group THEN {} ELSE HiddenFrom(ask[r].by, ask[r].to)]
        /\ IF hit THEN Answers(r, "cache", [x \in DOMAIN conv[k] |-> conv[k][x].at])
                  ELSE UNCHANGED answers
        /\ UNCHANGED <<conv, tableVars, own, stamp, loopVars>>

(* The first n rows of k are what GetAllMessages and GetAllGroupMessages    *)
(* yield: created before, in ascending order, at most Limit.                *)
IsPage(k, before, n) ==
    /\ n <= Limit /\ n <= Len(rows[k])
    /\ \A x \in 1..n : rows[k][x].id < before
    /\ n < Limit /\ n < Len(rows[k]) => rows[k][n + 1].id >= before

Begin(r, items) ==
    /\ loop' = [loop EXCEPT ![r] = LoopOver(items)]
    /\ queried' = [queried EXCEPT ![r] = items]

QueryOwn(r) ==
    LET k == <<ask[r].by, ask[r].to>>
    IN  /\ ask[r].to # Group
        /\ Goes(r, "query", "own")
        /\ \E n \in 0..Limit :
            /\ IsPage(k, ask[r].before, n)
            /\ Begin(r, [x \in 1..n |-> [id |-> rows[k][x].id, sees |-> rows[k][x].sender]])
        /\ UNCHANGED <<conv, tableVars, own, stamp, kept, hiddenAt, answers>>

(* One pass of either loop.  slices.Delete panics when the index is beyond  *)
(* the slice; net/http ends the connection of a handler that panics.        *)
Filter(r) ==
    /\ at[r] \in {"own", "peer"}
    /\ Looking(loop[r])
    /\ IF Cuts(loop[r]) /\ OutOfRange(loop[r])
       THEN at' = [at EXCEPT ![r] = "panic"] /\ UNCHANGED loop
       ELSE loop' = [loop EXCEPT ![r] = Advanced(@)] /\ UNCHANGED at
    /\ UNCHANGED <<conv, tableVars, ask, own, stamp, kept, queried, hiddenAt, answers>>

QueryPeer(r) ==
    LET k == <<ask[r].to, ask[r].by>>
    IN  /\ Goes(r, "own", "peer")
        /\ ~Looking(loop[r])
        /\ kept' = [kept EXCEPT ![r] = Result(loop[r])]
        /\ \E n \in 0..Limit :
            /\ IsPage(k, ask[r].before, n)
            /\ Begin(r, [x \in 1..n |-> [id |-> rows[k][x].id, sees |-> rows[k][x].receiver]])
        /\ UNCHANGED <<conv, tableVars, own, stamp, hiddenAt, answers>>

IdsOf(items) == [x \in DOMAIN items |-> items[x].id]

AnswerConversation(r) ==
    /\ Goes(r, "peer", "ok")
    /\ ~Looking(loop[r])
    /\ Answers(r, "table", IdsOf(kept[r]) \o IdsOf(Result(loop[r])))
    /\ UNCHANGED <<conv, tableVars, own, stamp, loopVars, hiddenAt>>

(* IsGroupMemberAllowedToSeeMessage finds no row, and an error keeps the    *)
(* message.                                                                 *)
AnswerGroup(r) ==
    /\ ask[r].to = Group
    /\ Goes(r, "query", "ok")
    /\ \E n \in 0..Limit :
        /\ IsPage(Group, ask[r].before, n)
        /\ Answers(r, "table", [x \in 1..n |-> rows[Group][x].id])
    /\ UNCHANGED <<conv, tableVars, own, stamp, loopVars, hiddenAt>>

(* Any statement may fail; what was committed stays.                        *)
Fail(r) ==
    /\ \/ \E from \in {"start", "half", "query"} : Goes(r, from, "error")
       \/ Goes(r, "own", "error") /\ ~Looking(loop[r])
    /\ UNCHANGED <<conv, tableVars, own, stamp, readVars>>
-----------------------------------------------------------------------------
Next ==
    \E r \in Reqs :
        \/ CreateMessage(r) \/ CacheMessage(r)
        \/ DeleteOwn(r) \/ DeleteForReceiver(r) \/ DeleteReceived(r) \/ DeleteNothing(r)
        \/ Uncache(r)
        \/ ForgetSent(r) \/ ForgetReceived(r)
        \/ RemoveUser(r)
        \/ LookInCache(r)
        \/ QueryOwn(r) \/ Filter(r) \/ QueryPeer(r) \/ AnswerConversation(r)
        \/ AnswerGroup(r)
        \/ Fail(r)

Spec == Init /\ [][Next]_vars
-----------------------------------------------------------------------------
IdSet(items) == {items[x].id : x \in DOMAIN items}

(* slices.Delete over a range that keeps its first length skips the message *)
(* behind each one it cuts, and frees places behind the new end.  Still a   *)
(* loop that ends has kept exactly the messages of the query that may be    *)
(* seen: a zero message in a freed place ends every other one.              *)
FilterIsExact ==
    \A r \in Reqs : at[r] \in {"own", "peer"} /\ ~Looking(loop[r]) =>
        IdSet(Result(loop[r])) =
            {queried[r][x].id : x \in {y \in DOMAIN queried[r] : queried[r][y].sees}}

(* What was hidden from a user when the request began is not in an answer   *)
(* from the table, whatever is hidden between its two queries.              *)
HiddenStaysOut ==
    \A r \in Reqs : \A x \in DOMAIN answers[r] : answers[r][x].source = "table" =>
        {answers[r][x].ids[y] : y \in DOMAIN answers[r][x].ids} \cap hiddenAt[r] = {}

(* Who has begun, by now, to hide the messages from one user to another up  *)
(* to some message.                                                         *)
SenderHid(r, a, b, m) ==
    /\ ask[r].by = a /\ m <= stamp[r]
    /\ \/ ask[r].kind = "forget" /\ ask[r].to = b /\ at[r] # "start"
       \/ own[r] = <<a, b>> /\ at[r] \in {"half", "error"}

ReceiverHid(r, a, b) ==
    /\ ask[r].by = b
    /\ \/ ask[r].kind = "forget" /\ ask[r].to = a /\ at[r] = "ok"
       \/ /\ ask[r].kind = "delete" /\ ~ask[r].named
          /\ Holds(<<a, b>>, ask[r].msg) /\ at[r] \in {"hidden", "ok"}

DeletedBefore(r, a, b, m) ==
    own[r] = <<a, b>> /\ at[r] \in {"hidden", "ok"} /\ stamp[r] < m

(* A deletion by the sender hides a message on both sides or on neither;    *)
(* one side alone has a cause: the sender's only while the deletion is      *)
(* between its two statements, when the second failed, or when the sender   *)
(* deleted the conversation; the receiver's only when the receiver deleted  *)
(* the message or the conversation, or when the message was created between *)
(* the two statements of a deletion.                                        *)
HalfHiddenHasCause ==
    \A a, b \in Users : \A x \in DOMAIN rows[<<a, b>>] :
        LET row == rows[<<a, b>>][x]
        IN  /\ ~row.sender /\ row.receiver => \E r \in Reqs : SenderHid(r, a, b, row.id)
            /\ row.sender /\ ~row.receiver =>
                 \E r \in Reqs : ReceiverHid(r, a, b) \/ DeletedBefore(r, a, b, row.id)

Held(k, m) == Holds(k, m) \/ m \in lost[k]

(* The cache holds under a pair only messages the table has for that pair,  *)
(* or had until an account was removed (user.controller.go:218), and under  *)
(* the group only the group's, and those whose request named a receiver and *)
(* the group: the handler stores them for the receiver and caches them for  *)
(* the group.                                                               *)
CachedIsStored ==
    \A k \in Keys : conv[k] # None =>
        \A x \in DOMAIN conv[k] : conv[k][x].at # 0 =>
            \/ Held(k, conv[k][x].at)
            \/ k = Group /\ \E r \in Reqs : /\ ask[r].kind = "send" /\ ask[r].named
                                            /\ stamp[r] = conv[k][x].at

(* A loop panics because of a message hidden before the last of its query,  *)
(* and for no other reason; after such a message no loop ends.              *)
HiddenBeforeLast(items) == \E x \in DOMAIN items : x < Len(items) /\ ~items[x].sees

PanicHasCause ==
    \A r \in Reqs :
        /\ at[r] = "panic" => HiddenBeforeLast(queried[r])
        /\ at[r] \in {"own", "peer"} /\ ~Looking(loop[r]) => ~HiddenBeforeLast(queried[r])

(* Whether a message is, or was, of the conversation a request asks for.    *)
AsksFor(r, m) ==
    Held(KeyOf(ask[r].by, ask[r].to), m) \/ (ask[r].to # Group /\ Held(<<ask[r].to, ask[r].by>>, m))

(* What a request may be answered from the table or from the cache.         *)
Belongs(r, source, m) ==
    IF source = "table"
    THEN AsksFor(r, m) /\ m < ask[r].before
    ELSE \/ m = 0 \/ AsksFor(r, m)
         \/ ask[r].to = Group /\ \E s \in Reqs : ask[s].kind = "send" /\ ask[s].named /\ stamp[s] = m

(* What is answered from the table is of the conversation that was asked    *)
(* for and from before the time that was asked for, no zero message of a    *)
(* place that slices.Delete cleared among it; what is answered from the     *)
(* cache is of that conversation too, but for its zero messages and for     *)
(* messages whose request named a receiver and the group.                   *)
AnswersBelong ==
    \A r \in Reqs : \A x \in DOMAIN answers[r] : \A y \in DOMAIN answers[r][x].ids :
        Belongs(r, answers[r][x].source, answers[r][x].ids[y])

(* LookInCache reads the last message of a list: every list has one.        *)
CachedHasLast == \A k \in Keys : conv[k] # None => Len(conv[k]) >= Window

(* A row goes only with the account of its sender or its receiver; one that *)
(* stays does not change but for its flags, and a flag that was cleared     *)
(* stays so.                                                                *)
Keeps(old, new) ==
    /\ new.id = old.id /\ new.from = old.from
    /\ new.sender => old.sender
    /\ new.receiver => old.receiver

Grows ==
    /\ last <= last' /\ accounts' \subseteq accounts
    /\ \A k \in Keys : \A x \in DOMAIN rows[k] :
        \/ ~Among(k, rows[k][x], accounts')
        \/ \E y \in DOMAIN rows'[k] : Keeps(rows[k][x], rows'[k][y])

(* What was hidden from a user is not shown to them again by any handler,   *)
(* and no message is lost but with an account.                              *)
HiddenForGood == [][Grows]_vars

(* The handlers use the cache by the calls ConversationMap has, and by no   *)
(* other.                                                                   *)
UsesMap == MapSpec

(* message.controller.go:613, "if the IsSenderAllowedToSee = false then     *)
(* message will be excluded from final response body data", and 631: there  *)
(* is a response, so the loops that exclude messages come to an end.        *)
FilterFinishes == \A r \in Reqs : at[r] # "panic"

(* message.controller.go:591, "if messages are not present in cache then    *)
(* hitting database": a request is answered from one of the two.            *)
DatabaseOnlyOnMiss == \A r \in Reqs : Len(answers[r]) <= 1

(* message.controller.go:598, "then message will be excluded from response  *)
(* body": so it is from what the cache has.                                 *)
HiddenNotFromCache ==
    \A r \in Reqs : \A x \in DOMAIN answers[r] :
        {answers[r][x].ids[y] : y \in DOMAIN answers[r][x].ids} \cap hiddenAt[r] = {}

(* message.controller.go:322, "if requesting user is sender of the message  *)
(* then both is_sender_allowed_to_see and is_receiver_allowed_to_see will   *)
(* be marked as false": those of the message, and of no other.              *)
OnlyWhatIsDeleted ==
    \A k \in Keys : \A x \in DOMAIN rows[k] : ~rows[k][x].sender \/ ~rows[k][x].receiver =>
        \/ \E y \in DOMAIN Stored[k] : Stored[k][y] = rows[k][x]
        \/ \E r \in Reqs : \/ ask[r].kind = "forget"
                           \/ ask[r].kind = "delete" /\ ask[r].msg = rows[k][x].id
==============================================================================
