# TerTerChat: models, checks and proofs

TerTerChat is a chat server in Go: a REST API for everything clients ask for, a
TLS server on a second port over which clients are told of events, PostgreSQL
behind both, and a cache of recent messages in memory. This directory models its
components in TLA+, checks the models with TLC and proves their invariants
with TLAPS for every value of the constants. Line numbers refer to
`src/` of the commit beside which this directory is kept.

## 1. The system

| Part | State | Operations | Talks to |
|---|---|---|---|
| TCP server (`servers/socket_server.go`) | per connection: the socket, an unbuffered `stopChan`, three goroutines (`handleTLSConnections`, `readFromConnection`, `writeToConnection`); one accept loop and one goroutine that closes the listener | accept, read the greeting (a phone number), announce, ping every 5 s, read with a deadline, stop one another, close | connection event channel (send), `quit` (receive) |
| Connection event handler (`event_handlers/connection.event_handlers.go`) | the event in its hands | CONNECTED: `go AddUserConnection`; DISCONNECTED: `RemoveUserConnection` in place | notification service |
| Notification service (`internal/services/notification.service.go`) | `connections`, a map from phone number to connection, under a read-write mutex | `AddUserConnection`, `RemoveUserConnection` (with a database call under the mutex), `PushNotification` (under the read lock) | sockets, database |
| Startup and shutdown (`main.go`, `servers/rest_server.go`) | `quit` (one slot), three unbuffered event channels, a wait group | start all parts, wait for a signal, close the channels, wait | every goroutine |
| Message cache (`internal/cache`) | shards of maps from conversation to a slice of messages, shard count, hit and miss counters, a monitor goroutine | `Set`, `Get`, `Update`, `RemoveMessage`, `Remove`, resize every ten seconds | called by the message routes |
| Message routes (`controllers/message.controller.go`) | none of their own: tables `messages`, `group_message_*`, and the cache | create, update, delete, mark received/read (direct and group), list conversations and messages | database, cache, message event channel |
| Message event handler (`event_handlers/message.event_handlers.go`) | one event at a time, buffer and offset | compose the bytes of an event, push them | notification service |
| Group routes (`controllers/group.controller.go`) | tables `groups`, `group_admins`, `users_groups` | create, rename, remove, add and remove members and admins, list | database, group event channel |
| Group event handler (`event_handlers/group.event_handlers.go`) | as the message event handler | compose, push | notification service |
| OTP service (`internal/services/otp.service.go`) | cache of when the code of a number expires, a monitor that drops stale entries | `SendOTP`, `VerifyOTP`, `IsResendAllowed` | Twilio |
| Accounts and tokens (`controllers/authentication.controller.go`, `user.controller.go`, `middlewares/`) | tables `users`, `refresh_token` | register, log in, renew tokens, change account data | OTP service, database |
| Generated database code (`internal/database`), helpers (`utility`) | none | queries, validators, responses | |

### What is hard here

* **Interleaving.** Three goroutines per connection share one unbuffered
  `stopChan`; every REST request is a goroutine; `AddUserConnection` is one of its
  own while `RemoveUserConnection` is not; `PushNotification` walks the map while
  connections come and go; the cache is resized beside its calls.
* **Check, then act.** An admin check and the change it allows, the lookup of
  recipients and the push, the monitor's decision and the resize are separate steps.
* **A loop that changes what it ranges over.** Hidden messages are cut out of a slice with
  `slices.Delete` while `range` keeps the length the slice had before.
* **Rows that go by themselves.** Removing an account deletes its messages, memberships and
  admin rows by cascade (`user.controller.go:217`, `003_messages.sql:5`,
  `005_group_admins.sql:4`, `006_users_groups.sql:3`): beside any request, without an event,
  and without a word to the cache.
* **Ids that are named and not checked.** The body of an edit names a receiver, that of a mark
  as read a sender, that of a deletion a group; none is compared with the row.
* **Two statements for one thing.** A message is hidden from its sender and from its
  receiver, a password changed and its session removed, a code approved by Twilio and
  its entry removed, each in two steps between which other requests run.
* **Restart.** The entries of the OTP service are lost, codes, accounts and sessions are not.
* **Order.** Events leave in the order of the sends, not of the commits; entries and
  removals of the connection map can overtake one another.
* **Partial failure.** Every database call is its own transaction on the request's
  context; a client that hangs up makes all later calls fail, compensations included.
* **Shutdown.** One signal on a channel with many receivers, channels closed while
  others send, and a wait group that waits for goroutines blocked on each other.
* **Boundaries.** Integer division in the load factor, slices of ten zero messages,
  eight-byte phone numbers, hand-kept offsets.

`PROJECT.json` lists each of these at its line ("hazards") with the properties that
cover it.

### What makes each part correct

* TCP server: a dead connection is noticed, reported and closed; nobody is left
  waiting on `stopChan`; a failure touches its own connection only.
* Notification service: a map, entered once per connection, that a push sees at one
  moment.
* Shutdown: a signal ends the process; it ends only when connections are closed.
* Cache: one map whatever the shards do; it holds the latest messages and not the
  removed ones.
* Messages: whoever hears of a message has a part in it, or was named by a request; once,
  and in one order;
  what was stored is answered; what is hidden from a user stays hidden, from one side
  only for a reason; the cache holds what the table holds, or held until an account was removed.
* Groups: changed by admins only; every event tells of a committed change; a group
  keeps an admin unless one is removed or leaves.
* Frames: the three parts of an event can be told apart.
* OTP service: an entry lets one approved check pass. (A check with a status the `switch`
  has no case for, `otp.service.go:222`, passes without an entry and is not counted.)
* Accounts: a session is as old as its password; a removed account has no way back. That a
  number is one account's is the unique column of `001_users.sql`: the model has it as a guard and
  states no property of it.

## 2. Modules

```
Registry  <--- implemented by ---  SocketServer     (INSTANCE ... WITH pending <- adding, seen <- Seen)
   ^                                    ^--- SocketServerProofs, MCSocketServer
   |  EXTENDS
Delivery          <--- DeliveryProofs, MCDelivery

ConversationList  <--- ConversationMap <--- implemented by --- MessageCache
   ^                      ^                     ^--- MessageCacheProofs, MCMessageCache
   |                      |  EXTENDS
ConversationListProofs  Conversations ---> MessageFilter
                          ^--- ConversationsProofs, MCConversations

OtpService  <--- EXTENDS --- Accounts  <--- AccountsProofs, MCAccounts

EventFrames       <--- EventFramesProofs, MCEventFrames
Groups            <--- GroupsProofs, MCGroups
```

### Registry

What the notification service promises about its map: `Announce` (CONNECTED is
taken), `Enter` (`AddUserConnection`), `Leave` (`RemoveUserConnection`). It says
nothing of the order of entries, because each runs in a goroutine of its own. It is
the abstract specification SocketServer implements, and the environment of Delivery.

### SocketServer

State: where each goroutine stands (`acceptor`, `handler`, `reader`, `writer`,
`events`, `closer`, `rest`, `main`), the TCP connections (`net`), the channels
(`channel`, `quit`; the unbuffered ones need no contents), the map (`reg`) and the
goroutines still to enter a connection (`adding`). A send on an unbuffered channel
and the receive that takes it are one step, so "the reader sends on `stopChan` and the
handler receives" is `HandlerStops`, and the same send received by the writer is
`WriterTakesStop`. A goroutine in `emit` is about to send on the event channel; if
main has closed it the send is `...Panics`.

Merged or left out: deadlines are "may time out" (`ReaderReads` stands for a line and
for a timeout); pings that succeed change nothing; `SetupFatal` is `log.Fatalf` in
the keepalive set-up. The greeting is read once, so its bytes are
the connection's key throughout. The wait group's two other members, the
message and group event handlers, end by the close of their channels like the
connection event handler and are not modelled here. The accept loop ends on any
`*net.OpError` of `Accept`, whether the listener was closed or something else went wrong
(`AcceptFails`). Go promises no order among
receivers of a channel: any of them may take a signal.

### ConversationList, ConversationMap, MessageCache

ConversationList is the pure part: what `Set`, `RemoveMessage` and `Update` make of
one conversation's slice. A message is its creation time, which is its identity too, and one
flag for the fields `Update` may change. `make([]Message, 10)` is `Zeros`: ten messages
with the zero time. A message may be removed again and again: the row stays, so nothing stops a
client from repeating a deletion, and each repetition puts ten more zero messages in front.
ConversationMap promises that the cache is one map and each call
one step on one list. MessageCache has shards, the counters and the monitor. A call holds
`resizeMutex` for reading and its shard's mutex throughout and is therefore one step;
`resize` holds `resizeMutex` for writing and is one step; `Check` (the decision) and
`Resize` are two, because the decision is made without a lock. FNV is a constant
function `Hash` from keys to naturals.

`hits` and `misses` are read beside calls without synchronisation: while there are no
hits, a miss counted between the two reads of `misses` turns the quotient into 0, which is
why `LoadFactor` is a set.

### Delivery

A request goes `none → start → stored → send → sent → ok`, or to `error` from the
two places where database calls are made. What a request asks for is a record: the kind
of event and who asks (`by`); of the row of the message its `sender`, its `receiver` if there is
one and whether it is of the group (`inGroup`); of the body the user it names (`named`:
`receiver_id` of a new message or an edit, `sender_id` of a mark) and whether it names the group
(`group`). The code never compares the two, and neither does the model: they agree for a
new message only, whose row is written from the body (`WellFormed`). `CanWrite` and `CanAddress`
keep requests from going where the code
cannot: `UpdateMessage` compares `group_id` with NULL for a direct message,
`MarkMessageReceived` and `MarkGroupMessageRead` name columns the tables lack, and the
deletion of one's own group message looks up a receiver it does not have. `Recipients` looks up
the named user where the code does, the row's for a deletion alone, and
has the precedence of the lookups: a later one replaces an earlier one. The handler
takes an event (`Emit`), takes the read lock (`StartPush`), writes number by number
(`WriteTo`, in any order, since a query's rows have none) and releases it (`EndPush`).
A number without a connection is `WriteToNil`, which ends the process.

Who is told is stated in two parts: a `Party` has a part in the message by its row; `Named` are the
outsiders a body brings in: whoever an edit or a mark as read names, and the members of a group
named in the deletion of a message that is not of that group and not the asker's. The removal of an
account is a change of members here (`ChangeMembers`) and makes lookups fail (`Fail`).

The statements of one handler are one step `Write`: what the properties say does not
depend on where between them another request ran, and a failure in between leads to the
same `error`. Group events use the same map and read lock; they are not in this model.

### EventFrames

The buffer, the running offset and the three copies, byte by byte; a byte is named
by its origin (name, separator, struct, or zero). `Moves` is the difference of the branch of
GROUP_MESSAGE_RECEIVED; `Push` is the difference of the group event handler.

### Groups

A request goes `start → checked → changed → addressed → ok` or to `error`; creation goes
`start → created → ok`, or `→ undo → error`. A reply that is lost behind a commit leaves the change
and an error: a created group without an admin, an admin row that is undone with its
group, a group removed. `RemoveAccount` is the cascade of `RemoveUser`: the rows of an account
in all three tables go, at any moment, with no request and no event of this module. `HangUp` cancels the request's context, after
which its database calls fail. Foreign keys are kept: rows go with their group, a
message that refers to a group forbids its deletion, and a row about a deleted group or a
removed account is refused. `changes` and `told` are histories: the order of commits and the order in which
events were taken.

### MessageFilter, Conversations

MessageFilter is the loop of `HandleGetConversation` over the result of a query: the
array, the length of the slice in it, and the index. `Cut` is `slices.Delete` (shift,
clear the freed place, shorten), `OutOfRange` its bounds check.

Conversations is everything that writes, hides and reads messages: the table with its two
visibility flags per row, the cache (as ConversationMap, which MessageCache is proved to
implement) and the handlers `HandleCreateNewMessage`, `HandleDeleteMessage`,
`HandleDeleteConversation`, `HandleGetConversation` and `HandleGetAllGroupMessages`, each
statement and each pass of a loop a step; and `RemoveUser`, by which the rows of an account
go from `accounts` and `rows` and nothing from the cache. `own` is the conversation in which a request
deletes its user's message, read with the row; `lost` is a history of the messages whose
rows went with an account. Particulars taken from the code:

* the statements that hide name a sender and a receiver and no message: deleting one
  message hides what the two have written so far in that direction;
* the key of the cache and the receiver of the row are computed apart: with a receiver and
  a group named, the row is the receiver's and the cached copy the group's;
* that key has the ids as the request writes them, while readers and removers write them as
  `UUID.String()` does: `plain` says whether the two agree, and if not the copy is under a
  key nobody looks up;
* the copies in the cache have both flags set for ever, so the loops over a cached list cut
  nothing and are not steps of the model;
* `IsPage` is the query's ten rows *in ascending order*, the oldest ones;
* nothing writes to `group_message_receivers`: rows of a group are never hidden, and
  the loop of `HandleGetAllGroupMessages` keeps everything;
* a handler that found its conversation in the cache answers and goes on to the table.

A row is its time and its flags. Texts, the columns `received` and `read` and the receipts of
group members are left out.

### OtpService, Accounts

OtpService has one operator per step of the service: Twilio's code and the entry that
says when it expires are two pieces of state, changed in two steps. `VerifyOTP` has the
four ways of the code: approved and an entry to remove; approved and none (`Fail`);
failed, with the entry removed if it had expired; expired or not found, with the entry
removed; and any other status, which the `switch` has no case for, so that the check
passes. Twilio is external: a code is pending until it is approved or lapses.

Accounts are numbers, password versions and sessions. A request goes
`start → admitted → begun → ... → ok` (without `admitted` where no token is asked for), with the
places named after what it has learnt
(`approved`, `verified`, `free`, `compared`, `lacks`, `changed`); `left` is a change whose
second statement did not come. `Admit` is the middleware, a step of its own before the
handler's first statement, `HandsOut` the answer that
carries a renewed access token. `Restart` ends the requests under way where they stand and
empties the OTP cache. A login that finds an expired session keeps it (`KeepSession`):
the handler replaces a session only at the instant it expires. Names are left out: they
have no part in any guard but the validators'.

## 3. Runs

Passing:

| Run | Instance | Shows |
|---|---|---|
| `socket` | 2 connections of one client, 2 signals, symmetric | types; no handler is stranded on `stopChan`; main returns only when connections are closed; closed connections were reported; a dead connection stays registered only if its removal overtook its entry; the map implements Registry; nobody waits for good on an unbuffered channel, and after `close(quit)` everything main waits for goes on |
| `socket_liveness` | 1 connection, 2 signals, fair | a lost peer's connection is closed in the end; once `quit` is closed the process ends |
| `cache` | 2 conversations, 3 messages, 4 to 10 shards, lists of ten, fair monitor | shards, resizing and calls together are one map; lists never get short, and are not bounded by the window; which messages are cached; after a hit and a miss the cache shrinks to `minShards` |
| `delivery` | 3 connections of 2 users, 2 requests of 4 shapes, symmetric | whoever is told has a part in the message or was named; at most once, in one order for all; a push sees one map |
| `delivery_liveness` | 1 connection, 2 requests of 6 shapes, fair | stored requests are answered; events taken are pushed |
| `frames` | 11 events, names of 3 lengths, structs of 0 to 5 bytes | no copy is cut short and frames split |
| `groups` | 3 requests of 11 shapes, 2 users, 1 group and 1 to be created, symmetric | changes by (former) admins; events of committed changes, once; how a group loses its admins; the last change of a row, and whether its account is there, decide whether it is there |
| `conversations` | 3 requests of 15 shapes, 2 users, 1 group, 5 stored messages, symmetric | a loop that ends kept the visible messages; what was hidden stays hidden from the answer; what is visible on one side has a cause; what the cache may hold while rows are created, hidden and lost with accounts |
| `accounts` | 3 requests of 9 shapes, 1 account and 1 to be registered, 2 numbers, 1 restart, symmetric | one approved check for an entry; sessions follow passwords, with their two exceptions; a removed account has no way back |

Runs that find a disagreement of the code with its own comments, one property each
(the quoted lines are in `PROJECT.json`, "findings"):

| Run | Found |
|---|---|
| `socket_stale_removal` | DISCONNECTED of an old connection unregisters the client's new one |
| `delivery_offline` | an event for a user who is not connected ends the process |
| `conversations_filter` | the loop that leaves hidden messages out reaches a cleared place and deletes beyond the end of the slice, which panics |

Further configurations, kept for reference, each of which TLC finds violated
(`tlc -config <cfg> <MC module>`; with `-continue` where a configuration has more than one property):

| Configuration | Property | Found |
|---|---|---|
| `SocketStalePartner.cfg` | `StopReachesPartner` | the handler takes the stop meant for the partner goroutine, which then blocks for ever |
| `SocketSignalTaken.cfg` | `SignalStopsServer` | the signal goes to another goroutine and main waits on |
| `SocketSendAfterClose.cfg` | `NoSendAfterClose` | a goroutine sends on the event channel after main closed it |
| `CacheRemove.cfg` | `RemovedIsGone` | a removed message stays cached |
| `CacheMissRate.cfg` | `ScalesByMissRate` | the cache scales down at a miss rate above 20% |
| `CacheDisagree.cfg` | `HitIsOldEnough` | Get reports a hit for a time before the cached message |
| | `KeepsLength` | a full list grows instead of losing its oldest message |
| | `UpdateTakesEffect` | an update changes nothing |
| `DeliveryGaps.cfg` | `FoundIsTheUsers` | a number longer than eight bytes is entered under another key |
| | `ReadGoesToSender` | whoever the body calls the sender is told that a message was read, and not who wrote it |
| `ConversationsGaps.cfg` | `DatabaseOnlyOnMiss` | a request is answered from the cache and from the table |
| | `HiddenNotFromCache` | a cached answer has what was hidden from the reader |
| | `OnlyWhatIsDeleted` | deleting one message hides the ones before it too |
| `AccountsLoginAgain.cfg` | `LoginRenews` | after a login the session is still the expired one |
| `AccountsFreshEntry.cfg` | `FreshEntriesStay` | a failed check removes an entry that was set anew since it looked |
| `FramesGaps.cfg` | `ReceivedIsFramed` | GROUP_MESSAGE_RECEIVED is copied over itself |
| | `GroupEventsAreFramed` | group events are pushed without name and separator |
| `GroupsCreate.cfg` | `CreatedHasAdmin` | a group without an admin after a failed creation |
| `GroupsOrder.cfg` | `FollowingGivesMembers` | events in another order than the changes they tell of |

Configurations that pass and are kept beside the runs; the theorems of section 4 state all of
their properties but `StaleEntriesGo` and `RunsMeansEnabled`:

| Configuration | Instance | Shows |
|---|---|---|
| `SocketGuards.cfg` | as `socket` | `RunsMeansEnabled`: the guards `NobodyStuck` speaks of are those under which the steps are enabled; `NeverReturns` |
| `CacheMore.cfg` | as `cache` | `OrderedHitIsOldEnough`: Get is right when messages come in order |
| `DeliveryEvents.cfg` | 1 request of all 14 shapes, 3 users | each lookup and refusal, outsiders named by a body among them; `OutsidersAreNamed`, `OutsiderKeysAreNamed`, `ErrorIsSilent`, `CrashHasCause`, `UsesRegistry`, `NeverReturns` |
| `ConversationsMore.cfg` | as `conversations` | `PanicHasCause`, `AnswersBelong`, `CachedHasLast`, `HiddenForGood`, `UsesMap` |
| `AccountsMore.cfg` | as `accounts`, not symmetric | `UsesOtpService`: the handlers take steps of the OTP service only |
| `AccountsLiveness.cfg` | 2 requests, fair monitor | `StaleEntriesGo`: the monitor drops every expired entry |

`OthersAreNot` in `FramesGaps.cfg` holds: group events and GROUP_MESSAGE_RECEIVED are not framed
by any lengths.

### Bounds, and why they are enough

* TCP server: two connections of one client are the case in which one can hurt the
  other; the proofs cover any number of connections and clients. Each connection identity
  is used once. Two signals: one that is lost to another receiver and one that reaches
  main, or one after `close(quit)`. The liveness run has one connection and all the places
  at which a signal or the loss of the peer can find it.
* Cache: the two keys share a shard among four and among eight shards and not among
  five or ten, so resizes separate and join them. Between `MinShards` 4 and `MaxShards` 10
  the count doubles, is halved, and is clamped at either end. `Window` is the code's ten;
  three messages reach every position (first, middle, last). `MaxGets` bounds the counters,
  `MaxLength` what repeated removals make of a list.
* Delivery: two requests are enough for an order and for "at most once"; three
  connections of two users let one user reconnect during a push. The four shapes of the run
  have several recipients, one who is the sender, one whom the body names and who need not have joined, and none;
  `DeliveryEvents.cfg` reaches each lookup and each refusal with one request.
* Groups: three requests are enough for "check, other change, change"; ids of groups
  are two, one there and one to be created.
* Conversations: three requests are enough for "first statement, other request, second
  statement" with a reader beside both. The table at the start is reached by
  earlier requests: Ben's third message was being stored when he deleted his
  second, so only the second is hidden, which is how a page gets a hidden message that is
  neither its only nor its last one's neighbour. `Limit` 3 and `Window` 2 (ten in the code) are
  small enough for a page to be full and a list to wrap.
* Accounts: one account, one to be registered and two numbers let a registration, a change of
  number and another registration meet on a number; three requests are enough for
  a login across a change of password beside a third that cuts in. One restart falls
  between any two steps.
* Frames: lengths are in proportion to the real names; only sums and offsets matter.

Deadlock checking is off where the system may rightly stop: every connection closed
and every request answered, or the process ended. EventFrames never stops and is checked.

### Fairness

* SocketServer: weak fairness for each goroutine that can run and for each pending
  channel operation; strong fairness for the failure of a read from a peer that has left
  (a reader polls again and again, and a keepalive or end of file reaches it in the end).
  A `select` with several ready cases is one weakly fair disjunction: it picks at random.
  Nobody is obliged to connect, leave or send a signal.
* MessageCache: the ticker fires, and a resize gets its lock.
* Accounts (`AccountsLiveness.cfg` only): the monitor's ticker fires; no request is obliged
  to go on.
* Delivery: database calls end, and the event handler runs, because its writes have
  the deadline the heartbeat sets. Sending on the event channel is strongly fair, since
  Go serves waiting senders in turn.

## 4. Theorems

All are proved by `tlapm` without unproved leaves, for every value of the constants
allowed by the modules' assumptions (which say what a key, a hash or a request is, that
`None` is no connection, and that windows and bounds are positive). Every invariant
and every action property of the passing runs is the subject of one; liveness is not. Four
kinds of theorem go beyond single invariants:

* *Refinement.* SocketServer implements Registry, MessageCache implements ConversationMap.
* *Composition.* The components that stand on such a specification use it by its steps alone:
  `RegistryUsed` (Delivery), `CacheUsed` (Conversations), `OtpServiceUsed` (Accounts). So what
  is proved of the specification in itself holds in them: `RegistryForgets` gives
  `OldConnectionsStayOut`, `MapKeepsLists` gives `ReaderFindsLast`, and `ServiceOncePerEntry` is
  `OncePerEntry` without the handlers.
* *The defects, exactly.* What TLC finds violated on an instance has a cause that is proved
  to be the only one: `PanicCause`, `CrashCause`, `OwnConnectionRemoved`, `OrderedHits`,
  `FollowedInOrder`; or is proved to be so for every instance: `GrowsForEver`, `NeverFramed`.
* *Progress without fairness.* `NeverStuck` states as an invariant that somebody can take a
  step wherever somebody waits.

**SocketServerProofs.** `IInv` adds to the types: the three goroutines of a connection
start together and the socket is closed exactly when the handler is done (`HandlerInv`);
the connection in the accept loop's hands has no handler (`AcceptInv`); whoever is past its
loop has emitted, or took the stop of someone who has, as long as no signal came
(`ReportInv`); and `EntryInv`, which strengthens `RegisteredOnlyIfOvertaken` to the
connections whose `AddUserConnection` has yet to run: without it the entry of an
already reported connection would break the property one step later. From it follow
`TypeCorrect`, `StopPassedOn`, `ClosedReported`, `OvertakenOnly`, `ExitCloses`, the
refinement `Refinement` (each step is a step of Registry or a stutter) and the action
property `NoReturn`. `NeverStuck` adds `ShutdownInv`, how far main has come and what it has closed
by then; ENABLED being out of reach, `NobodyStuck` speaks of the guards (`HandlerRuns`,
`EventsRun`, ...), which `SocketGuards.cfg` compares with ENABLED. `OwnConnectionRemoved` assumes that
no two connections have one number.

**MessageCacheProofs.** `IInv` is the types, `InItsShard`, `DecidesByLatest` and
`ListInv`: a list exists exactly while calls of Set are logged for the key, and it is
*whole* (long enough, and of well-formed entries). `ResizeStep` is the heart of it: because
a key is in its own shard only, the `CHOOSE` of `Rehashed` finds that shard, and `ListOf` is
the same function before and after. `TypeCorrect`, `OneShard`, `LongEnough`
and `Refinement` to ConversationMap follow (and `LatestDecides`, the last-element case of
`AllButFirst`, which `OrderedHits` needs). `AllButFirst` needs more of a
list than its last message: `Fits` says that after one call of Set the message is at most in
the first place and that a list which is not of the first length has lost it, and that from the
second call on there are `Window` zero messages at least in front. So whatever Set drops
from a full list is the first message or a zero one, and `RemovedIsPrefixed` shows that
RemoveMessage only puts zero messages in front. `LogInv` keeps what is removed under one key
from mattering under another. `OrderedHits` uses `AllButFirst`: behind the zero messages the list
ascends as the log does, so its last element is its latest. `GrowsForEver` rests on
`LengthInv`, which follows the length through each call: the second Set doubles the list, every
further one lengthens it, a removal never shortens it.

**DeliveryProofs.** `IInv` says that what was written had been sent (`WrittenWasSent`),
that the event served was sent (`ServesSent`), that before a push nobody has its event
and during it only connections found under numbers already done (`NotYetWritten`,
`WrittenIsDone`), and that recipients were a party of the message, or named, when they were looked up
(`AddressedMayHear`). `TypeCorrect`, `WrittenOnce`, `FoundIsEntered` and `OneMap` hold as they
stand; `OneOrder` (`SameOrder`) rests on `LastIsEvent`: during a push, whoever was written the
event has it last, so appending it elsewhere orders it behind everything the two connections share;
`OutsidersNamed` assumes that a number is entered under itself, which is what
`DeliveryGaps.cfg` shows not to be the case for long ones; `OutsiderKeysNamed` says what is left
without the assumption: the connection was entered under a number of somebody who has a part in the
message or was named. Both say exactly which bodies bring outsiders in; a new message and a deletion by a
party reach parties only.
`SilentErrors` adds `PastIsWritten` (who is past its statements could write), and `CrashCause`
adds `PushesItsOwn` (the numbers still to be written are recipients of the event served).

**EventFramesProofs.** `Composing` says, for each place of the handler, where the offset
stands and which of the three parts are in the buffer. Each copy fits because the length of the
buffer was computed from the same sums; `Framed` is what is left when the last one is done.
For GROUP_MESSAGE_RECEIVED, whose offset stays at the front, `NoneAfterFirst` says that a separator
can only be the first byte, where it cannot end a name: `NeverFramed`.

**GroupsProofs.** `Progress` says that who is past the check was an admin and who is
past the change is in the history; `Fresh`, that nobody but its creator can name a
group before it has an admin, so that the creator's second statement or the compensation finds
the group as it was, but for its creator's account; `Logged`, that the histories hold requests of the right
kind and place. `AdminsChange`, `TellsOnce` and `AdminlessCaused` follow; the last has the removal
of an admin's account among its causes. `LastDecides` adds
`LastInv`, that whoever is an admin without a change was one from the group's beginning, and uses
that nobody changes a group before it has an admin and that an account takes its own rows and no
others; `FollowedInOrder` then says that whoever is
told all changes in the order of the commits knows the members, but for those who have removed their
account since, of which there is no event.

**ConversationsProofs.** The loop over a query's result is in one of three states
(`LoopState`): it has cut nothing; or it has freed the last place of the array and cannot
come to an end without a panic, since the cleared message there has no flag (`EndIsFree`);
or it has cut the last message alone (`LastCut`). `FilterExact` is the first and the third;
`PanicCause` is the second, in which `EndIsFree` keeps that a message before the last one was hidden.
`TableStep` says that ids stay unique, that rows change in their flags only and go only
with the account of their sender or receiver, and that what a conversation held it holds or has
`lost`; `LoseTable` is its case of an account removed, where the rows of the group close ranks.
`HiddenOut` adds that a page has flags for what was hidden when the reader began (`Veiled`, which an
account's removal does not undo), and assumes
`NoSelf`, that nobody asks for a conversation with themselves: there the row hidden from its
sender alone is shown to its receiver. `HalfHidden` assumes `StoredWhole`, a table without
one-sided rows at the start, because their causes would lie before it; it
adds `HalfDeleted`, which says that between the statements of a deletion all rows older
than its first statement are hidden from the sender. `CachedStored` follows from `Placed`: what
is about to be cached is in the table, or was lost with an account. `FoundOwn` keeps that a deletion
hides and removes in a conversation of its own user. `AnswersFit` adds `BelongInv`, that what queries yielded and
the first loop kept is, or was, of the conversation asked for. `HiddenForever` and `CacheUsed` are
about steps: no flag is set again and no row goes but with an account, and the cache changes by
calls of ConversationMap only.

**AccountsProofs.** The invariant is inductive as it stands. `OtpKeeps` proves
`PassedOncePerEntry` of the OTP service alone, in whatever order its steps are called
(`ServiceOncePerEntry`), and `OtpServiceUsed` shows that Accounts takes no others. `RemovedForGood`
rests on the constraint that a session has an account: the login that was under way fails.
`OncePerEntry` counts checks that Twilio approved; one with a status the `switch` does not know
(`CheckOther`) passes beside it.

### Only model-checked

Liveness (`LostPeerIsClosed`, `ShutdownEnds`, `ShrinksAfterHit`, `StoredIsAnswered`,
`TakenIsPushed`, `StaleEntriesGo`) and `RunsMeansEnabled`: fairness and ENABLED
are out of the prover's reach. No model has a recursive definition.

## 5. Not modelled

* Of the message routes: texts, the columns `received` and `read` and the comparison of a group's
  receipts with its members. `MarkMessageReceived` and `MarkGroupMessageRead` name columns
  the tables do not have and always fail, so the code behind them never runs.
  A message's `named` user who does not exist is a lookup that fails.
  `HandleGetAllConversations` runs two queries and changes nothing.
* Of startup and shutdown: the message and group event handlers in the wait group; they
  end by the close of their channels, as the connection event handler does. Environment
  variables, logging and the route table.
* Of the group event handler: its push, which is the one of the message event handler.
* Of the removal of an account: in Delivery it is a change of members and lookups that fail, since
  the properties there are about events and not about rows; and the row of the OTP cache and the connection of its client, which stay.
* Of accounts: names, and that a connection stays entered under its client's old number after
  `UpdatePhonenumber`, which tells nobody; Registry has a fixed number for a connection.
* The middleware's second answer after a renewal: an error body behind an answer that was
  sent; it changes no state.
* The generated database code as such: each query is modelled where it is called, and the
  constraints of `src/sql/schema` where a model has the table.
* Validators, responses, JSON: pure functions; what they let through is part of the guards.
* Delivery stands on Registry, which SocketServer implements, and not on SocketServer itself:
  the composition of the two is in the refinement and not in a run.
