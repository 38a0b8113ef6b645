---------------------------- MODULE MessageCache ----------------------------
(***************************************************************************)
(* The sharded message cache (internal/cache/generic_dynamic_sharded_       *)
(* cache.go): four calls from the REST handlers, and the monitor goroutine  *)
(* that doubles or halves the number of shards.  A call holds resizeMutex   *)
(* for reading and its shard's mutex from beginning to end, resize holds    *)
(* resizeMutex for writing, so each is one step; the monitor decides        *)
(* without a lock, one step earlier.                                        *)
(***************************************************************************)
EXTENDS ConversationList, FiniteSets

CONSTANTS
    Keys,       \* conversations
    None,       \* no list
    Hash,       \* FNV-1a of a key, as a 32-bit number
    MinShards,  \* 4 in main.go
    MaxShards,  \* 16 in main.go
    MaxGets,    \* bound: calls of Get that are counted as hit or miss
    MaxLength   \* bound: from a list of this length no more messages are removed

ASSUME MessageCacheAssumption ==
    /\ Hash \in [Keys -> Nat]
    /\ MinShards \in Nat \ {0} /\ MaxShards \in Nat /\ MinShards <= MaxShards
    /\ MaxGets \in Nat /\ MaxLength \in Nat
    /\ None \notin Seq(Entry)

VARIABLES
    shards,     \* shard number -> key -> list or None
    shardCount,
    hits, misses,
    monitor,    \* monitorAndAdjust: "tick", "resize", "stopped"
    target,     \* number of shards it is about to resize to
    stopChan,   \* "open", "closed" by StopCacheMonitoring
    made,       \* history: messages Set
    log,        \* history: messages Set per key since it was last absent, in order
    removed,    \* history: messages RemoveMessage was called for
    updated     \* history: messages Update was called for

metrics == <<hits, misses>>
monitorVars == <<monitor, target, stopChan>>
history == <<made, log, removed, updated>>
vars == <<shards, shardCount, metrics, monitorVars, history>>

Lists == Seq(Entry) \cup {None}

(* Types; the number of shards stays within its bounds.                    *)
TypeOK ==
    /\ shardCount \in MinShards..MaxShards
    /\ shards \in [0..(shardCount - 1) -> [Keys -> Lists]]
    /\ hits \in 0..MaxGets /\ misses \in 0..MaxGets
    /\ monitor \in {"tick", "resize", "stopped"}
    /\ target \in MinShards..MaxShards
    /\ stopChan \in {"open", "closed"}
    /\ made \subseteq Messages
    /\ log \in [Keys -> Seq(Messages)]
    /\ removed \subseteq Messages
    /\ updated \subseteq Messages

EmptyShards(n) == [i \in 0..(n - 1) |-> [k \in Keys |-> None]]

Init ==
    /\ shardCount = MinShards
    /\ shards = EmptyShards(MinShards)
    /\ hits = 0 /\ misses = 0
    /\ monitor = "tick" /\ target = MinShards /\ stopChan = "open"
    /\ made = {} /\ log = [k \in Keys |-> <<>>]
    /\ removed = {} /\ updated = {}
-----------------------------------------------------------------------------
ShardOf(k, n) == Hash[k] % n

(* The list of a key as getShard finds it.                                 *)
ListOf(k) == shards[ShardOf(k, shardCount)][k]

Store(k, list) == shards' = [shards EXCEPT ![ShardOf(k, shardCount)][k] = list]

Logged(k) == {log[k][i] : i \in 1..Len(log[k])}

(* A created message is Set once, under the key of its conversation;        *)
(* handlers run concurrently, so calls need not come in order of creation.  *)
Set(k, m) ==
    /\ m \notin made
    /\ IF ListOf(k) = None THEN Store(k, FirstList(NewMessage(m)))
                           ELSE Store(k, Inserted(ListOf(k), NewMessage(m)))
    /\ made' = made \cup {m}
    /\ log' = [log EXCEPT ![k] = Append(@, m)]
    /\ UNCHANGED <<shardCount, metrics, monitorVars, removed, updated>>

(* Whether Get returns the list: its last message is not after createdAt.  *)
Hit(k, createdAt) ==
    /\ ListOf(k) # None
    /\ ListOf(k)[Len(ListOf(k))].at <= createdAt

(* Get counts a hit or, for an unknown key only, a miss.                   *)
Get(k, createdAt) ==
    /\ hits + misses < MaxGets
    /\ hits' = hits + (IF Hit(k, createdAt) THEN 1 ELSE 0)
    /\ misses' = misses + (IF ListOf(k) = None THEN 1 ELSE 0)
    /\ UNCHANGED <<shards, shardCount, monitorVars, history>>

(* The delete handler; the message was Set under k before its id was known  *)
(* to any client.  Its row stays, so it may be deleted any number of times. *)
RemoveMessage(k, m) ==
    /\ m \in Logged(k)
    /\ ListOf(k) # None /\ Len(ListOf(k)) < MaxLength
    /\ Store(k, Removed(ListOf(k), m))
    /\ removed' = removed \cup {m}
    /\ UNCHANGED <<shardCount, metrics, monitorVars, made, log, updated>>

Update(k, m) ==
    /\ m \in Logged(k)
    /\ ListOf(k) # None
    /\ Store(k, Updated(ListOf(k), m))
    /\ updated' = updated \cup {m}
    /\ UNCHANGED <<shardCount, metrics, monitorVars, made, log, removed>>

(* Remove, which no handler calls.                                         *)
Remove(k) ==
    /\ ListOf(k) # None
    /\ Store(k, None)
    /\ log' = [log EXCEPT ![k] = <<>>]
    /\ UNCHANGED <<shardCount, metrics, monitorVars, made, removed, updated>>
-----------------------------------------------------------------------------
(* Mutant of Smaller: the bound is forgotten.                              *)
Unbounded(a, b) == a

Smaller(a, b) == IF a < b THEN a ELSE b
Larger(a, b) == IF a > b THEN a ELSE b

(* misses / (hits + misses) divides integers: 1 while there is no hit, else *)
(* 0.  The counters are read one by one beside Get, and a miss counted      *)
(* between the two reads of misses makes it 0 as well.                      *)
LoadFactor == IF hits = 0 THEN {0, 1} ELSE {0}

(* Mutant of Check: floating-point division, a rate of 0.2 and more.       *)
CheckByRate ==
    /\ monitor = "tick"
    /\ misses > 0
    /\ IF 5 * misses >= hits + misses
       THEN shardCount < MaxShards /\ target' = Smaller(shardCount * 2, MaxShards)
       ELSE shardCount > MinShards /\ target' = Larger(shardCount \div 2, MinShards)
    /\ monitor' = "resize"
    /\ UNCHANGED <<shards, shardCount, metrics, stopChan, history>>

(* checkAndResize up to its call of resize.  0.2 lies between the factors.  *)
Check ==
    /\ monitor = "tick"
    /\ misses > 0
    /\ \E loadFactor \in LoadFactor :
        \/ /\ loadFactor = 1 /\ shardCount < MaxShards
           /\ target' = Smaller(shardCount * 2, MaxShards)
        \/ /\ loadFactor = 0 /\ shardCount > MinShards
           /\ target' = Larger(shardCount \div 2, MinShards)
    /\ monitor' = "resize"
    /\ UNCHANGED <<shards, shardCount, metrics, stopChan, history>>

(* Mutant of Rehashed: keys keep the index of their old shard.             *)
NotRehashed(n) ==
    [i \in 0..(n - 1) |->
        IF i < shardCount THEN shards[i] ELSE [k \in Keys |-> None]]

(* Mutant of Rehashed: the new shards stay empty.                          *)
NothingMoved(n) == EmptyShards(n)

(* Every item of every old shard goes to the new shard of its key; of two   *)
(* old shards with the key, the later one would win.                        *)
Rehashed(n) ==
    [i \in 0..(n - 1) |-> [k \in Keys |->
        LET old == {j \in 0..(shardCount - 1) : shards[j][k] # None}
        IN  IF ShardOf(k, n) = i /\ old # {}
            THEN shards[CHOOSE j \in old : \A h \in old : h <= j][k]
            ELSE None]]

Resize ==
    /\ monitor = "resize"
    /\ monitor' = "tick"
    /\ shards' = Rehashed(target) /\ shardCount' = target
    /\ UNCHANGED <<metrics, target, stopChan, history>>

StopCacheMonitoring ==
    /\ stopChan = "open"
    /\ stopChan' = "closed"
    /\ UNCHANGED <<shards, shardCount, metrics, monitor, target, history>>

MonitorStops ==
    /\ monitor = "tick" /\ stopChan = "closed"
    /\ monitor' = "stopped"
    /\ UNCHANGED <<shards, shardCount, metrics, target, stopChan, history>>
-----------------------------------------------------------------------------
Call(k) ==
    \/ \E m \in Messages : Set(k, m) \/ RemoveMessage(k, m) \/ Update(k, m)
    \/ \E createdAt \in Messages : Get(k, createdAt)
    \/ Remove(k)

Monitor == Check \/ Resize \/ StopCacheMonitoring \/ MonitorStops

Next == (\E k \in Keys : Call(k)) \/ Monitor

Spec == Init /\ [][Next]_vars

(* The ticker fires every ten seconds.                                     *)
FairSpec == Spec /\ WF_vars(Check) /\ WF_vars(Resize)
-----------------------------------------------------------------------------
(* Properties                                                              *)

(* Through any interleaving of calls with resizing the cache is one map from *)
(* conversations to lists: resize neither loses nor misplaces a list, and a  *)
(* call that comes just before or after it finds its conversation.           *)
M == INSTANCE ConversationMap WITH conv <- [k \in Keys |-> ListOf(k)]
ImplementsMap == M!MapSpec

(* A key has a list in the shard of its hash and in no other.                *)
InItsShard ==
    \A i \in 0..(shardCount - 1), k \in Keys : shards[i][k] # None => i = ShardOf(k, shardCount)

(* Get reads items[len(items)-1] without looking at the length: no sequence  *)
(* of Set and RemoveMessage leaves a key with fewer than ten entries.        *)
NeverShort == \A k \in Keys : ListOf(k) # None => Len(ListOf(k)) >= Window

(* The list is zero messages, and behind them the messages of these times.   *)
EndsWith(list, times) ==
    LET n == Len(list) - Len(times)
    IN  /\ n >= 0
        /\ \A i \in 1..n : list[i].at = 0
        /\ \A i \in 1..Len(times) : list[n + i].at = times[i]

(* What is cached of a conversation: its only message, unless it was         *)
(* deleted, and from the second on all but the first, in the order of the    *)
(* calls and each once, whatever was deleted or updated since.               *)
CachesAllButFirst ==
    \A k \in Keys : ListOf(k) # None =>
        IF Len(log[k]) > 1 THEN EndsWith(ListOf(k), Tail(log[k]))
        ELSE \A i \in 1..Len(ListOf(k)) :
               ListOf(k)[i].at = IF i = 1 /\ log[k][1] \notin removed THEN log[k][1] ELSE 0

(* From the second Set on Get decides by the message Set last: deletions and *)
(* the zero messages in front do not change it.                              *)
DecidesByLatest ==
    \A k \in Keys : ListOf(k) # None /\ Len(log[k]) > 1 =>
        ListOf(k)[Len(ListOf(k))].at = log[k][Len(log[k])]

Ascending(times) == \A i, j \in DOMAIN times : i < j => times[i] < times[j]

(* A hit has nothing later than was asked for, if two or more messages were  *)
(* Set and the calls came in order of creation: these are the two conditions *)
(* under which the last element says it all.                                 *)
OrderedHitIsOldEnough ==
    \A k \in Keys, createdAt \in Messages :
        Len(log[k]) > 1 /\ Ascending(log[k]) /\ Hit(k, createdAt) =>
            \A i \in 1..Len(ListOf(k)) : ListOf(k)[i].at <= createdAt

(* A list is not cut (generic_dynamic_sharded_cache.go:286): the second      *)
(* message of a conversation doubles it, every further one adds to it, and   *)
(* nothing but Remove takes from it, whatever is deleted, how often, and     *)
(* when.                                                                     *)
GrowsWithMessages ==
    \A k \in Keys : ListOf(k) # None =>
        Len(ListOf(k)) >= IF Len(log[k]) > 1 THEN 2 * Window + Len(log[k]) - 2 ELSE Window

(* One hit and one miss, and a cache that is monitored shrinks to minShards: the *)
(* integer division leaves no way up.                                        *)
ShrinksAfterHit ==
    hits > 0 /\ misses > 0 ~> shardCount = MinShards \/ stopChan = "closed"

(* "if loadFactor is more than 0.2(20%) ... scale up", "if loadFactor is     *)
(* less than 0.2 then ... scale down" (the comment at line 85), the factor   *)
(* being calculated from hits and misses.                                    *)
ScalesByMissRate ==
    [][monitor' = "resize" /\ target' < shardCount => 5 * misses <= hits + misses]_vars

(* "if the createdAt time of latest message is <= createdAt argument then    *)
(* return messages" (line 167): a hit has nothing later than asked for.      *)
HitIsOldEnough ==
    \A k \in Keys, createdAt \in Messages : Hit(k, createdAt) =>
        \A i \in 1..Len(ListOf(k)) : ListOf(k)[i].at <= createdAt

(* "if key already exist then pop out the oldest message and insert the new  *)
(* one" (line 276): the list keeps its length.                               *)
KeepsLength ==
    [][\A k \in Keys : Len(log'[k]) > Len(log[k]) /\ ListOf(k) # None =>
        Len(ListOf(k)') = Len(ListOf(k))]_vars

(* "copy all the elements other than the first one", "... other than last    *)
(* one", "copy elements before index and after index" (line 209): a removed  *)
(* message is gone.                                                          *)
RemovedIsGone ==
    \A k \in Keys : ListOf(k) # None =>
        \A i \in 1..Len(ListOf(k)) : ListOf(k)[i].at \notin removed

(* "updating the existing message" (line 243).                               *)
UpdateTakesEffect ==
    \A k \in Keys : ListOf(k) # None =>
        \A i \in 1..Len(ListOf(k)) : ListOf(k)[i].at \in updated => ListOf(k)[i].read
=============================================================================
