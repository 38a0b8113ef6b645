------------------------- MODULE MessageCacheProofs -------------------------
(* Theorems about MessageCache, for every set of keys and messages, every   *)
(* hash, every bound on the shards and every length of a new list.          *)
EXTENDS MessageCache, ConversationListProofs

-----------------------------------------------------------------------------
(* Shards                                                                  *)

(* getShard yields the index of a shard, whatever the number of shards.    *)
LEMMA ShardInRange ==
  ASSUME NEW k \in Keys, NEW n \in Nat \ {0}
  PROVE  ShardOf(k, n) \in 0..(n - 1)
  BY MessageCacheAssumption DEF ShardOf

(* There is a shard, now and after the resize that was decided on.         *)
LEMMA CountPositive == TypeOK => shardCount \in Nat \ {0} /\ target \in Nat \ {0}
  BY MessageCacheAssumption DEF TypeOK

(* What a key's shard holds for it is a list or none.                      *)
LEMMA ListType == ASSUME TypeOK, NEW k \in Keys PROVE ListOf(k) \in Lists
  BY ShardInRange, CountPositive DEF ListOf, TypeOK

(* A call changes the list of its own key only, in the shard of its hash.  *)
LEMMA StoreStep ==
  ASSUME TypeOK, InItsShard, NEW k \in Keys, NEW list \in Lists, Store(k, list),
         shardCount' = shardCount
  PROVE  /\ shards' \in [0..(shardCount - 1) -> [Keys -> Lists]]
         /\ InItsShard'
         /\ ListOf(k)' = list
         /\ \A j \in Keys \ {k} : ListOf(j)' = ListOf(j)
  <1>1. \A j \in Keys : ShardOf(j, shardCount) \in 0..(shardCount - 1)
    BY ShardInRange, CountPositive
  <1> QED
    BY <1>1 DEF TypeOK, InItsShard, Store, ListOf, ShardOf

(* Resizing leaves every key with its list.                                *)
LEMMA ResizeStep ==
  ASSUME TypeOK, InItsShard, Resize
  PROVE  /\ shards' \in [0..(target - 1) -> [Keys -> Lists]]
         /\ InItsShard'
         /\ \A k \in Keys : ListOf(k)' = ListOf(k)
  <1> DEFINE old(k) == {j \in 0..(shardCount - 1) : shards[j][k] # None}
             at(k) == shards[CHOOSE j \in old(k) : \A h \in old(k) : h <= j][k]
  <1>1. ASSUME NEW k \in Keys
        PROVE  /\ old(k) # {} => at(k) = ListOf(k)
               /\ old(k) = {} => ListOf(k) = None
    <2>1. ShardOf(k, shardCount) \in 0..(shardCount - 1)
      BY ShardInRange, CountPositive
    <2>2. old(k) # {} => old(k) = {ShardOf(k, shardCount)}
      BY <2>1 DEF InItsShard
    <2>3. ShardOf(k, shardCount) \in Nat
      BY <2>1, CountPositive
    <2>4. old(k) # {} =>
            (CHOOSE j \in old(k) : \A h \in old(k) : h <= j) = ShardOf(k, shardCount)
      BY <2>2, <2>3
    <2> QED
      BY <2>1, <2>4 DEF ListOf
  <1>2. shards' = [i \in 0..(target - 1) |->
                     [k \in Keys |-> IF ShardOf(k, target) = i THEN ListOf(k) ELSE None]]
    <2>1. ASSUME NEW k \in Keys, NEW i
          PROVE  (IF ShardOf(k, target) = i /\ old(k) # {} THEN at(k) ELSE None)
                   = (IF ShardOf(k, target) = i THEN ListOf(k) ELSE None)
      BY <1>1
    <2>2. shards' = [i \in 0..(target - 1) |-> [k \in Keys |->
                       IF ShardOf(k, target) = i /\ old(k) # {} THEN at(k) ELSE None]]
      BY DEF Resize, Rehashed
    <2> HIDE DEF old, at
    <2> QED
      BY <2>1, <2>2
  <1>3. \A k \in Keys : ShardOf(k, target) \in 0..(target - 1)
    BY ShardInRange, CountPositive
  <1>4. \A k \in Keys : ListOf(k) \in Lists
    BY ListType
  <1>5. shardCount' = target
    BY DEF Resize
  <1>6. shards' \in [0..(target - 1) -> [Keys -> Lists]]
    BY <1>2, <1>4 DEF Lists
  <1>7. InItsShard'
    BY <1>2, <1>5 DEF InItsShard, ShardOf
  <1>8. \A k \in Keys : ListOf(k)' = ListOf(k)
    <2>1. SUFFICES ASSUME NEW k \in Keys PROVE shards'[ShardOf(k, target)][k] = ListOf(k)
      BY <1>5 DEF ListOf, ShardOf
    <2> QED
      BY <1>2, <1>3
  <1> QED
    BY <1>6, <1>7, <1>8
-----------------------------------------------------------------------------
(* The inductive invariant                                                 *)

(* A key has a list exactly while calls of Set are logged for it, and every *)
(* list is whole.                                                          *)
ListInv ==
    \A k \in Keys :
        /\ ListOf(k) = None <=> log[k] = <<>>
        /\ ListOf(k) # None => Whole(ListOf(k))

IInv == TypeOK /\ InItsShard /\ ListInv /\ DecidesByLatest

(* The invariant holds of the first state.                                 *)
LEMMA InitInv == Init => IInv
  <1> SUFFICES ASSUME Init PROVE IInv
    OBVIOUS
  <1>1. TypeOK
    BY MessageCacheAssumption DEF Init, TypeOK, EmptyShards, Lists
  <1>2. \A k \in Keys : ListOf(k) = None
    BY <1>1, ShardInRange, CountPositive DEF Init, EmptyShards, ListOf
  <1>3. InItsShard
    BY DEF Init, InItsShard, EmptyShards
  <1> QED
    BY <1>1, <1>2, <1>3 DEF IInv, ListInv, DecidesByLatest, Init

(* A call that stores a list for k and leaves the rest as it is keeps IInv *)
(* if the new list fits the new log.                                       *)
LEMMA StoreInv ==
  ASSUME IInv, NEW k \in Keys, NEW list \in Lists, Store(k, list),
         UNCHANGED <<shardCount, metrics, monitorVars>>,
         log' \in [Keys -> Seq(Messages)], made' \subseteq Messages,
         removed' \subseteq Messages, updated' \subseteq Messages,
         \A j \in Keys \ {k} : log'[j] = log[j],
         list = None <=> log'[k] = <<>>,
         list # None => Whole(list),
         list # None /\ Len(log'[k]) > 1 => Last(list).at = log'[k][Len(log'[k])]
  PROVE  IInv'
  <1> USE DEF IInv, metrics, monitorVars
  <1>1. /\ shards' \in [0..(shardCount - 1) -> [Keys -> Lists]]
        /\ InItsShard'
        /\ ListOf(k)' = list
        /\ \A j \in Keys \ {k} : ListOf(j)' = ListOf(j)
    BY StoreStep
  <1>2. TypeOK'
    BY <1>1 DEF TypeOK
  <1>3. ListInv'
    BY <1>1 DEF ListInv
  <1>4. DecidesByLatest'
    BY <1>1 DEF DecidesByLatest, Last
  <1> QED
    BY <1>1, <1>2, <1>3, <1>4

(* Set keeps the invariant.                                                *)
LEMMA SetInv ==
  ASSUME IInv, NEW k \in Keys, NEW m \in Messages, Set(k, m)
  PROVE  IInv'
  <1> DEFINE e == NewMessage(m)
             list == IF ListOf(k) = None THEN FirstList(e) ELSE Inserted(ListOf(k), e)
  <1>1. e \in Entry /\ e.at = m
    BY DEF NewMessage, Entry
  <1>2. Whole(list) /\ (ListOf(k) # None => Last(list) = e)
    BY <1>1, FirstListWhole, InsertedWhole DEF IInv, ListInv
  <1>3. list \in Lists /\ list # None
    BY <1>2, MessageCacheAssumption DEF Whole, Lists
  <1>4. Store(k, list)
    BY DEF Set
  <1>5. log[k] \in Seq(Messages) /\ (ListOf(k) = None <=> log[k] = <<>>)
    BY DEF IInv, TypeOK, ListInv
  <1>6. log' = [log EXCEPT ![k] = Append(log[k], m)] /\ log \in [Keys -> Seq(Messages)]
    BY DEF Set, IInv, TypeOK
  <1>7. /\ log'[k] = Append(log[k], m)
        /\ Append(log[k], m) \in Seq(Messages)
        /\ Len(Append(log[k], m)) = Len(log[k]) + 1
        /\ Append(log[k], m)[Len(log[k]) + 1] = m
    BY <1>5, <1>6
  <1>8. log' \in [Keys -> Seq(Messages)] /\ \A j \in Keys \ {k} : log'[j] = log[j]
    BY <1>6, <1>7
  <1>9. made' \subseteq Messages /\ UNCHANGED <<shardCount, metrics, monitorVars, removed, updated>>
    BY DEF Set, IInv, TypeOK
  <1>10. removed' \subseteq Messages /\ updated' \subseteq Messages
    BY <1>9 DEF IInv, TypeOK
  <1>11. log'[k] # <<>> /\ (Len(log'[k]) > 1 => Last(list).at = log'[k][Len(log'[k])])
    <2>1. Len(log[k]) \in Nat /\ (ListOf(k) = None => Len(log[k]) = 0)
      BY <1>5
    <2> HIDE DEF list, e
    <2> QED
      BY <2>1, <1>1, <1>2, <1>7
  <1> HIDE DEF list, e
  <1> QED
    BY <1>2, <1>3, <1>4, <1>8, <1>9, <1>10, <1>11, StoreInv

(* RemoveMessage keeps the invariant.                                      *)
LEMMA RemoveMessageInv ==
  ASSUME IInv, NEW k \in Keys, NEW m \in Messages, RemoveMessage(k, m)
  PROVE  IInv'
  <1> DEFINE list == Removed(ListOf(k), m)
  <1>1. Whole(list) /\ Last(list) = Last(ListOf(k))
    BY RemovedWhole DEF RemoveMessage, IInv, ListInv
  <1>2. list \in Lists /\ list # None
    BY <1>1, MessageCacheAssumption DEF Whole, Lists
  <1>3. Store(k, list) /\ ListOf(k) # None /\ removed' \subseteq Messages
    BY DEF RemoveMessage, IInv, TypeOK
  <1>4. UNCHANGED <<shardCount, metrics, monitorVars, made, log, updated>>
    BY DEF RemoveMessage
  <1>5. /\ log[k] # <<>> /\ log \in [Keys -> Seq(Messages)]
        /\ made \subseteq Messages /\ updated \subseteq Messages
        /\ Len(log[k]) > 1 => Last(ListOf(k)).at = log[k][Len(log[k])]
    BY <1>3 DEF IInv, ListInv, DecidesByLatest, Last, TypeOK
  <1> HIDE DEF list
  <1> QED
    BY <1>1, <1>2, <1>3, <1>4, <1>5, StoreInv

(* Update keeps the invariant.                                             *)
LEMMA UpdateInv ==
  ASSUME IInv, NEW k \in Keys, NEW m \in Messages, Update(k, m)
  PROVE  IInv'
  <1>1. Store(k, ListOf(k)) /\ ListOf(k) # None /\ updated' \subseteq Messages
    BY DEF Update, Updated, IInv, TypeOK
  <1>2. UNCHANGED <<shardCount, metrics, monitorVars, made, log, removed>>
    BY DEF Update
  <1>3. /\ log[k] # <<>> /\ log \in [Keys -> Seq(Messages)]
        /\ made \subseteq Messages /\ removed \subseteq Messages
        /\ Whole(ListOf(k)) /\ ListOf(k) \in Lists
        /\ Len(log[k]) > 1 => Last(ListOf(k)).at = log[k][Len(log[k])]
    BY <1>1, ListType DEF IInv, ListInv, DecidesByLatest, Last, TypeOK
  <1> QED
    BY <1>1, <1>2, <1>3, StoreInv

(* Remove keeps the invariant.                                             *)
LEMMA RemoveInv ==
  ASSUME IInv, NEW k \in Keys, Remove(k)
  PROVE  IInv'
  <1>1. Store(k, None) /\ log' = [log EXCEPT ![k] = <<>>]
        /\ UNCHANGED <<shardCount, metrics, monitorVars, made, removed, updated>>
    BY DEF Remove
  <1>2. log' \in [Keys -> Seq(Messages)] /\ log'[k] = <<>>
        /\ \A j \in Keys \ {k} : log'[j] = log[j]
    BY <1>1 DEF IInv, TypeOK
  <1>3. made \subseteq Messages /\ removed \subseteq Messages /\ updated \subseteq Messages
        /\ None \in Lists
    BY DEF IInv, TypeOK, Lists
  <1> QED
    BY <1>1, <1>2, <1>3, StoreInv

(* Steps that leave the lists alone: Get and the monitor.                  *)
LEMMA SameListsInv ==
  ASSUME IInv, UNCHANGED <<shards, shardCount, log>>, TypeOK'
  PROVE  IInv'
  BY DEF IInv, InItsShard, ListInv, DecidesByLatest, ListOf, ShardOf

(* Resizing keeps the invariant.                                           *)
LEMMA ResizeInv ==
  ASSUME IInv, Resize
  PROVE  IInv'
  <1>1. /\ shards' \in [0..(target - 1) -> [Keys -> Lists]]
        /\ InItsShard'
        /\ \A k \in Keys : ListOf(k)' = ListOf(k)
    BY ResizeStep DEF IInv
  <1>2. TypeOK'
    BY <1>1 DEF Resize, IInv, TypeOK, history, metrics
  <1> QED
    BY <1>1, <1>2 DEF Resize, IInv, ListInv, DecidesByLatest, history

(* Every step keeps the invariant.                                         *)
LEMMA NextInv == IInv /\ [Next]_vars => IInv'
  <1> SUFFICES ASSUME IInv, [Next]_vars PROVE IInv'
    OBVIOUS
  <1> USE DEF metrics, monitorVars, history
  <1>1. ASSUME NEW k \in Keys, NEW t \in Messages, Get(k, t) PROVE IInv'
    <2>1. hits \in Nat /\ misses \in Nat
      BY MessageCacheAssumption DEF IInv, TypeOK
    <2>2. hits' \in {hits, hits + 1} /\ misses' \in {misses, misses + 1}
      BY <1>1, <2>1 DEF Get
    <2>3. hits' \in 0..MaxGets /\ misses' \in 0..MaxGets
      BY <1>1, <2>1, <2>2, MessageCacheAssumption DEF Get
    <2>4. TypeOK'
      BY <1>1, <2>3 DEF Get, IInv, TypeOK
    <2> QED
      BY <1>1, <2>4, SameListsInv DEF Get
  <1>2. CASE Check
    <2>1. target' \in MinShards..MaxShards
      BY <1>2, MessageCacheAssumption DEF Check, LoadFactor, Smaller, Larger, IInv, TypeOK
    <2>2. TypeOK'
      BY <1>2, <2>1 DEF Check, IInv, TypeOK
    <2> QED
      BY <1>2, <2>2, SameListsInv DEF Check
  <1>3. CASE StopCacheMonitoring \/ MonitorStops
    <2>1. TypeOK'
      BY <1>3 DEF StopCacheMonitoring, MonitorStops, IInv, TypeOK
    <2> QED
      BY <1>3, <2>1, SameListsInv DEF StopCacheMonitoring, MonitorStops
  <1>4. CASE UNCHANGED vars
    <2>1. TypeOK'
      BY <1>4 DEF vars, IInv, TypeOK
    <2> QED
      BY <1>4, <2>1, SameListsInv DEF vars
  <1> QED
    BY <1>1, <1>2, <1>3, <1>4, SetInv, RemoveMessageInv, UpdateInv, RemoveInv, ResizeInv
    DEF Next, Call, Monitor

(* The inductive invariant behind the theorems below.                      *)
THEOREM Invariance == Spec => []IInv
  BY InitInv, NextInv, PTL DEF Spec

(* Every variable stays in its set; the number of shards stays within its  *)
(* bounds.                                                                 *)
THEOREM TypeCorrect == Spec => []TypeOK
  BY Invariance, PTL DEF IInv

(* A key is in the shard of its hash and in no other.                      *)
THEOREM OneShard == Spec => []InItsShard
  BY Invariance, PTL DEF IInv

(* No list is ever shorter than ten, so that Get's index is in range.      *)
THEOREM LongEnough == Spec => []NeverShort
  <1>1. IInv => NeverShort
    BY DEF IInv, ListInv, NeverShort, Whole
  <1> QED
    BY <1>1, Invariance, PTL

(* Get decides by the message that was Set last.                           *)
THEOREM LatestDecides == Spec => []DecidesByLatest
  BY Invariance, PTL DEF IInv
-----------------------------------------------------------------------------
(* What is cached of a conversation                                        *)

(* A list with at most its first message real.                             *)
OnlyFirst(list, time) ==
    \A i \in 1..Len(list) : list[i].at = IF i = 1 THEN time ELSE 0

(* How a list fits the calls of Set logged for its key.  It is longer than *)
(* a new one from the second call on, and before it once its message was   *)
(* removed: only a list with a zero message in front is appended to.       *)
Fits(list, times, gone) ==
    /\ Len(times) > 1 => /\ EndsWith(list, Tail(times))
                         /\ Len(list) >= Window + Len(times) - 1
    /\ Len(times) = 1 => /\ OnlyFirst(list, IF times[1] \in gone THEN 0 ELSE times[1])
                         /\ Len(list) = Window \/ times[1] \in gone

ContentInv == \A k \in Keys : ListOf(k) # None => Fits(ListOf(k), log[k], removed)

(* A message is Set under one key, and removed after it was Set.           *)
LogInv ==
    /\ removed \subseteq made
    /\ \A k \in Keys : Logged(k) \subseteq made
    /\ \A j, k \in Keys : j # k => Logged(j) \cap Logged(k) = {}

(* The messages of make([]Message, 10) have the zero time.                 *)
LEMMA ZerosAreZero == \A i \in 1..Window : Zeros[i].at = 0
  BY DEF Zeros, ZeroMessage

(* A list of zero messages ends with none.                                 *)
LEMMA EndsEmpty ==
  ASSUME NEW list \in Seq(Entry), \A i \in 1..Len(list) : list[i].at = 0,
         NEW times, Len(times) = 0
  PROVE  EndsWith(list, times)
  <1>1. Len(list) \in Nat
    OBVIOUS
  <1> QED
    BY <1>1 DEF EndsWith

(* Appending a message appends its time.                                   *)
LEMMA EndsAppended ==
  ASSUME NEW list \in Seq(Entry), NEW times \in Seq(Messages), EndsWith(list, times),
         NEW e \in Entry, NEW m \in Messages, e.at = m
  PROVE  EndsWith(Append(list, e), Append(times, m))
  <1> DEFINE new == Append(list, e)
             both == Append(times, m)
             n == Len(list) - Len(times)
  <1>1. /\ new \in Seq(Entry) /\ Len(new) = Len(list) + 1
        /\ \A i \in 1..Len(list) : new[i] = list[i]
        /\ new[Len(list) + 1] = e
    OBVIOUS
  <1>2. /\ Len(both) = Len(times) + 1
        /\ \A i \in 1..Len(times) : both[i] = times[i]
        /\ both[Len(times) + 1] = m
    OBVIOUS
  <1>3. /\ n \in Nat /\ Len(list) \in Nat /\ Len(times) \in Nat
        /\ \A i \in 1..n : list[i].at = 0
        /\ \A i \in 1..Len(times) : list[n + i].at = times[i]
    BY DEF EndsWith
  <1> HIDE DEF new, both
  <1>4. Len(new) - Len(both) = n
    BY <1>1, <1>2, <1>3
  <1>5. \A i \in 1..n : new[i].at = 0
    BY SMTT(30), <1>1, <1>3
  <1>6. ASSUME NEW i \in 1..Len(both) PROVE new[n + i].at = both[i]
    <2>1. CASE i = Len(times) + 1
      BY <1>1, <1>2, <1>3, <2>1
    <2>2. CASE i # Len(times) + 1
      <3>1. i \in 1..Len(times) /\ n + i \in 1..Len(list)
        BY <1>2, <1>3, <2>2
      <3> QED
        BY <1>1, <1>2, <1>3, <3>1
    <2> QED
      BY <2>1, <2>2
  <1> QED
    BY <1>3, <1>4, <1>5, <1>6 DEF EndsWith, new, both

(* Zero messages in front change nothing of it.                            *)
LEMMA EndsPrefixed ==
  ASSUME NEW list \in Seq(Entry), NEW times \in Seq(Messages), EndsWith(list, times)
  PROVE  EndsWith(Zeros \o list, times)
  <1> DEFINE new == Zeros \o list
             n == Len(list) - Len(times)
  <1>1. /\ Len(new) = Window + Len(list)
        /\ \A i \in 1..Window : new[i].at = 0
        /\ \A i \in 1..Len(list) : new[Window + i] = list[i]
    BY ZerosType, ZerosAreZero
  <1>2. /\ n \in Nat /\ Len(list) \in Nat /\ Len(times) \in Nat /\ Window \in Nat
        /\ \A i \in 1..n : list[i].at = 0
        /\ \A i \in 1..Len(times) : list[n + i].at = times[i]
    BY ConversationListAssumption DEF EndsWith
  <1> HIDE DEF new
  <1>3. Len(new) - Len(times) = Window + n
    BY <1>1, <1>2
  <1>4. ASSUME NEW i \in 1..(Window + n) PROVE new[i].at = 0
    <2>1. CASE i <= Window
      BY <1>1, <1>2, <2>1
    <2>2. CASE i > Window
      <3>1. i - Window \in 1..n /\ i - Window \in 1..Len(list) /\ Window + (i - Window) = i
        BY <1>2, <2>2
      <3>2. new[Window + (i - Window)] = list[i - Window]
        BY <1>1, <3>1
      <3> QED
        BY <1>2, <3>1, <3>2
    <2> QED
      BY <1>2, <2>1, <2>2
  <1>5. ASSUME NEW i \in 1..Len(times) PROVE new[Window + n + i].at = times[i]
    <2>1. n + i \in 1..Len(list) /\ Window + (n + i) = Window + n + i
      BY <1>2
    <2>2. new[Window + (n + i)] = list[n + i]
      BY <1>1, <2>1
    <2> QED
      BY <1>2, <2>1, <2>2
  <1> QED
    BY <1>2, <1>3, <1>4, <1>5 DEF EndsWith, new

(* Lists of the same length with the same messages are the same.           *)
LEMMA SameLists ==
  ASSUME NEW p \in Seq(Entry), NEW q \in Seq(Entry), Len(p) = Len(q),
         \A x \in 1..Len(q) : p[x] = q[x]
  PROVE  p = q
  OBVIOUS

(* RemoveMessage of a message that is not the list's first puts zero       *)
(* messages in front, and removes nothing.                                 *)
LEMMA RemovedIsPrefixed ==
  ASSUME NEW list \in Seq(Entry), NEW m, \E i \in 1..Len(list) : list[i].at = m,
         Position(list, m) # 1
  PROVE  Removed(list, m) = Zeros \o list
  <1> DEFINE i == Position(list, m)
  <1>1. i \in 1..Len(list) /\ i # 1
    BY DEF Position
  <1>2. CASE i = Len(list)
    <2>1. Removed(list, m) = Zeros \o SubSeq(list, 1, i)
      BY <1>1, <1>2 DEF Removed
    <2>2. SubSeq(list, 1, Len(list)) = list
      OBVIOUS
    <2> QED
      BY <1>2, <2>1, <2>2
  <1>3. CASE i # Len(list)
    <2> DEFINE a == SubSeq(list, 1, i)
               b == SubSeq(list, i + 1, Len(list))
    <2>1. Removed(list, m) = Zeros \o a \o b
      BY <1>1, <1>3 DEF Removed
    <2> HIDE DEF i
    <2>2. /\ a \in Seq(Entry) /\ Len(a) = i /\ \A x \in 1..i : a[x] = list[x]
          /\ b \in Seq(Entry) /\ Len(b) = Len(list) - i
          /\ \A x \in 1..(Len(list) - i) : b[x] = list[i + x]
      BY <1>1
    <2> HIDE DEF a, b
    <2>3. /\ a \o b \in Seq(Entry) /\ Len(a \o b) = Len(list)
          /\ \A x \in 1..i : (a \o b)[x] = a[x]
          /\ \A x \in (i + 1)..Len(list) : (a \o b)[x] = b[x - i]
      <3>1. i \in Nat /\ Len(list) \in Nat /\ i <= Len(list)
        BY <1>1
      <3>0. a \in Seq(Entry) /\ b \in Seq(Entry)
        BY <2>2
      <3>2. a \o b \in Seq(Entry) /\ Len(a \o b) = Len(a) + Len(b)
        BY <3>0
      <3>3. ASSUME NEW x \in 1..i PROVE (a \o b)[x] = a[x]
        BY <2>2, <3>1
      <3>4. ASSUME NEW x \in (i + 1)..Len(list) PROVE (a \o b)[x] = b[x - i]
        BY <2>2, <3>1
      <3> QED
        BY <2>2, <3>1, <3>2, <3>3, <3>4
    <2>4. \A x \in 1..Len(list) : (a \o b)[x] = list[x]
      BY <1>1, <2>2, <2>3
    <2>5. a \o b = list
      BY <2>3, <2>4, SameLists
    <2>6. Zeros \o a \o b = Zeros \o (a \o b)
      BY SMTT(30), <2>2, ZerosType
    <2> QED
      BY <2>1, <2>5, <2>6
  <1> QED
    BY <1>2, <1>3

(* The first Set of a conversation.                                        *)
LEMMA FirstFits ==
  ASSUME NEW e \in Entry, NEW m \in Messages, e.at = m, NEW gone, m \notin gone
  PROVE  Fits(FirstList(e), <<m>>, gone)
  <1>1. Len(FirstList(e)) = Window /\ FirstList(e)[1] = e
        /\ \A i \in 2..Window : FirstList(e)[i].at = 0
    BY ConversationListAssumption, ZerosType, ZerosAreZero DEF FirstList
  <1> QED
    BY <1>1, ConversationListAssumption DEF Fits, OnlyFirst

(* Every other Set appends to a list with a zero message in front.         *)
LEMMA InsertedIsAppended ==
  ASSUME NEW list, Whole(list), NEW times \in Seq(Messages), times # <<>>, NEW gone,
         Fits(list, times, gone), NEW e \in Entry
  PROVE  \E short \in Seq(Entry) :
            /\ Inserted(list, e) = Append(short, e)
            /\ EndsWith(short, Tail(times))
            /\ Len(short) >= Window + Len(times) - 1
  <1>0. /\ list \in Seq(Entry) /\ Len(list) \in Nat /\ Len(list) >= Window
        /\ Window \in Nat /\ Window > 1
    BY ConversationListAssumption DEF Whole
  <1>1. Len(times) \in Nat \ {0} /\ Len(Tail(times)) = Len(times) - 1
    OBVIOUS
  <1>2. CASE Len(times) > 1
    <2>1. EndsWith(list, Tail(times)) /\ Len(list) >= Window + Len(times) - 1
      BY <1>2 DEF Fits
    <2>2. Len(list) # Window
      BY <1>0, <1>1, <1>2, <2>1
    <2>3. Inserted(list, e) = Append(list, e)
      BY <2>2 DEF Inserted
    <2> QED
      BY <1>0, <2>1, <2>3
  <1>3. CASE Len(times) = 1
    <2>1. OnlyFirst(list, IF times[1] \in gone THEN 0 ELSE times[1])
          /\ (Len(list) = Window \/ times[1] \in gone)
      BY <1>3 DEF Fits
    <2>2. Len(Tail(times)) = 0
      BY <1>1, <1>3
    <2>3. CASE Len(list) = Window
      <3> DEFINE short == Zeros \o Tail(list)
      <3>1. Tail(list) \in Seq(Entry) /\ Len(Tail(list)) = Window - 1
            /\ \A i \in 1..(Window - 1) : Tail(list)[i] = list[i + 1]
        BY <1>0, <2>3
      <3>2. short \in Seq(Entry) /\ Len(short) = Window + (Window - 1)
        BY <1>0, <3>1, ZerosType
      <3>3. \A i \in 1..Len(short) : short[i].at = 0
        <4>1. ASSUME NEW i \in 1..Window PROVE short[i].at = 0
          <5>1. short[i] = Zeros[i]
            BY <1>0, <3>1, ZerosType
          <5> HIDE DEF short
          <5> QED
            BY <5>1, ZerosAreZero
        <4>2. ASSUME NEW i \in (Window + 1)..(Window + (Window - 1)) PROVE short[i].at = 0
          <5>1. short[i] = Tail(list)[i - Window] /\ i - Window \in 1..(Window - 1)
            BY <1>0, <3>1, ZerosType
          <5> HIDE DEF short
          <5>2. short[i] = list[i - Window + 1] /\ i - Window + 1 \in 2..Len(list)
            BY <1>0, <2>3, <3>1, <5>1
          <5> QED
            BY <1>0, <2>1, <5>2 DEF OnlyFirst
        <4> HIDE DEF short
        <4> QED
          BY <1>0, <3>2, <4>1, <4>2
      <3>4. Inserted(list, e) = Append(short, e)
        <4>1. Inserted(list, e) = short \o <<e>>
          BY <2>3 DEF Inserted
        <4> HIDE DEF short
        <4> QED
          BY <3>2, <4>1
      <3> HIDE DEF short
      <3>5. EndsWith(short, Tail(times))
        BY <2>2, <3>2, <3>3, EndsEmpty
      <3> QED
        BY <1>0, <1>3, <3>2, <3>4, <3>5
    <2>4. CASE Len(list) # Window
      <3>1. \A i \in 1..Len(list) : list[i].at = 0
        BY <2>1, <2>4 DEF OnlyFirst
      <3>2. EndsWith(list, Tail(times))
        BY <1>0, <2>2, <3>1, EndsEmpty
      <3>3. Inserted(list, e) = Append(list, e)
        BY <2>4 DEF Inserted
      <3>4. Len(list) >= Window + Len(times) - 1
        BY <1>0, <1>3
      <3> QED
        BY <1>0, <3>2, <3>3, <3>4
    <2> QED
      BY <2>3, <2>4
  <1> QED
    BY <1>1, <1>2, <1>3

(* The list fits after every other Set.                                    *)
LEMMA InsertedFits ==
  ASSUME NEW list, Whole(list), NEW times \in Seq(Messages), times # <<>>, NEW gone,
         Fits(list, times, gone), NEW e \in Entry, NEW m \in Messages, e.at = m
  PROVE  Fits(Inserted(list, e), Append(times, m), gone)
  <1> DEFINE both == Append(times, m)
             new == Inserted(list, e)
  <1>1. PICK short \in Seq(Entry) : /\ new = Append(short, e)
                                    /\ EndsWith(short, Tail(times))
                                    /\ Len(short) >= Window + Len(times) - 1
    BY InsertedIsAppended
  <1>2. Tail(times) \in Seq(Messages) /\ Len(times) \in Nat \ {0} /\ Len(both) = Len(times) + 1
    OBVIOUS
  <1>3. Tail(both) = Append(Tail(times), m)
    OBVIOUS
  <1>4. EndsWith(new, Tail(both))
    BY <1>1, <1>2, <1>3, EndsAppended
  <1>5. Len(new) = Len(short) + 1 /\ Len(short) \in Nat /\ Window \in Nat
    BY <1>1, ConversationListAssumption
  <1>6. Len(new) >= Window + Len(both) - 1 /\ Len(both) > 1
    BY <1>1, <1>2, <1>5
  <1> HIDE DEF both, new
  <1>7. Fits(new, both, gone)
    BY <1>2, <1>4, <1>6 DEF Fits
  <1> QED
    BY <1>7 DEF both, new

(* RemoveMessage, when several messages were Set.                          *)
LEMMA RemovedOfMany ==
  ASSUME NEW list, Whole(list), NEW times \in Seq(Messages), Len(times) > 1, NEW gone,
         Fits(list, times, gone), NEW m \in Messages
  PROVE  Fits(Removed(list, m), times, gone \cup {m})
  <1>0. /\ list \in Seq(Entry) /\ Len(list) \in Nat /\ Len(list) >= Window
        /\ Window \in Nat /\ Window > 1 /\ m # 0
    BY ConversationListAssumption DEF Whole
  <1>1. times # <<>> /\ Len(times) \in Nat
    OBVIOUS
  <1>2. Tail(times) \in Seq(Messages) /\ Len(Tail(times)) = Len(times) - 1
    BY <1>1
  <1>3. EndsWith(list, Tail(times)) /\ Len(list) >= Window + Len(times) - 1
    BY DEF Fits
  <1>4. SUFFICES EndsWith(Removed(list, m), Tail(times))
                 /\ Len(Removed(list, m)) >= Window + Len(times) - 1
    <2>1. \A n \in Nat : n > 1 => n # 1
      OBVIOUS
    <2>2. Len(times) # 1
      BY <1>1, <2>1, Zenon
    <2> QED
      BY <1>4, <2>2 DEF Fits
  <1>5. CASE ~ \E j \in 1..Len(list) : list[j].at = m
    <2>1. Removed(list, m) = list
      BY <1>5 DEF Removed
    <2> QED
      BY <1>3, <2>1
  <1>6. CASE \E j \in 1..Len(list) : list[j].at = m
    <2>1. list[Position(list, m)].at = m
      BY <1>6 DEF Position
    <2>2. list[1].at = 0
      <3>1. 1 \in 1..(Len(list) - Len(Tail(times)))
        BY <1>0, <1>1, <1>2, <1>3
      <3> QED
        BY <1>3, <3>1 DEF EndsWith
    <2>3. Position(list, m) # 1
      BY <1>0, <2>1, <2>2
    <2>4. Removed(list, m) = Zeros \o list
      BY <1>0, <1>6, <2>3, RemovedIsPrefixed
    <2>5. EndsWith(Zeros \o list, Tail(times))
      BY <1>0, <1>2, <1>3, EndsPrefixed
    <2>6. Len(Zeros \o list) = Window + Len(list)
      BY <1>0, ZerosType
    <2> QED
      BY <1>0, <1>1, <1>3, <2>4, <2>5, <2>6
  <1> QED
    BY <1>5, <1>6

(* RemoveMessage of the only message that was Set.                         *)
LEMMA RemovedOfOne ==
  ASSUME NEW list, Whole(list), NEW times \in Seq(Messages), Len(times) = 1, NEW gone,
         Fits(list, times, gone), NEW m \in Messages, m = times[1], m \notin gone
  PROVE  Fits(Removed(list, m), times, gone \cup {m})
  <1>0. /\ list \in Seq(Entry) /\ Len(list) \in Nat /\ Len(list) >= Window
        /\ Window \in Nat /\ Window > 1 /\ m # 0
    BY ConversationListAssumption DEF Whole
  <1>1. OnlyFirst(list, m)
    BY DEF Fits
  <1>2. 1 \in 1..Len(list) /\ list[1].at = m /\ \A j \in 1..Len(list) : list[j].at = m => j = 1
    BY <1>0, <1>1 DEF OnlyFirst
  <1>3. Position(list, m) = 1
    BY <1>2 DEF Position
  <1>4. Removed(list, m) = Zeros \o Tail(list)
    BY <1>2, <1>3 DEF Removed
  <1> DEFINE new == Zeros \o Tail(list)
  <1>5. Tail(list) \in Seq(Entry) /\ Len(Tail(list)) = Len(list) - 1
        /\ \A j \in 1..(Len(list) - 1) : Tail(list)[j] = list[j + 1]
    BY <1>0
  <1>6. Len(new) = Window + (Len(list) - 1)
    BY <1>0, <1>5, ZerosType
  <1>7. ASSUME NEW j \in 1..Window PROVE new[j].at = 0
    <2>1. new[j] = Zeros[j]
      BY <1>0, <1>5, ZerosType
    <2> HIDE DEF new
    <2> QED
      BY <2>1, ZerosAreZero
  <1>8. ASSUME NEW j \in (Window + 1)..(Window + (Len(list) - 1)) PROVE new[j].at = 0
    <2>1. new[j] = Tail(list)[j - Window] /\ j - Window \in 1..(Len(list) - 1)
      BY <1>0, <1>5, ZerosType
    <2> HIDE DEF new
    <2>2. new[j] = list[j - Window + 1] /\ j - Window + 1 \in 2..Len(list)
      BY <1>0, <1>5, <2>1
    <2> QED
      BY <1>0, <1>1, <2>2 DEF OnlyFirst
  <1> HIDE DEF new
  <1>9. OnlyFirst(new, 0)
    BY <1>0, <1>6, <1>7, <1>8 DEF OnlyFirst
  <1>10. Removed(list, m) = new
    BY <1>4 DEF new
  <1> QED
    BY <1>9, <1>10 DEF Fits

(* RemoveMessage of a conversation's only message, removed before.         *)
LEMMA RemovedAgain ==
  ASSUME NEW list, Whole(list), NEW times \in Seq(Messages), Len(times) = 1, NEW gone,
         Fits(list, times, gone), NEW m \in Messages, m = times[1], m \in gone
  PROVE  Fits(Removed(list, m), times, gone \cup {m})
  <1>1. m # 0 /\ \A j \in 1..Len(list) : list[j].at = 0
    BY ConversationListAssumption DEF Fits, OnlyFirst
  <1>2. Removed(list, m) = list /\ gone \cup {m} = gone
    BY <1>1 DEF Removed
  <1> QED
    BY <1>2

(* RemoveMessage of a message that was Set.                                *)
LEMMA RemovedFits ==
  ASSUME NEW list, Whole(list), NEW times \in Seq(Messages), NEW gone,
         Fits(list, times, gone), NEW m \in Messages,
         \E x \in 1..Len(times) : times[x] = m
  PROVE  Fits(Removed(list, m), times, gone \cup {m})
  <1>1. Len(times) \in Nat /\ Len(times) # 0
    OBVIOUS
  <1>2. Len(times) = 1 => m = times[1]
    OBVIOUS
  <1>3. \A n \in Nat : n # 0 => n = 1 \/ n > 1
    OBVIOUS
  <1>4. Len(times) = 1 \/ Len(times) > 1
    BY <1>1, <1>3, Zenon
  <1> QED
    BY <1>2, <1>4, RemovedOfOne, RemovedAgain, RemovedOfMany

(* RemoveMessage of a message of another conversation.                     *)
LEMMA OthersFit ==
  ASSUME NEW list, NEW times, NEW gone, Fits(list, times, gone),
         NEW m, \A i \in 1..Len(times) : times[i] # m
  PROVE  Fits(list, times, gone \cup {m})
  BY DEF Fits

CachedInv == ContentInv /\ LogInv

(* A message logged for one key is logged for no other.                    *)
LEMMA LoggedApart ==
  ASSUME TypeOK, LogInv, NEW k \in Keys, NEW m \in Logged(k), NEW j \in Keys \ {k}
  PROVE  \A i \in 1..Len(log[j]) : log[j][i] # m
  BY DEF LogInv, Logged

(* A call that stores a list for k, if it fits, keeps what is cached.      *)
LEMMA StoreContent ==
  ASSUME IInv, ContentInv, NEW k \in Keys, NEW list \in Lists, Store(k, list),
         UNCHANGED shardCount,
         \A j \in Keys \ {k} : log'[j] = log[j],
         list # None => Fits(list, log'[k], removed'),
         \A j \in Keys \ {k} : ListOf(j) # None => Fits(ListOf(j), log[j], removed')
  PROVE  ContentInv'
  <1>1. ListOf(k)' = list /\ \A j \in Keys \ {k} : ListOf(j)' = ListOf(j)
    BY StoreStep DEF IInv
  <1>2. ASSUME NEW j \in Keys, ListOf(j)' # None
        PROVE  Fits(ListOf(j)', log'[j], removed')
    BY <1>1, <1>2
  <1> QED
    BY <1>2 DEF ContentInv, Fits, EndsWith, OnlyFirst

(* Set puts the new message into the list of its key.                      *)
LEMMA SetCached ==
  ASSUME IInv, CachedInv, NEW k \in Keys, NEW m \in Messages, Set(k, m)
  PROVE  CachedInv'
  <1> DEFINE e == NewMessage(m)
             list == IF ListOf(k) = None THEN FirstList(e) ELSE Inserted(ListOf(k), e)
  <1>1. e \in Entry /\ e.at = m
    BY DEF NewMessage, Entry
  <1>2. Whole(list)
    BY <1>1, FirstListWhole, InsertedWhole DEF IInv, ListInv
  <1>3. list \in Lists /\ list # None
    BY <1>2, MessageCacheAssumption DEF Whole, Lists
  <1>4. Store(k, list) /\ UNCHANGED <<shardCount, removed>> /\ made' = made \cup {m} /\ m \notin made
    BY DEF Set
  <1>5. log[k] \in Seq(Messages) /\ (ListOf(k) = None <=> log[k] = <<>>)
    BY DEF IInv, TypeOK, ListInv
  <1>6. log' = [log EXCEPT ![k] = Append(log[k], m)] /\ log \in [Keys -> Seq(Messages)]
    BY DEF Set, IInv, TypeOK
  <1>7. log'[k] = Append(log[k], m) /\ \A j \in Keys \ {k} : log'[j] = log[j]
    BY <1>6
  <1>8. Fits(list, log'[k], removed)
    <2>1. CASE ListOf(k) = None
      <3>0. Append(<<>>, m) = <<m>>
        OBVIOUS
      <3>1. log'[k] = <<m>> /\ list = FirstList(e)
        <4>1. log'[k] = Append(<<>>, m)
          BY <1>5, <1>7, <2>1
        <4>2. list = FirstList(e)
          BY <2>1
        <4> HIDE DEF list, e
        <4> QED
          BY <3>0, <4>1, <4>2
      <3>2. m \notin removed
        BY <1>4 DEF CachedInv, LogInv
      <3> HIDE DEF list, e
      <3> QED
        BY <1>1, <3>1, <3>2, FirstFits
    <2>2. CASE ListOf(k) # None
      <3>1. Whole(ListOf(k)) /\ Fits(ListOf(k), log[k], removed) /\ log[k] # <<>>
        BY <1>5, <2>2 DEF IInv, ListInv, CachedInv, ContentInv
      <3>2. list = Inserted(ListOf(k), e)
        BY <2>2
      <3> HIDE DEF list, e
      <3> QED
        BY <1>1, <1>5, <1>7, <3>1, <3>2, InsertedFits
    <2> QED
      BY <2>1, <2>2
  <1>9. \A j \in Keys \ {k} : ListOf(j) # None => Fits(ListOf(j), log[j], removed')
    BY <1>4 DEF CachedInv, ContentInv
  <1>10. ContentInv'
    <2> HIDE DEF list, e
    <2> QED
      BY <1>3, <1>4, <1>7, <1>8, <1>9, StoreContent DEF CachedInv
  <1>11. LogInv'
    <2>1. Logged(k)' = Logged(k) \cup {m}
      <3>1. /\ Len(log'[k]) = Len(log[k]) + 1 /\ Len(log[k]) \in Nat
            /\ \A i \in 1..Len(log[k]) : log'[k][i] = log[k][i]
            /\ log'[k][Len(log[k]) + 1] = m
        BY <1>5, <1>7
      <3>2. \A i \in 1..(Len(log[k]) + 1) : log'[k][i] \in Logged(k) \cup {m}
        <4>1. \A i \in 1..(Len(log[k]) + 1) : i \in 1..Len(log[k]) \/ i = Len(log[k]) + 1
          BY <3>1
        <4>2. \A i \in 1..Len(log[k]) : log[k][i] \in Logged(k)
          BY DEF Logged
        <4>3. ASSUME NEW i \in 1..(Len(log[k]) + 1) PROVE log'[k][i] \in Logged(k) \cup {m}
          <5>1. CASE i \in 1..Len(log[k])
            BY <3>1, <4>2, <5>1
          <5>2. CASE i = Len(log[k]) + 1
            BY <3>1, <5>2
          <5> QED
            BY <4>1, <5>1, <5>2
        <4> QED
          BY <4>3
      <3>3. m \in Logged(k)'
        <4>1. Len(log[k]) + 1 \in 1..Len(log'[k])
          BY <3>1
        <4>2. \A i \in 1..Len(log'[k]) : log'[k][i] \in Logged(k)'
          BY DEF Logged
        <4>3. log'[k][Len(log[k]) + 1] \in Logged(k)'
          BY <4>1, <4>2
        <4> QED
          BY <3>1, <4>3
      <3>4. Logged(k) \subseteq Logged(k)'
        <4>1. \A i \in 1..Len(log[k]) : i \in 1..Len(log'[k])
          BY <3>1
        <4> QED
          BY <3>1, <4>1 DEF Logged
      <3>5. Logged(k)' \subseteq Logged(k) \cup {m}
        BY <3>1, <3>2 DEF Logged
      <3> QED
        BY <3>3, <3>4, <3>5
    <2>2. \A j \in Keys \ {k} : Logged(j)' = Logged(j)
      BY <1>7 DEF Logged
    <2> QED
      BY <1>4, <2>1, <2>2 DEF CachedInv, LogInv
  <1> QED
    BY <1>10, <1>11 DEF CachedInv

(* RemoveMessage takes a message from the list of its key at most.         *)
LEMMA RemoveMessageCached ==
  ASSUME IInv, CachedInv, NEW k \in Keys, NEW m \in Messages, RemoveMessage(k, m)
  PROVE  CachedInv'
  <1> DEFINE list == Removed(ListOf(k), m)
  <1>1. /\ ListOf(k) # None /\ Whole(ListOf(k)) /\ log[k] \in Seq(Messages)
        /\ m \in Logged(k)
        /\ Fits(ListOf(k), log[k], removed)
    BY DEF RemoveMessage, IInv, TypeOK, ListInv, CachedInv, ContentInv
  <1>2. Whole(list)
    BY <1>1, RemovedWhole
  <1>3. list \in Lists
    BY <1>2 DEF Whole, Lists
  <1>4. Store(k, list) /\ removed' = removed \cup {m} /\ UNCHANGED <<shardCount, made, log>>
    BY DEF RemoveMessage
  <1>5. Fits(list, log[k], removed')
    <2>1. \E x \in 1..Len(log[k]) : log[k][x] = m
      BY <1>1 DEF Logged
    <2> HIDE DEF list
    <2>2. Fits(Removed(ListOf(k), m), log[k], removed \cup {m})
      BY <1>1, <2>1, RemovedFits
    <2> QED
      BY <1>4, <2>2 DEF list
  <1>6. ASSUME NEW j \in Keys \ {k}, ListOf(j) # None
        PROVE  Fits(ListOf(j), log[j], removed')
    <2>1. Fits(ListOf(j), log[j], removed)
      BY <1>6 DEF CachedInv, ContentInv
    <2>2. \A i \in 1..Len(log[j]) : log[j][i] # m
      BY <1>1, LoggedApart DEF IInv, CachedInv
    <2>3. Fits(ListOf(j), log[j], removed \cup {m})
      BY <2>1, <2>2, OthersFit
    <2> QED
      BY <1>4, <2>3
  <1> HIDE DEF list
  <1>7. ContentInv'
    BY <1>3, <1>4, <1>5, <1>6, StoreContent DEF CachedInv
  <1>8. LogInv'
    <2>1. \A j \in Keys : Logged(j)' = Logged(j)
      BY <1>4 DEF Logged
    <2>2. m \in made
      BY <1>1 DEF CachedInv, LogInv
    <2> QED
      BY <1>4, <2>1, <2>2 DEF CachedInv, LogInv
  <1> QED
    BY <1>7, <1>8 DEF CachedInv

(* Remove leaves no list.                                                  *)
LEMMA RemoveCached ==
  ASSUME IInv, CachedInv, NEW k \in Keys, Remove(k)
  PROVE  CachedInv'
  <1>1. Store(k, None) /\ log' = [log EXCEPT ![k] = <<>>] /\ UNCHANGED <<shardCount, made, removed>>
    BY DEF Remove
  <1>2. log'[k] = <<>> /\ \A j \in Keys \ {k} : log'[j] = log[j]
    BY <1>1 DEF IInv, TypeOK
  <1>3. None \in Lists
    BY DEF Lists
  <1>4. \A j \in Keys \ {k} : ListOf(j) # None => Fits(ListOf(j), log[j], removed')
    BY <1>1 DEF CachedInv, ContentInv
  <1>5. ContentInv'
    BY <1>1, <1>2, <1>3, <1>4, StoreContent DEF CachedInv
  <1>6. Logged(k)' = {} /\ \A j \in Keys \ {k} : Logged(j)' = Logged(j)
    BY <1>2 DEF Logged
  <1>7. LogInv'
    BY <1>1, <1>6 DEF CachedInv, LogInv
  <1> QED
    BY <1>5, <1>7 DEF CachedInv

(* The other steps leave every list, and what is logged, as they are.      *)
LEMMA SameListsCached ==
  ASSUME CachedInv, \A k \in Keys : ListOf(k)' = ListOf(k), UNCHANGED <<made, log, removed>>
  PROVE  CachedInv'
  <1>1. ASSUME NEW k \in Keys, ListOf(k)' # None PROVE Fits(ListOf(k)', log'[k], removed')
    BY <1>1 DEF CachedInv, ContentInv
  <1>2. ContentInv'
    BY <1>1 DEF ContentInv, Fits, EndsWith, OnlyFirst
  <1>3. \A k \in Keys : Logged(k)' = Logged(k)
    BY DEF Logged
  <1>4. LogInv'
    BY <1>3 DEF CachedInv, LogInv
  <1> QED
    BY <1>2, <1>4 DEF CachedInv

(* Every step keeps what is cached of a conversation.                      *)
LEMMA CachedStep == IInv /\ CachedInv /\ [Next]_vars => CachedInv'
  <1> SUFFICES ASSUME IInv, CachedInv, [Next]_vars PROVE CachedInv'
    OBVIOUS
  <1>1. ASSUME NEW k \in Keys, NEW m \in Messages, Update(k, m) PROVE CachedInv'
    <2>1. Store(k, ListOf(k)) /\ UNCHANGED <<shardCount, made, log, removed>>
      BY <1>1 DEF Update, Updated
    <2>2. \A j \in Keys : ListOf(j)' = ListOf(j)
      BY <2>1, ListType, StoreStep DEF IInv
    <2> QED
      BY <2>1, <2>2, SameListsCached
  <1>2. CASE Resize
    BY <1>2, ResizeStep, SameListsCached DEF IInv, Resize, history
  <1>3. ASSUME NEW k \in Keys, NEW t \in Messages, Get(k, t) PROVE CachedInv'
    <2>1. UNCHANGED <<shards, shardCount, made, log, removed>>
      BY <1>3 DEF Get, history
    <2> QED
      BY <2>1, SameListsCached DEF ListOf, ShardOf
  <1>4. CASE Check \/ StopCacheMonitoring \/ MonitorStops \/ UNCHANGED vars
    <2>1. UNCHANGED <<shards, shardCount, made, log, removed>>
      BY <1>4 DEF Check, StopCacheMonitoring, MonitorStops, vars, history
    <2> QED
      BY <2>1, SameListsCached DEF ListOf, ShardOf
  <1> QED
    BY <1>1, <1>2, <1>3, <1>4, SetCached, RemoveMessageCached, RemoveCached
    DEF Next, Call, Monitor

(* Whatever calls were made in whatever order, resizes between them: of a  *)
(* conversation the cache has its only message unless it was deleted, and  *)
(* from the second on every message but the first, in the order they were  *)
(* Set, with zero messages in front.                                       *)
THEOREM AllButFirst == Spec => []CachesAllButFirst
  <1>1. Init => CachedInv
    <2> SUFFICES ASSUME Init PROVE CachedInv
      OBVIOUS
    <2>1. \A k \in Keys : ListOf(k) = None
      BY InitInv DEF IInv, ListInv, Init
    <2> QED
      BY <2>1 DEF CachedInv, ContentInv, LogInv, Logged, Init
  <1>2. IInv /\ CachedInv => CachesAllButFirst
    <2> SUFFICES ASSUME IInv, CachedInv, NEW k \in Keys, ListOf(k) # None
                 PROVE  IF Len(log[k]) > 1 THEN EndsWith(ListOf(k), Tail(log[k]))
                        ELSE \A i \in 1..Len(ListOf(k)) :
                               ListOf(k)[i].at = IF i = 1 /\ log[k][1] \notin removed
                                                 THEN log[k][1] ELSE 0
      BY DEF CachesAllButFirst
    <2>1. Fits(ListOf(k), log[k], removed) /\ log[k] \in Seq(Messages) /\ log[k] # <<>>
      BY DEF CachedInv, ContentInv, IInv, ListInv, TypeOK
    <2>2. Len(log[k]) \in Nat /\ Len(log[k]) # 0
      BY <2>1
    <2>3. \A n \in Nat : n # 0 => n = 1 \/ n > 1
      OBVIOUS
    <2>4. Len(log[k]) > 1 \/ Len(log[k]) = 1
      BY <2>2, <2>3, Zenon
    <2>5. CASE Len(log[k]) > 1
      BY <2>1, <2>5 DEF Fits
    <2>6. CASE Len(log[k]) = 1
      <3>1. OnlyFirst(ListOf(k), IF log[k][1] \in removed THEN 0 ELSE log[k][1])
        BY <2>1, <2>6 DEF Fits
      <3> QED
        BY <2>6, <3>1 DEF OnlyFirst
    <2> QED
      BY <2>4, <2>5, <2>6
  <1> QED
    BY <1>1, <1>2, CachedStep, Invariance, PTL DEF Spec
-----------------------------------------------------------------------------
(* When a hit tells the truth                                               *)

(* Of ascending times none is after the last.                               *)
LEMMA LastIsLatest ==
  ASSUME NEW times \in Seq(Messages), Ascending(times), NEW i \in DOMAIN times
  PROVE  times[i] <= times[Len(times)]
  <1>1. /\ Len(times) \in DOMAIN times /\ (i = Len(times) \/ i < Len(times))
        /\ times[i] \in Messages /\ times[Len(times)] \in Messages
    OBVIOUS
  <1>2. i < Len(times) => times[i] < times[Len(times)]
    BY <1>1 DEF Ascending
  <1>3. times[i] \in Nat /\ times[Len(times)] \in Nat
    BY <1>1, ConversationListAssumption
  <1> QED
    BY <1>1, <1>2, <1>3

(* A list that ends with the times of a log behind its first has no message *)
(* later than the log's last, if the times ascend.                          *)
LEMMA NoneLater ==
  ASSUME NEW list \in Seq(Entry), NEW times \in Seq(Messages), Len(times) > 1,
         EndsWith(list, Tail(times)), Ascending(times), NEW i \in 1..Len(list)
  PROVE  list[i].at <= times[Len(times)]
  <1> DEFINE rest == Tail(times)
             n == Len(list) - Len(rest)
  <1>1. /\ Len(rest) = Len(times) - 1 /\ Len(times) \in Nat /\ Len(list) \in Nat
        /\ \A j \in 1..(Len(times) - 1) : rest[j] = times[j + 1]
    OBVIOUS
  <1>2. times[Len(times)] \in Nat
    <2>1. times[Len(times)] \in Messages
      OBVIOUS
    <2> QED
      BY <2>1, ConversationListAssumption
  <1>3. EndsWith(list, rest)
    OBVIOUS
  <1> HIDE DEF rest
  <1>4. /\ n \in Int /\ n >= 0 /\ Len(list) = n + (Len(times) - 1)
        /\ \A j \in 1..n : list[j].at = 0
        /\ \A j \in 1..(Len(times) - 1) : list[n + j].at = rest[j]
    <2>1. /\ n >= 0 /\ \A j \in 1..n : list[j].at = 0
          /\ \A j \in 1..Len(rest) : list[n + j].at = rest[j]
      BY <1>3 DEF EndsWith
    <2> QED
      BY <1>1, <2>1
  <1> HIDE DEF n
  <1>5. CASE i <= n
    BY <1>4, <1>2, <1>5
  <1>6. CASE i > n
    <2> DEFINE j == i - n
    <2>1. j \in 1..(Len(times) - 1) /\ n + j = i /\ j + 1 \in DOMAIN times
      BY <1>1, <1>4, <1>6
    <2>2. list[i].at = times[j + 1]
      BY <1>1, <1>4, <2>1
    <2> HIDE DEF j
    <2> QED
      BY <2>1, <2>2, LastIsLatest
  <1> QED
    BY <1>4, <1>5, <1>6

(* Get's comparison of the last element stands for one of all, when two or  *)
(* more messages were Set and in order.                                     *)
THEOREM OrderedHits == Spec => []OrderedHitIsOldEnough
  <1>1. IInv /\ CachesAllButFirst => OrderedHitIsOldEnough
    <2> SUFFICES ASSUME IInv, CachesAllButFirst, NEW k \in Keys, NEW t \in Messages,
                        Len(log[k]) > 1, Ascending(log[k]), Hit(k, t), NEW i \in 1..Len(ListOf(k))
                 PROVE  ListOf(k)[i].at <= t
      BY DEF OrderedHitIsOldEnough
    <2>1. /\ ListOf(k) # None /\ ListOf(k) \in Seq(Entry) /\ log[k] \in Seq(Messages)
          /\ ListOf(k)[Len(ListOf(k))].at <= t
      BY DEF Hit, IInv, TypeOK, ListInv, Whole
    <2>2. EndsWith(ListOf(k), Tail(log[k]))
      BY <2>1 DEF CachesAllButFirst
    <2>3. ListOf(k)[i].at <= log[k][Len(log[k])]
      BY <2>1, <2>2, NoneLater
    <2>4. ListOf(k)[Len(ListOf(k))].at = log[k][Len(log[k])]
      BY <2>1 DEF IInv, DecidesByLatest
    <2>5. ListOf(k)[i].at \in Nat /\ log[k][Len(log[k])] \in Nat /\ t \in Nat
      <3>1. ListOf(k)[i].at \in Messages \cup {0}
        <4>1. ListOf(k)[i] \in Entry
          BY <2>1
        <4> QED
          BY <4>1 DEF Entry
      <3>2. Len(log[k]) \in 1..Len(log[k])
        BY <2>1
      <3>3. log[k][Len(log[k])] \in Messages
        BY <2>1, <3>2
      <3>4. \A m \in Messages \cup {0} : m \in Nat
        BY ConversationListAssumption
      <3> QED
        BY <3>1, <3>3, <3>4, Zenon
    <2> QED
      BY <2>1, <2>3, <2>4, <2>5
  <1> QED
    BY <1>1, AllButFirst, Invariance, PTL
-----------------------------------------------------------------------------
(* How long lists become                                                    *)

(* One message, and the list is new or was lengthened by a deletion; more,  *)
(* and every message has added to it.                                       *)
LongFor(length, n) ==
    /\ n = 1 => length = Window \/ length >= 2 * Window - 1
    /\ n > 1 => length >= 2 * Window + n - 2

LengthInv == \A k \in Keys : ListOf(k) # None => LongFor(Len(ListOf(k)), Len(log[k]))

(* The arithmetic of it: a deletion adds a window but for one, or nothing,  *)
(* and a message doubles a new list or adds one.                            *)
LEMMA LongStays ==
  ASSUME NEW p \in Nat, NEW q \in Nat, NEW n \in Nat \ {0}, p >= Window, LongFor(p, n)
  PROVE  /\ q = p \/ q >= p + Window - 1 => LongFor(q, n)
         /\ q = (IF p = Window THEN 2 * Window ELSE p + 1) => LongFor(q, n + 1)
  <1>1. Window \in Nat /\ Window > 1
    BY ConversationListAssumption
  <1> QED
    BY <1>1 DEF LongFor

(* What Set makes of the length of a list.                                  *)
LEMMA InsertedLength ==
  ASSUME NEW list, Whole(list), NEW e \in Entry
  PROVE  Len(Inserted(list, e)) = IF Len(list) = Window THEN 2 * Window ELSE Len(list) + 1
  BY ConversationListAssumption, ZerosType DEF Inserted, Whole

(* The length of two lists one behind the other.                            *)
LEMMA ConcatenatedLength ==
  ASSUME NEW p \in Seq(Entry), NEW q \in Seq(Entry)
  PROVE  p \o q \in Seq(Entry) /\ Len(p \o q) = Len(p) + Len(q)
  OBVIOUS

(* What RemoveMessage makes of it: it leaves a list that does not hold the  *)
(* message, and lengthens every other.                                      *)
LEMMA RemovedLength ==
  ASSUME NEW list, Whole(list), NEW m
  PROVE  Len(Removed(list, m)) = Len(list) \/ Len(Removed(list, m)) >= Len(list) + Window - 1
  <1> DEFINE i == Position(list, m)
             a == SubSeq(list, 1, i)
             b == SubSeq(list, i + 1, Len(list))
             c == Zeros \o a
  <1>0. list \in Seq(Entry) /\ Window \in Nat /\ Zeros \in Seq(Entry) /\ Len(Zeros) = Window
    BY ConversationListAssumption, ZerosType DEF Whole
  <1>1. CASE ~ \E j \in 1..Len(list) : list[j].at = m
    BY <1>1 DEF Removed
  <1>2. CASE \E j \in 1..Len(list) : list[j].at = m
    <2>1. i \in 1..Len(list) /\ list # <<>>
      BY <1>2 DEF Position
    <2>2. a \in Seq(Entry) /\ Len(a) = i /\ b \in Seq(Entry) /\ Len(b) = Len(list) - i
      BY <1>0, <2>1
    <2>3. /\ i = 1 => Removed(list, m) = Zeros \o Tail(list)
          /\ i # 1 /\ i = Len(list) => Removed(list, m) = c
          /\ i # 1 /\ i # Len(list) => Removed(list, m) = c \o b
      BY <1>2 DEF Removed
    <2>4. Len(Zeros \o Tail(list)) = Window + Len(list) - 1
      BY <1>0, <2>1
    <2> HIDE DEF a, b, i
    <2>5. c \in Seq(Entry) /\ Len(c) = Len(Zeros) + Len(a)
      BY <1>0, <2>2, ConcatenatedLength DEF c
    <2> HIDE DEF c
    <2>6. Len(c \o b) = Len(c) + Len(b)
      BY <2>2, <2>5, ConcatenatedLength
    <2>7. Len(c) = Window + i /\ Len(c \o b) = Window + Len(list)
      BY <1>0, <2>1, <2>2, <2>5, <2>6
    <2> QED
      BY <1>0, <2>1, <2>3, <2>4, <2>7
  <1> QED
    BY <1>1, <1>2

(* What a step does to the list and the log of a key.                       *)
LEMMA ListStep ==
  ASSUME IInv, [Next]_vars, NEW k \in Keys
  PROVE  \/ ListOf(k)' = ListOf(k) /\ log'[k] = log[k]
         \/ ListOf(k)' = None
         \/ /\ ListOf(k) # None /\ log'[k] = log[k]
            /\ \E m \in Messages : ListOf(k)' = Removed(ListOf(k), m)
         \/ \E m \in Messages :
              /\ log'[k] = Append(log[k], m)
              /\ ListOf(k)' = IF ListOf(k) = None THEN FirstList(NewMessage(m))
                              ELSE Inserted(ListOf(k), NewMessage(m))
  <1>0. log \in [Keys -> Seq(Messages)] /\ TypeOK /\ InItsShard
    BY DEF IInv, TypeOK
  <1>1. ASSUME NEW j \in Keys, NEW m \in Messages, Set(j, m)
        PROVE  \/ ListOf(k)' = ListOf(k) /\ log'[k] = log[k]
               \/ /\ log'[k] = Append(log[k], m)
                  /\ ListOf(k)' = IF ListOf(k) = None THEN FirstList(NewMessage(m))
                                  ELSE Inserted(ListOf(k), NewMessage(m))
    <2> DEFINE list == IF ListOf(j) = None THEN FirstList(NewMessage(m))
                       ELSE Inserted(ListOf(j), NewMessage(m))
    <2>1. NewMessage(m) \in Entry
      BY DEF NewMessage, Entry
    <2>2. list \in Lists
      BY <2>1, FirstListWhole, InsertedWhole DEF IInv, ListInv, Whole, Lists
    <2>3. Store(j, list) /\ shardCount' = shardCount
      BY <1>1 DEF Set
    <2>4. log'[j] = Append(log[j], m) /\ \A h \in Keys \ {j} : log'[h] = log[h]
      BY <1>0, <1>1 DEF Set
    <2>5. j = k => ListOf(k)' = list
      BY <1>0, <2>2, <2>3, StoreStep
    <2>6. j # k => ListOf(k)' = ListOf(k)
      BY <1>0, <2>2, <2>3, StoreStep
    <2> QED
      BY <2>4, <2>5, <2>6
  <1>2. ASSUME NEW j \in Keys, NEW m \in Messages, RemoveMessage(j, m)
        PROVE  \/ ListOf(k)' = ListOf(k) /\ log'[k] = log[k]
               \/ ListOf(k) # None /\ log'[k] = log[k] /\ ListOf(k)' = Removed(ListOf(k), m)
    <2> DEFINE list == Removed(ListOf(j), m)
    <2>1. ListOf(j) # None /\ Store(j, list) /\ shardCount' = shardCount /\ log' = log
      BY <1>2 DEF RemoveMessage
    <2>2. list \in Lists
      BY <2>1, RemovedWhole DEF IInv, ListInv, Whole, Lists
    <2>3. (j = k => ListOf(k)' = list) /\ (j # k => ListOf(k)' = ListOf(k))
      BY <1>0, <2>1, <2>2, StoreStep
    <2> QED
      BY <2>1, <2>3
  <1>3. ASSUME NEW j \in Keys, NEW m \in Messages, Update(j, m)
        PROVE  ListOf(k)' = ListOf(k) /\ log'[k] = log[k]
    <2>1. Store(j, ListOf(j)) /\ shardCount' = shardCount /\ log' = log
      BY <1>3 DEF Update, Updated
    <2> QED
      BY <1>0, <2>1, ListType, StoreStep
  <1>4. ASSUME NEW j \in Keys, Remove(j)
        PROVE  ListOf(k)' = None \/ (ListOf(k)' = ListOf(k) /\ log'[k] = log[k])
    <2>1. Store(j, None) /\ shardCount' = shardCount /\ None \in Lists
      BY <1>4 DEF Remove, Lists
    <2>2. (j = k => ListOf(k)' = None) /\ (j # k => ListOf(k)' = ListOf(k))
      BY <1>0, <2>1, StoreStep
    <2>3. \A h \in Keys \ {j} : log'[h] = log[h]
      BY <1>0, <1>4 DEF Remove
    <2> QED
      BY <2>2, <2>3
  <1>5. CASE Resize
    BY <1>0, <1>5, ResizeStep DEF Resize, history
  <1>6. CASE \/ \E j \in Keys, t \in Messages : Get(j, t)
             \/ Check \/ StopCacheMonitoring \/ MonitorStops \/ UNCHANGED vars
    BY <1>6 DEF Get, Check, StopCacheMonitoring, MonitorStops, vars, history, ListOf, ShardOf
  <1> QED
    BY <1>1, <1>2, <1>3, <1>4, <1>5, <1>6 DEF Next, Call, Monitor

(* The second message doubles the list and every further one lengthens it,  *)
(* without an end: the window of ten is left for good.                      *)
THEOREM GrowsForEver == Spec => []GrowsWithMessages
  <1>1. IInv /\ Init => LengthInv
    BY DEF IInv, ListInv, Init, LengthInv
  <1>2. IInv /\ LengthInv /\ [Next]_vars => LengthInv'
    <2> SUFFICES ASSUME IInv, LengthInv, [Next]_vars, NEW k \in Keys, ListOf(k)' # None
                 PROVE  LongFor(Len(ListOf(k)'), Len(log'[k]))
      BY DEF LengthInv, LongFor
    <2>0. log[k] \in Seq(Messages) /\ Len(log[k]) \in Nat
      BY DEF IInv, TypeOK
    <2>1. ASSUME ListOf(k) # None
          PROVE  /\ Whole(ListOf(k)) /\ Len(ListOf(k)) \in Nat /\ Len(ListOf(k)) >= Window
                 /\ Len(log[k]) \in Nat \ {0} /\ LongFor(Len(ListOf(k)), Len(log[k]))
      BY <2>0, <2>1 DEF IInv, ListInv, LengthInv, Whole
    <2>2. CASE ListOf(k)' = ListOf(k) /\ log'[k] = log[k]
      BY <2>1, <2>2
    <2>3. ASSUME ListOf(k) # None, log'[k] = log[k], NEW m \in Messages,
                 ListOf(k)' = Removed(ListOf(k), m)
          PROVE  LongFor(Len(ListOf(k)'), Len(log'[k]))
      <3> DEFINE q == Len(Removed(ListOf(k), m))
      <3>1. q \in Nat
        BY <2>1, <2>3, RemovedWhole DEF Whole
      <3>2. q = Len(ListOf(k)) \/ q >= Len(ListOf(k)) + Window - 1
        BY <2>1, <2>3, RemovedLength
      <3> HIDE DEF q
      <3>3. LongFor(q, Len(log[k]))
        BY <2>1, <2>3, <3>1, <3>2, LongStays
      <3> QED
        BY <2>3, <3>3 DEF q
    <2>4. ASSUME NEW m \in Messages, log'[k] = Append(log[k], m), ListOf(k) = None,
                 ListOf(k)' = FirstList(NewMessage(m))
          PROVE  LongFor(Len(ListOf(k)'), Len(log'[k]))
      <3>1. Len(log[k]) = 0
        BY <2>4 DEF IInv, ListInv
      <3>2. Len(log'[k]) = 1
        BY <2>0, <2>4, <3>1
      <3>3. Len(FirstList(NewMessage(m))) = Window
        BY ZerosType DEF FirstList
      <3> QED
        BY <2>4, <3>2, <3>3 DEF LongFor
    <2>5. ASSUME NEW m \in Messages, log'[k] = Append(log[k], m), ListOf(k) # None,
                 ListOf(k)' = Inserted(ListOf(k), NewMessage(m))
          PROVE  LongFor(Len(ListOf(k)'), Len(log'[k]))
      <3> DEFINE q == Len(Inserted(ListOf(k), NewMessage(m)))
      <3>1. NewMessage(m) \in Entry
        BY DEF NewMessage, Entry
      <3>2. q \in Nat
        BY <2>1, <2>5, <3>1, InsertedWhole DEF Whole
      <3>3. q = IF Len(ListOf(k)) = Window THEN 2 * Window ELSE Len(ListOf(k)) + 1
        BY <2>1, <2>5, <3>1, InsertedLength
      <3> HIDE DEF q
      <3>4. LongFor(q, Len(log[k]) + 1)
        BY <2>1, <2>5, <3>2, <3>3, LongStays
      <3>5. Len(log'[k]) = Len(log[k]) + 1
        BY <2>0, <2>5
      <3> QED
        BY <2>5, <3>4, <3>5 DEF q
    <2> QED
      BY ListStep, <2>2, <2>3, <2>4, <2>5
  <1>3. IInv /\ LengthInv => GrowsWithMessages
    BY DEF IInv, ListInv, LengthInv, LongFor, GrowsWithMessages, Whole
  <1> QED
    BY <1>1, <1>2, <1>3, InitInv, Invariance, PTL DEF Spec
-----------------------------------------------------------------------------
(* The cache is one map.                                                   *)

conv == [k \in Keys |-> ListOf(k)]

(* The empty shards are the empty map.                                     *)
LEMMA InitMaps == IInv /\ Init => M!MapInit
  <1> SUFFICES ASSUME IInv, Init PROVE M!MapInit
    OBVIOUS
  <1>1. \A k \in Keys : ListOf(k) = None
    BY DEF IInv, ListInv, Init
  <1> QED
    BY <1>1 DEF M!MapInit

(* A stored list appears in the map under its key.                         *)
LEMMA StoreMaps ==
  ASSUME IInv, NEW k \in Keys, NEW list \in Lists, Store(k, list), UNCHANGED shardCount
  PROVE  conv' = [conv EXCEPT ![k] = list]
  BY StoreStep DEF IInv, conv

(* Set, RemoveMessage, Update and Remove are the map's steps; Get and the  *)
(* monitor, resizing included, leave it as it is.                          *)
LEMMA StepMaps == IInv /\ [Next]_vars => [M!MapNext]_conv
  <1> SUFFICES ASSUME IInv, [Next]_vars PROVE M!MapNext \/ UNCHANGED conv
    OBVIOUS
  <1>1. ASSUME NEW k \in Keys, NEW m \in Messages, Set(k, m) PROVE M!MapSet(k, m)
    <2> DEFINE e == NewMessage(m)
               list == IF ListOf(k) = None THEN FirstList(e) ELSE Inserted(ListOf(k), e)
    <2>1. e \in Entry
      BY DEF NewMessage, Entry
    <2>2. Whole(list)
      BY <2>1, FirstListWhole, InsertedWhole DEF IInv, ListInv
    <2>3. list \in Lists /\ Store(k, list) /\ UNCHANGED shardCount
      BY <1>1, <2>2 DEF Whole, Lists, Set
    <2>4. conv' = [conv EXCEPT ![k] = list]
      BY <2>3, StoreMaps
    <2>5. conv[k] = ListOf(k)
      BY DEF conv
    <2>6. list = IF ListOf(k) = None THEN M!FirstList(M!NewMessage(m))
                 ELSE M!Inserted(ListOf(k), M!NewMessage(m))
      BY DEF FirstList, M!FirstList, NewMessage, M!NewMessage, Inserted, M!Inserted,
             Zeros, M!Zeros, ZeroMessage, M!ZeroMessage
    <2> QED
      BY <2>4, <2>5, <2>6 DEF M!MapSet, conv
  <1>2. ASSUME NEW k \in Keys, NEW m \in Messages, RemoveMessage(k, m)
        PROVE  M!MapRemoveMessage(k, m)
    <2> DEFINE list == Removed(ListOf(k), m)
    <2>1. ListOf(k) # None /\ Store(k, list) /\ UNCHANGED shardCount
      BY <1>2 DEF RemoveMessage
    <2>2. list \in Lists
      BY <2>1, RemovedWhole DEF IInv, ListInv, Whole, Lists
    <2>3. conv' = [conv EXCEPT ![k] = list] /\ conv[k] = ListOf(k)
      BY <2>1, <2>2, StoreMaps DEF conv
    <2>4. list = M!Removed(ListOf(k), m)
      BY DEF Removed, M!Removed, Position, M!Position, Zeros, M!Zeros,
             ZeroMessage, M!ZeroMessage
    <2> QED
      BY <2>1, <2>3, <2>4 DEF M!MapRemoveMessage, conv
  <1>3. ASSUME NEW k \in Keys, NEW m \in Messages, Update(k, m) PROVE M!MapUpdate(k, m)
    <2>1. ListOf(k) # None /\ Store(k, ListOf(k)) /\ UNCHANGED shardCount
      BY <1>3 DEF Update, Updated
    <2>2. conv' = [conv EXCEPT ![k] = ListOf(k)] /\ conv[k] = ListOf(k)
      BY <2>1, ListType, StoreMaps DEF IInv, conv
    <2> QED
      BY <2>1, <2>2 DEF M!MapUpdate, M!Updated, conv
  <1>4. ASSUME NEW k \in Keys, Remove(k) PROVE M!MapRemove(k)
    <2>1. Store(k, None) /\ None \in Lists /\ UNCHANGED shardCount
      BY <1>4 DEF Remove, Lists
    <2> QED
      BY <2>1, StoreMaps DEF M!MapRemove, conv
  <1>5. CASE Resize
    BY <1>5, ResizeStep DEF IInv, conv
  <1>6. ASSUME NEW k \in Keys, NEW t \in Messages, Get(k, t) PROVE UNCHANGED conv
    BY <1>6 DEF Get, conv, ListOf, ShardOf
  <1>7. CASE Check \/ StopCacheMonitoring \/ MonitorStops \/ UNCHANGED vars
    BY <1>7 DEF Check, StopCacheMonitoring, MonitorStops, vars, conv, ListOf, ShardOf
  <1> QED
    BY <1>1, <1>2, <1>3, <1>4, <1>5, <1>6, <1>7 DEF Next, Call, Monitor, M!MapNext

(* The sharded cache implements the plain map.                             *)
THEOREM Refinement == Spec => ImplementsMap
  <1>1. conv = [k \in Keys |-> ListOf(k)]
    BY DEF conv
  <1> QED
    BY InitInv, InitMaps, StepMaps, Invariance, PTL DEF Spec, ImplementsMap, M!MapSpec, conv
=============================================================================
