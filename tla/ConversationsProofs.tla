------------------------- MODULE ConversationsProofs -------------------------
(***************************************************************************)
(* What Conversations guarantees for any number of users, requests and      *)
(* stored messages, any limit of the queries and any length of a list.      *)
(***************************************************************************)
EXTENDS Conversations, ConversationListProofs

USE ConversationsAssumption, ConversationListAssumption
(* A function on the first numbers is a sequence.                           *)
LEMMA FunctionIsSeq ==
    ASSUME NEW S, NEW n \in Nat, NEW f \in [1..n -> S]
    PROVE  f \in Seq(S) /\ Len(f) = n
  OBVIOUS
-----------------------------------------------------------------------------
(* The loop that filters                                                    *)

(* Where the loop over src may stand.  It has cut nothing; or it has cut    *)
(* something, which was before the last message or behind such a cut, so    *)
(* that the last place of the array is free; or it has cut the last message *)
(* only.                                                                    *)
Untouched(l, src) ==
    l.n = Len(src) /\ l.arr = src /\ \A k \in 1..(l.i - 1) : src[k].sees

EndIsFree(l, src) ==
    l.n < Len(src) /\ l.arr[Len(src)] = ZeroItem /\ l.i <= Len(src) /\ HiddenBeforeLast(src)

LastCut(l, src) ==
    /\ Len(src) > 0 /\ l.i = Len(src) + 1 /\ l.n = Len(src) - 1 /\ ~src[Len(src)].sees
    /\ \A k \in 1..(Len(src) - 1) : l.arr[k] = src[k] /\ src[k].sees

Items == Item(Messages \cup {0})
LoopType == [arr : Seq(Items), n : Nat, i : Nat \ {0}]

LoopState(l, src) ==
    /\ l \in LoopType /\ src \in Seq(Items)
    /\ Len(l.arr) = Len(src) /\ l.i <= Len(src) + 1
    /\ Untouched(l, src) \/ EndIsFree(l, src) \/ LastCut(l, src)

(* A loop that begins has cut nothing.                                     *)
LEMMA LoopBegins ==
    ASSUME NEW src \in Seq(Items)
    PROVE  LoopState(LoopOver(src), src)
  BY DEF LoopOver, LoopState, Untouched, LoopType

(* What slices.Delete leaves of the array.                                  *)
LEMMA CutShape ==
    ASSUME NEW l \in LoopType, Looking(l), ~OutOfRange(l), l.n <= Len(l.arr)
    PROVE  /\ Cut(l) \in LoopType
           /\ Len(Cut(l).arr) = Len(l.arr) /\ Cut(l).n = l.n - 1 /\ Cut(l).i = l.i
           /\ \A k \in 1..Len(l.arr) : Cut(l).arr[k] =
                IF k \in l.i..(l.n - 1) THEN l.arr[k + 1]
                ELSE IF k = l.n THEN ZeroItem ELSE l.arr[k]
  <1>. DEFINE e(k) == IF k \in l.i..(l.n - 1) THEN l.arr[k + 1]
                      ELSE IF k = l.n THEN ZeroItem ELSE l.arr[k]
              f == [k \in 1..Len(l.arr) |-> e(k)]
  <1>0. l.arr \in Seq(Items) /\ l.n \in Nat /\ l.i \in Nat \ {0} /\ l.i <= l.n
    BY DEF LoopType, OutOfRange
  <1>1. Cut(l) = [l EXCEPT !.arr = f, !.n = @ - 1]
    BY DEF Cut
  <1>2. Cut(l) = [arr |-> f, n |-> l.n - 1, i |-> l.i]
    <2>. HIDE DEF f
    <2>. QED
      BY <1>1 DEF LoopType
  <1>3. ZeroItem \in Items
    BY DEF ZeroItem, Items, Item
  <1>4. \A k \in 1..Len(l.arr) : e(k) \in Items
    BY <1>0, <1>3
  <1>5. f \in Seq(Items) /\ Len(f) = Len(l.arr)
    <2>. HIDE DEF e
    <2>1. f \in [1..Len(l.arr) -> Items] /\ Len(l.arr) \in Nat
      BY <1>0, <1>4
    <2>. HIDE DEF f
    <2>. QED
      BY <2>1, FunctionIsSeq
  <1>. QED
    BY <1>0, <1>2, <1>5 DEF LoopType

(* A pass of the loop that does not run out of range leads from one of      *)
(* these places to another: behind a cut there is a zero message at the     *)
(* end, which is cut in its turn or found out of range.                     *)
LEMMA LoopGoesOn ==
    ASSUME NEW l, NEW src, LoopState(l, src), Looking(l), ~(Cuts(l) /\ OutOfRange(l))
    PROVE  LoopState(Advanced(l), src)
  <1>. DEFINE N == Len(src)
  <1>0. /\ l \in LoopType /\ src \in Seq(Items) /\ l.arr \in Seq(Items) /\ l.n \in Nat
        /\ l.i \in Nat \ {0} /\ N \in Nat /\ Len(l.arr) = N /\ l.i <= N /\ l.n <= N
    BY DEF LoopState, LoopType, Looking, Untouched, EndIsFree, LastCut
  <1>1. CASE ~Cuts(l)
    <2>1. Advanced(l) = [l EXCEPT !.i = @ + 1]
      BY <1>1 DEF Advanced
    <2>2. Advanced(l) = [arr |-> l.arr, n |-> l.n, i |-> l.i + 1]
      BY <2>1, <1>0 DEF LoopType
    <2>3. CASE Untouched(l, src)
      BY <1>0, <1>1, <2>2, <2>3 DEF LoopState, LoopType, Untouched, Cuts
    <2>4. CASE EndIsFree(l, src)
      <3>1. l.i # N
        BY <1>0, <1>1, <2>4 DEF EndIsFree, Cuts, ZeroItem
      <3>. QED
        BY <1>0, <2>2, <2>4, <3>1 DEF LoopState, LoopType, EndIsFree
    <2>. QED
      BY <1>0, <2>3, <2>4 DEF LoopState, LastCut
  <1>2. CASE Cuts(l)
    <2>. DEFINE c == Cut(l)
    <2>1. Advanced(l) = [c EXCEPT !.i = @ + 1]
      BY <1>2 DEF Advanced
    <2>2. /\ c \in LoopType /\ Len(c.arr) = N /\ c.n = l.n - 1 /\ c.i = l.i
          /\ \A k \in 1..N : c.arr[k] = IF k \in l.i..(l.n - 1) THEN l.arr[k + 1]
                                        ELSE IF k = l.n THEN ZeroItem ELSE l.arr[k]
      BY <1>0, <1>2, CutShape
    <2>. HIDE DEF c
    <2>3. Advanced(l) = [arr |-> c.arr, n |-> l.n - 1, i |-> l.i + 1]
      BY <2>1, <2>2 DEF LoopType
    <2>4. l.i <= l.n
      BY <1>0, <1>2 DEF OutOfRange
    <2>5. Advanced(l) \in LoopType /\ Len(Advanced(l).arr) = N
      BY <1>0, <2>2, <2>3, <2>4 DEF LoopType
    <2>6. CASE Untouched(l, src) /\ l.i < N
      <3>1. c.arr[N] = ZeroItem
        BY SMTT(30), <1>0, <2>2, <2>6 DEF Untouched
      <3>3. HiddenBeforeLast(src)
        BY <1>0, <1>2, <2>6 DEF HiddenBeforeLast, Untouched, Cuts
      <3>2. EndIsFree(Advanced(l), src)
        BY <1>0, <2>3, <2>6, <3>1, <3>3 DEF EndIsFree, Untouched
      <3>. QED
        BY <1>0, <2>3, <2>5, <2>6, <3>2 DEF LoopState
    <2>7. CASE Untouched(l, src) /\ l.i = N
      <3>1. \A k \in 1..(N - 1) : c.arr[k] = src[k] /\ src[k].sees
        BY <1>0, <2>2, <2>7 DEF Untouched
      <3>2. LastCut(Advanced(l), src)
        BY <1>0, <1>2, <2>3, <2>7, <3>1 DEF LastCut, Untouched, Cuts
      <3>. QED
        BY <1>0, <2>3, <2>5, <2>7, <3>2 DEF LoopState
    <2>8. CASE EndIsFree(l, src)
      <3>1. l.n < N /\ l.arr[N] = ZeroItem /\ HiddenBeforeLast(src)
        BY <2>8 DEF EndIsFree
      <3>2. N \in 1..N /\ N # l.n /\ N \notin l.i..(l.n - 1)
        BY <1>0, <3>1
      <3>3. c.arr[N] = ZeroItem
        BY <2>2, <3>1, <3>2
      <3>4. l.i # N
        BY <1>0, <2>4, <3>1
      <3>5. EndIsFree(Advanced(l), src)
        BY <1>0, <2>3, <3>1, <3>3, <3>4 DEF EndIsFree
      <3>. QED
        BY <1>0, <2>3, <2>5, <3>5 DEF LoopState
    <2>. QED
      BY <1>0, <2>6, <2>7, <2>8 DEF LoopState, LastCut
  <1>. QED
    BY <1>1, <1>2

(* A loop that comes to an end has kept the messages that may be seen.      *)
LEMMA LoopIsExact ==
    ASSUME NEW l, NEW src, LoopState(l, src), ~Looking(l)
    PROVE  /\ Result(l) \in Seq(Items) /\ ~HiddenBeforeLast(src)
           /\ IdSet(Result(l)) = {src[x].id : x \in {y \in DOMAIN src : src[y].sees}}
  <1>. DEFINE N == Len(src)
  <1>0. /\ l.arr \in Seq(Items) /\ src \in Seq(Items) /\ N \in Nat
        /\ Len(l.arr) = N /\ l.i = N + 1 /\ l.n \in Nat /\ l.n <= N
    BY DEF LoopState, LoopType, Looking, Untouched, EndIsFree, LastCut
  <1>1. CASE Untouched(l, src)
    <2>1. Result(l) = src
      BY <1>0, <1>1 DEF Result, Untouched
    <2>2. \A k \in DOMAIN src : src[k].sees
      BY <1>0, <1>1 DEF Untouched
    <2>. QED
      BY <1>0, <2>1, <2>2 DEF IdSet, HiddenBeforeLast
  <1>2. CASE LastCut(l, src)
    <2>. DEFINE s == SubSeq(l.arr, 1, N - 1)
    <2>1. Result(l) = s /\ N - 1 \in Nat
      BY <1>0, <1>2 DEF Result, LastCut
    <2>2. s \in Seq(Items) /\ DOMAIN s = 1..(N - 1) /\ \A k \in 1..(N - 1) : s[k] = l.arr[k]
      BY <1>0, <2>1
    <2>3. \A k \in 1..(N - 1) : s[k] = src[k] /\ src[k].sees
      BY <1>2, <2>2 DEF LastCut
    <2>4. {y \in DOMAIN src : src[y].sees} = 1..(N - 1)
      BY <1>0, <1>2, <2>3 DEF LastCut
    <2>. HIDE DEF s
    <2>5. ~HiddenBeforeLast(src)
      BY <1>0, <2>3 DEF HiddenBeforeLast
    <2>. QED
      BY <2>1, <2>2, <2>3, <2>4, <2>5 DEF IdSet
  <1>. QED
    BY <1>0, <1>1, <1>2 DEF LoopState, EndIsFree

(* A cut out of range is one behind a message hidden before the last.       *)
LEMMA PanicsByHidden ==
    ASSUME NEW l, NEW src, LoopState(l, src), Looking(l), OutOfRange(l)
    PROVE  HiddenBeforeLast(src)
  BY DEF LoopState, LoopType, Looking, OutOfRange, Untouched, EndIsFree, LastCut
-----------------------------------------------------------------------------
(* The invariant                                                            *)

(* The id of a message is its primary key.                                  *)
UniqueIds ==
    \A j, k \in Keys : \A x \in DOMAIN rows[j], y \in DOMAIN rows[k] :
        rows[j][x].id = rows[k][y].id => j = k /\ x = y

(* What the place of a request says of it.                                  *)
Placed ==
    \A r \in Reqs :
        /\ at[r] = "start" => stamp[r] = 0 /\ answers[r] = <<>> /\ own[r] = None
        /\ at[r] = "stored" => /\ ask[r].kind = "send" /\ stamp[r] \in Messages
                              /\ Held(KeyOf(ask[r].by, ask[r].to), stamp[r])
        /\ at[r] \in {"own", "peer"} => ask[r].to # Group

(* A request has found a conversation of its user's to delete a message     *)
(* from, or the group.                                                      *)
FoundOwn ==
    \A r \in Reqs :
        /\ own[r] \notin {None, Group} =>
              ask[r].kind = "delete" /\ \E to \in Users : own[r] = <<ask[r].by, to>>
        /\ at[r] = "half" /\ ask[r].kind = "delete" => own[r] \notin {None, Group}

LoopsRight == \A r \in Reqs : LoopState(loop[r], queried[r])

IInv == TypeOK /\ UniqueIds /\ Placed /\ FoundOwn /\ LoopsRight

(* What a request asks for, and the keys its handler computes from it.     *)
LEMMA AskTyped ==
    ASSUME TypeOK, NEW r \in Reqs
    PROVE  /\ ask[r].by \in Users /\ ask[r].to \in Users \cup {Group}
           /\ ask[r].msg \in Messages /\ ask[r].before \in Nat
           /\ KeyOf(ask[r].by, ask[r].to) \in Keys /\ CacheKey(r) \in Keys /\ Group \in Keys
           /\ ask[r].kind = "forget" => ask[r].to \in Users
           /\ \A a, b \in Users : <<a, b>> \in Keys
  <1>1. /\ ask[r].by \in Users /\ ask[r].to \in Users \cup {Group}
        /\ ask[r].msg \in Messages /\ ask[r].before \in Nat
        /\ ask[r].kind = "forget" => ask[r].to \in Users
    BY DEF TypeOK, Ask
  <1>2. KeyOf(ask[r].by, ask[r].to) \in Keys /\ Group \in Keys
    BY <1>1 DEF KeyOf
  <1>. QED
    BY <1>1, <1>2 DEF CacheKey

(* The rows there are at the start are of users.                            *)
LEMMA StoredOfUsers ==
    \A k \in Keys : \A x \in DOMAIN Stored[k] : Among(k, Stored[k][x], Users)
  <1>1. \A k \in Keys : Stored[k] \in Seq(Row)
    OBVIOUS
  <1>2. \A k \in Keys : \A x \in DOMAIN Stored[k] : Stored[k][x].from \in Users
    <2>1. \A k \in Keys : \A x \in DOMAIN Stored[k] : Stored[k][x] \in Row
      BY <1>1
    <2>. QED
      BY <2>1 DEF Row
  <1>3. \A k \in Keys \ {Group} : {k[1], k[2]} \subseteq Users
    OBVIOUS
  <1>. QED
    BY <1>2, <1>3 DEF Among

(* The invariant holds of the first state.                                 *)
LEMMA InitInvariant == Init => IInv
  <1>. SUFFICES ASSUME Init PROVE IInv
    OBVIOUS
  <1>1. LoopState(LoopOver(<<>>), <<>>)
    <2>1. <<>> \in Seq(Items)
      OBVIOUS
    <2>. QED
      BY <2>1, LoopBegins
  <1>2. LoopsRight
    BY <1>1 DEF Init, LoopsRight
  <1>3. TypeOK
    <2>1. \A r \in Reqs : LoopOver(<<>>) = [arr |-> <<>>, n |-> 0, i |-> 1]
      BY DEF LoopOver
    <2>2. LoopOver(<<>>) \in [arr : Seq(Item(Messages \cup {0})), n : Nat, i : Nat \ {0}]
      BY DEF LoopOver
    <2>. QED
      BY <2>1, <2>2, StoredOfUsers DEF Init, MapInit, TypeOK, Places
  <1>4. UniqueIds /\ Placed /\ FoundOwn
    BY DEF Init, UniqueIds, Placed, FoundOwn
  <1>. QED
    BY <1>2, <1>3, <1>4 DEF IInv

(* A request keeps what it asks for and goes from place to place, each time *)
(* by a step that is its own.                                               *)
LEMMA ControlStep ==
    ASSUME TypeOK, [Next]_vars
    PROVE  /\ ask' = ask /\ at' \in [Reqs -> Places]
           /\ \A r \in Reqs : at'[r] = "start" => at[r] = "start"
  <1>. DEFINE Moves(r) == \E to \in Places \ {"start"} : at' = [at EXCEPT ![r] = to]
  <1>1. ASSUME NEW r \in Reqs, CreateMessage(r) \/ CacheMessage(r) \/ Uncache(r)
        PROVE  ask' = ask /\ Moves(r)
    BY <1>1 DEF CreateMessage, CacheMessage, Uncache, Goes, Places
  <1>2. ASSUME NEW r \in Reqs, \/ DeleteOwn(r) \/ DeleteForReceiver(r) \/ DeleteReceived(r)
                              \/ DeleteNothing(r) \/ ForgetSent(r) \/ ForgetReceived(r)
                              \/ RemoveUser(r)
        PROVE  ask' = ask /\ Moves(r)
    BY <1>2 DEF DeleteOwn, DeleteForReceiver, DeleteReceived, DeleteNothing, ForgetSent,
       ForgetReceived, RemoveUser, Goes, Places
  <1>3. ASSUME NEW r \in Reqs, \/ LookInCache(r) \/ QueryOwn(r) \/ QueryPeer(r)
                              \/ AnswerConversation(r) \/ AnswerGroup(r) \/ Fail(r)
        PROVE  ask' = ask /\ Moves(r)
    BY <1>3 DEF LookInCache, QueryOwn, QueryPeer, AnswerConversation, AnswerGroup, Fail, Goes, Places
  <1>4. ASSUME NEW r \in Reqs, Filter(r)
        PROVE  ask' = ask /\ (at' = at \/ Moves(r))
    BY <1>4 DEF Filter, Places
  <1>5. ASSUME NEW r \in Reqs, Moves(r)
        PROVE  at' \in [Reqs -> Places] /\ \A s \in Reqs : at'[s] = "start" => at[s] = "start"
    BY <1>5 DEF TypeOK
  <1>6. ask' = ask /\ (at' = at \/ \E r \in Reqs : Moves(r))
    <2>1. CASE UNCHANGED vars
      BY <2>1 DEF vars
    <2>2. CASE Next
      <3>. HIDE DEF Moves
      <3>. QED
        BY <2>2, <1>1, <1>2, <1>3, <1>4 DEF Next
    <2>. QED
      BY <2>1, <2>2
  <1>7. CASE at' = at
    BY <1>6, <1>7 DEF TypeOK
  <1>. HIDE DEF Moves
  <1>. QED
    BY <1>5, <1>6, <1>7
-----------------------------------------------------------------------------
(* The table                                                                *)

TableInv ==
    /\ accounts \subseteq Users /\ lost \in [Keys -> SUBSET Messages]
    /\ rows \in [Keys -> Seq(Row)] /\ last \in Nat
    /\ \A k \in Keys : \A x \in DOMAIN rows[k] : rows[k][x].id <= last /\ Among(k, rows[k][x], accounts)
    /\ UniqueIds

(* A step without a removal: rows stay in their places.                     *)
InPlace ==
    /\ last <= last' /\ UNCHANGED <<accounts, lost>>
    /\ \A k \in Keys : \A x \in DOMAIN rows[k] :
          x \in DOMAIN rows'[k] /\ Keeps(rows[k][x], rows'[k][x])

(* A pair's rows stay in their places or go all together.                   *)
PairsStay ==
    \A k \in Keys \ {Group} : \A x \in DOMAIN rows[k], y \in DOMAIN rows'[k] :
        x \in DOMAIN rows'[k] /\ Keeps(rows[k][x], rows'[k][x])

(* What was in the table is there, or known to have gone.                   *)
HeldStays == \A k \in Keys : \A m : Held(k, m) => Held(k, m)'

LEMMA InPlaceStays ==
    ASSUME TableInv, InPlace
    PROVE  Grows /\ PairsStay /\ HeldStays
  <1>1. Grows
    BY DEF InPlace, Grows
  <1>2. PairsStay
    BY DEF InPlace, PairsStay
  <1>3. ASSUME NEW k \in Keys, NEW m, Held(k, m) PROVE Held(k, m)'
    <2>1. Holds(k, m) => \E x \in DOMAIN rows'[k] : rows'[k][x].id = m
      BY DEF InPlace, Holds, Keeps
    <2>2. lost' = lost
      BY DEF InPlace
    <2>. QED
      BY <1>3, <2>1, <2>2 DEF Held, Holds
  <1>. QED
    BY <1>1, <1>2, <1>3 DEF HeldStays

(* A new row keeps the table in order and all its other rows.              *)
LEMMA CreateTable ==
    ASSUME TableInv, NEW k \in Keys, NEW row \in Row, row.id = last + 1, last' = last + 1,
           Among(k, row, accounts), UNCHANGED <<accounts, lost>>,
           rows' = [rows EXCEPT ![k] = Append(@, row)]
    PROVE  TableInv' /\ InPlace /\ rows'[k][Len(rows[k]) + 1] = row /\ Len(rows[k]) + 1 \in DOMAIN rows'[k]
  <1>. DEFINE n == Len(rows[k]) + 1
  <1>1. rows[k] \in Seq(Row) /\ rows'[k] = Append(rows[k], row)
    BY DEF TableInv
  <1>2. /\ rows'[k] \in Seq(Row) /\ DOMAIN rows'[k] = DOMAIN rows[k] \cup {n}
        /\ n \notin DOMAIN rows[k]
        /\ rows'[k][n] = row /\ \A x \in DOMAIN rows[k] : rows'[k][x] = rows[k][x]
    BY <1>1
  <1>3. \A j \in Keys \ {k} : rows'[j] = rows[j]
    BY DEF TableInv
  <1>4. rows' \in [Keys -> Seq(Row)] /\ last' \in Nat
    BY <1>2 DEF TableInv
  <1>. HIDE DEF n
  <1>5. \A j \in Keys : \A x \in DOMAIN rows'[j] :
            \/ x \in DOMAIN rows[j] /\ rows'[j][x] = rows[j][x]
            \/ j = k /\ x = n /\ rows'[j][x] = row
    BY <1>2, <1>3
  <1>6. \A j \in Keys : \A x \in DOMAIN rows[j] : x \in DOMAIN rows'[j] /\ rows'[j][x] = rows[j][x]
    BY <1>2, <1>3
  <1>7. \A j \in Keys : \A x \in DOMAIN rows[j] : rows[j][x].id <= last /\ rows[j][x].id \in Nat
    <2>1. \A j \in Keys : rows[j] \in Seq(Row)
      BY DEF TableInv
    <2>2. \A j \in Keys : \A x \in DOMAIN rows[j] : rows[j][x] \in Row
      BY <2>1
    <2>. QED
      BY <2>2 DEF TableInv, Row
  <1>8. InPlace
    BY <1>6 DEF InPlace, Keeps, TableInv
  <1>9. \A j \in Keys : \A x \in DOMAIN rows'[j] :
            rows'[j][x].id <= last' /\ Among(j, rows'[j][x], accounts')
    <2>1. \A j \in Keys : \A x \in DOMAIN rows'[j] : rows'[j][x].id <= last'
      BY <1>5, <1>7 DEF TableInv
    <2>2. \A j \in Keys : \A x \in DOMAIN rows'[j] : Among(j, rows'[j][x], accounts')
      BY <1>5 DEF TableInv
    <2>. QED
      BY <2>1, <2>2
  <1>10. UniqueIds'
    <2>. SUFFICES ASSUME NEW i \in Keys, NEW j \in Keys,
                         NEW x \in DOMAIN rows'[i], NEW y \in DOMAIN rows'[j],
                         rows'[i][x].id = rows'[j][y].id
                  PROVE  i = j /\ x = y
      BY DEF UniqueIds
    <2>1. last \in Nat
      BY DEF TableInv
    <2>2. CASE x \in DOMAIN rows[i] /\ rows'[i][x] = rows[i][x]
      <3>1. CASE y \in DOMAIN rows[j] /\ rows'[j][y] = rows[j][y]
        BY SMTT(30), <2>2, <3>1 DEF TableInv, UniqueIds
      <3>2. CASE j = k /\ y = n /\ rows'[j][y] = row
        BY <1>7, <2>1, <2>2, <3>2
      <3>. QED
        BY <1>5, <3>1, <3>2
    <2>3. CASE i = k /\ x = n /\ rows'[i][x] = row
      <3>1. CASE y \in DOMAIN rows[j] /\ rows'[j][y] = rows[j][y]
        BY <1>7, <2>1, <2>3, <3>1
      <3>2. CASE j = k /\ y = n /\ rows'[j][y] = row
        BY <2>3, <3>2
      <3>. QED
        BY <1>5, <3>1, <3>2
    <2>. QED
      BY <1>5, <2>2, <2>3
  <1>. QED
    BY <1>2, <1>4, <1>8, <1>9, <1>10 DEF TableInv, n

OnlyClears(k, f) ==
    \A x \in DOMAIN rows[k] : /\ f[x].id = rows[k][x].id /\ f[x].from = rows[k][x].from
                              /\ f[x].sender => rows[k][x].sender
                              /\ f[x].receiver => rows[k][x].receiver

(* A statement that clears flags of the rows of one conversation.           *)
LEMMA FlagsTable ==
    ASSUME TableInv, NEW k \in Keys, UNCHANGED <<accounts, last, lost>>,
           NEW f \in [DOMAIN rows[k] -> Row], rows' = [rows EXCEPT ![k] = f],
           OnlyClears(k, f)
    PROVE  /\ TableInv' /\ InPlace
           /\ \A j \in Keys : DOMAIN rows'[j] = DOMAIN rows[j]
           /\ \A j \in Keys \ {k} : rows'[j] = rows[j]
           /\ rows'[k] = f
  <1>. DEFINE n == Len(rows[k])
  <1>0. rows[k] \in Seq(Row) /\ n \in Nat /\ DOMAIN rows[k] = 1..n
    BY DEF TableInv
  <1>1. rows'[k] = f /\ \A j \in Keys \ {k} : rows'[j] = rows[j]
    BY DEF TableInv
  <1>2. f \in [1..n -> Row]
    BY <1>0
  <1>3. f \in Seq(Row) /\ DOMAIN f = DOMAIN rows[k]
    BY <1>0, <1>2, FunctionIsSeq
  <1>4. rows' \in [Keys -> Seq(Row)]
    BY <1>3 DEF TableInv
  <1>5. \A j \in Keys : /\ DOMAIN rows'[j] = DOMAIN rows[j]
                        /\ \A x \in DOMAIN rows[j] : /\ rows'[j][x].id = rows[j][x].id
                                                     /\ rows'[j][x].from = rows[j][x].from
    BY <1>1, <1>3 DEF OnlyClears
  <1>6. UniqueIds'
    BY SMTT(30), <1>5 DEF TableInv, UniqueIds
  <1>7. TableInv'
    BY <1>4, <1>5, <1>6 DEF TableInv, Among
  <1>8. InPlace
    BY <1>1, <1>3 DEF InPlace, Keeps, TableInv, OnlyClears
  <1>. QED
    BY <1>1, <1>5, <1>7, <1>8

(* A row with a flag cleared.                                               *)
LEMMA ClearedRow ==
    ASSUME NEW e \in Row
    PROVE  /\ [e EXCEPT !.sender = FALSE] \in Row /\ [e EXCEPT !.receiver = FALSE] \in Row
           /\ LET c == [e EXCEPT !.sender = FALSE]
              IN  c.id = e.id /\ c.from = e.from /\ ~c.sender /\ c.receiver = e.receiver
           /\ LET c == [e EXCEPT !.receiver = FALSE]
              IN  c.id = e.id /\ c.from = e.from /\ ~c.receiver /\ c.sender = e.sender
  <1>1. [e EXCEPT !.sender = FALSE] \in Row
    BY DEF Row
  <1>2. [e EXCEPT !.receiver = FALSE] \in Row
    BY DEF Row
  <1>3. LET c == [e EXCEPT !.sender = FALSE]
        IN  c.id = e.id /\ c.from = e.from /\ ~c.sender /\ c.receiver = e.receiver
    BY DEF Row
  <1>4. LET c == [e EXCEPT !.receiver = FALSE]
        IN  c.id = e.id /\ c.from = e.from /\ ~c.receiver /\ c.sender = e.sender
    BY DEF Row
  <1>. QED
    BY <1>1, <1>2, <1>3, <1>4

(* MarkIsSenderAllowedToSeeFalse changes that flag in one conversation.    *)
LEMMA HideSenderTable ==
    ASSUME TableInv, NEW k \in Keys, HideFromSender(k), UNCHANGED <<accounts, last, lost>>
    PROVE  /\ TableInv' /\ InPlace
           /\ \A j \in Keys : DOMAIN rows'[j] = DOMAIN rows[j]
           /\ \A j \in Keys \ {k} : rows'[j] = rows[j]
           /\ \A x \in DOMAIN rows[k] :
                 ~rows'[k][x].sender /\ rows'[k][x].receiver = rows[k][x].receiver
  <1>. DEFINE c(x) == [rows[k][x] EXCEPT !.sender = FALSE]
              f == [x \in DOMAIN rows[k] |-> c(x)]
  <1>0. rows[k] \in Seq(Row)
    BY DEF TableInv
  <1>1. \A x \in DOMAIN rows[k] : rows[k][x] \in Row
    BY <1>0
  <1>2. \A x \in DOMAIN rows[k] :
            /\ c(x) \in Row /\ c(x).id = rows[k][x].id /\ c(x).from = rows[k][x].from
            /\ ~c(x).sender /\ c(x).receiver = rows[k][x].receiver
    BY <1>1, ClearedRow
  <1>3. rows' = [rows EXCEPT ![k] = f]
    BY DEF HideFromSender
  <1>. HIDE DEF c
  <1>4. f \in [DOMAIN rows[k] -> Row] /\ \A x \in DOMAIN rows[k] : f[x] = c(x)
    BY <1>2
  <1>. HIDE DEF f
  <1>5. OnlyClears(k, f)
    BY <1>2, <1>4 DEF OnlyClears
  <1>6. /\ TableInv' /\ InPlace /\ rows'[k] = f
        /\ \A j \in Keys : DOMAIN rows'[j] = DOMAIN rows[j]
        /\ \A j \in Keys \ {k} : rows'[j] = rows[j]
    BY ZenonT(40), <1>3, <1>4, <1>5, FlagsTable
  <1>. QED
    BY <1>2, <1>4, <1>6

(* MarkIsReceiverAllowedToSeeFalse changes that flag in one conversation.  *)
LEMMA HideReceiverTable ==
    ASSUME TableInv, NEW k \in Keys, HideFromReceiver(k), UNCHANGED <<accounts, last, lost>>
    PROVE  /\ TableInv' /\ InPlace
           /\ \A j \in Keys : DOMAIN rows'[j] = DOMAIN rows[j]
           /\ \A j \in Keys \ {k} : rows'[j] = rows[j]
           /\ \A x \in DOMAIN rows[k] :
                 ~rows'[k][x].receiver /\ rows'[k][x].sender = rows[k][x].sender
  <1>. DEFINE c(x) == [rows[k][x] EXCEPT !.receiver = FALSE]
              f == [x \in DOMAIN rows[k] |-> c(x)]
  <1>0. rows[k] \in Seq(Row)
    BY DEF TableInv
  <1>1. \A x \in DOMAIN rows[k] : rows[k][x] \in Row
    BY <1>0
  <1>2. \A x \in DOMAIN rows[k] :
            /\ c(x) \in Row /\ c(x).id = rows[k][x].id /\ c(x).from = rows[k][x].from
            /\ ~c(x).receiver /\ c(x).sender = rows[k][x].sender
    BY <1>1, ClearedRow
  <1>3. rows' = [rows EXCEPT ![k] = f]
    BY DEF HideFromReceiver
  <1>. HIDE DEF c
  <1>4. f \in [DOMAIN rows[k] -> Row] /\ \A x \in DOMAIN rows[k] : f[x] = c(x)
    BY <1>2
  <1>. HIDE DEF f
  <1>5. OnlyClears(k, f)
    BY <1>2, <1>4 DEF OnlyClears
  <1>6. /\ TableInv' /\ InPlace /\ rows'[k] = f
        /\ \A j \in Keys : DOMAIN rows'[j] = DOMAIN rows[j]
        /\ \A j \in Keys \ {k} : rows'[j] = rows[j]
    BY ZenonT(40), <1>3, <1>4, <1>5, FlagsTable
  <1>. QED
    BY <1>2, <1>4, <1>6

(* CreateMessage adds such a row.                                           *)
LEMMA CreateInPlace ==
    ASSUME IInv, NEW r \in Reqs, CreateMessage(r)
    PROVE  LET k == KeyOf(ask[r].by, ask[r].to)
           IN  /\ TableInv' /\ InPlace /\ k \in Keys /\ last' = last + 1
               /\ rows' = [rows EXCEPT ![k] = Append(@, NewRow(last + 1, ask[r].by))]
               /\ NewRow(last + 1, ask[r].by) \in Row
               /\ rows'[k][Len(rows[k]) + 1] = NewRow(last + 1, ask[r].by)
               /\ Len(rows[k]) + 1 \in DOMAIN rows'[k]
  <1>. DEFINE k == KeyOf(ask[r].by, ask[r].to)
              row == NewRow(last + 1, ask[r].by)
  <1>1. TableInv /\ k \in Keys /\ ask[r].by \in Users /\ ask[r].to \in Users \cup {Group}
    BY AskTyped DEF IInv, TypeOK, TableInv
  <1>2. /\ last' = last + 1 /\ last + 1 \in Messages /\ UNCHANGED <<accounts, lost>>
        /\ rows' = [rows EXCEPT ![k] = Append(@, row)]
        /\ {ask[r].by, ask[r].to} \subseteq accounts \cup {Group}
    BY DEF CreateMessage
  <1>3. row \in Row /\ row.id = last + 1 /\ row.from = ask[r].by
    BY <1>1, <1>2 DEF NewRow, Row
  <1>4. Among(k, row, accounts)
    <2>1. CASE ask[r].to = Group
      BY <1>1, <1>2, <1>3, <2>1 DEF KeyOf, Among
    <2>2. CASE ask[r].to # Group
      BY <1>1, <1>2, <2>2 DEF KeyOf, Among
    <2>. QED
      BY <2>1, <2>2
  <1>. HIDE DEF k, row
  <1>5. /\ TableInv' /\ InPlace
        /\ rows'[k][Len(rows[k]) + 1] = row /\ Len(rows[k]) + 1 \in DOMAIN rows'[k]
    BY <1>1, <1>2, <1>3, <1>4, CreateTable
  <1>. QED
    BY <1>1, <1>2, <1>3, <1>5 DEF k, row

(* Steps that leave the table alone.                                        *)
LEMMA TableKept ==
    ASSUME \/ \E r \in Reqs : \/ CacheMessage(r) \/ DeleteNothing(r) \/ Uncache(r)
                              \/ LookInCache(r) \/ QueryOwn(r) \/ Filter(r) \/ QueryPeer(r)
                              \/ AnswerConversation(r) \/ AnswerGroup(r) \/ Fail(r)
           \/ UNCHANGED vars
    PROVE  UNCHANGED <<accounts, rows, last, lost>>
  BY DEF CacheMessage, DeleteNothing, Uncache, LookInCache, QueryOwn, Filter, QueryPeer,
     AnswerConversation, AnswerGroup, Fail, tableVars, vars

(* The second statement of a deletion is about the pair the first found.    *)
LEMMA OwnKey ==
    ASSUME IInv, NEW r \in Reqs, DeleteForReceiver(r)
    PROVE  /\ at[r] = "half" /\ own[r] \in Keys
           /\ \E to \in Users : own[r] = <<ask[r].by, to>>
  <1>1. at[r] = "half" /\ ask[r].kind = "delete"
    BY DEF DeleteForReceiver, Goes
  <1>2. PICK to \in Users : own[r] = <<ask[r].by, to>>
    BY <1>1 DEF IInv, FoundOwn
  <1>3. ask[r].by \in Users
    BY AskTyped DEF IInv
  <1>. QED
    BY <1>1, <1>2, <1>3

(* The steps that clear flags, each on one conversation.                    *)
LEMMA HidesOne ==
    ASSUME IInv, NEW r \in Reqs,
           \/ DeleteOwn(r) \/ DeleteForReceiver(r) \/ DeleteReceived(r)
           \/ ForgetSent(r) \/ ForgetReceived(r)
    PROVE  /\ UNCHANGED <<accounts, last, lost>>
           /\ \E k \in Keys : HideFromSender(k) \/ HideFromReceiver(k)
  <1>0. TypeOK
    BY DEF IInv
  <1>1. CASE DeleteOwn(r) \/ DeleteReceived(r)
    BY <1>0, <1>1, AskTyped DEF DeleteOwn, DeleteReceived
  <1>2. CASE DeleteForReceiver(r)
    <2>1. own[r] \in Keys
      BY <1>2, OwnKey
    <2>. QED
      BY <1>2, <2>1 DEF DeleteForReceiver
  <1>3. CASE ForgetSent(r)
    BY <1>0, <1>3, AskTyped DEF ForgetSent
  <1>4. CASE ForgetReceived(r)
    BY <1>0, <1>4, AskTyped DEF ForgetReceived
  <1>. QED
    BY <1>1, <1>2, <1>3, <1>4

(* The removal of an account: of the group's rows others' stay, and a       *)
(* pair's rows go or stay.                                                  *)
LEMMA LoseTable ==
    ASSUME IInv, NEW r \in Reqs, RemoveUser(r)
    PROVE  /\ TableInv' /\ Grows /\ PairsStay /\ HeldStays
           /\ \A k \in Keys \ {Group} : \A x \in DOMAIN rows'[k] : rows'[k] = rows[k]
  <1>. DEFINE u == ask[r].by
              others == {x \in DOMAIN rows[Group] : rows[Group][x].from # u}
  <1>0. TableInv /\ u \in Users /\ Group \in Keys /\ rows[Group] \in Seq(Row)
    BY AskTyped DEF IInv, TypeOK, TableInv
  <1>a. PICK n \in 0..Len(rows[Group]) : \E place \in [1..n -> others] :
            /\ \A x, y \in 1..n : x < y => place[x] < place[y]
            /\ others \subseteq {place[x] : x \in 1..n}
            /\ rows' = [k \in Keys |-> IF k = Group THEN [x \in 1..n |-> rows[k][place[x]]]
                                      ELSE IF u \in {k[1], k[2]} THEN <<>> ELSE rows[k]]
    BY DEF RemoveUser, Lose
  <1>1. PICK place \in [1..n -> others] :
            /\ \A x, y \in 1..n : x < y => place[x] < place[y]
            /\ others \subseteq {place[x] : x \in 1..n}
            /\ rows' = [k \in Keys |-> IF k = Group THEN [x \in 1..n |-> rows[k][place[x]]]
                                      ELSE IF u \in {k[1], k[2]} THEN <<>> ELSE rows[k]]
    BY <1>a
  <1>2. /\ accounts' = accounts \ {u} /\ last' = last
        /\ lost' = [k \in Keys |-> lost[k] \cup {m \in Messages : Holds(k, m) /\ ~Holds(k, m)'}]
    BY DEF RemoveUser, Lose
  <1>. HIDE DEF u
  <1>3. \A x \in 1..n : /\ place[x] \in DOMAIN rows[Group] /\ rows[Group][place[x]] \in Row
                        /\ rows[Group][place[x]].from # u /\ place[x] \in Nat
    BY <1>0, <1>1
  <1>4. \A x, y \in 1..n : place[x] = place[y] => x = y
    BY <1>1, <1>3
  <1>5. /\ rows'[Group] \in Seq(Row) /\ DOMAIN rows'[Group] = 1..n
        /\ \A x \in 1..n : rows'[Group][x] = rows[Group][place[x]]
    <2>1. rows'[Group] = [x \in 1..n |-> rows[Group][place[x]]]
      BY <1>0, <1>1
    <2>2. [x \in 1..n |-> rows[Group][place[x]]] \in [1..n -> Row] /\ n \in Nat
      BY <1>1, <1>3
    <2>3. [x \in 1..n |-> rows[Group][place[x]]] \in Seq(Row)
      BY <2>2, FunctionIsSeq
    <2>. QED
      BY <2>1, <2>3
  <1>6. \A k \in Keys \ {Group} : \/ u \in {k[1], k[2]} /\ rows'[k] = <<>>
                                  \/ u \notin {k[1], k[2]} /\ rows'[k] = rows[k]
    BY <1>1
  <1>7. rows' \in [Keys -> Seq(Row)]
    <2>1. ASSUME NEW k \in Keys PROVE rows'[k] \in Seq(Row)
      <3>1. rows[k] \in Seq(Row) /\ <<>> \in Seq(Row)
        BY <1>0 DEF TableInv
      <3>. QED
        BY <1>5, <1>6, <3>1
    <2>2. DOMAIN rows' = Keys /\ rows' = [k \in DOMAIN rows' |-> rows'[k]]
      BY <1>1
    <2>. QED
      BY <2>1, <2>2
  <1>8. DOMAIN <<>> = {}
    OBVIOUS
  <1>9. \A k \in Keys : \A x \in DOMAIN rows'[k] :
            \E z \in DOMAIN rows[k] : /\ rows'[k][x] = rows[k][z] /\ z = IF k = Group THEN place[x] ELSE x
                                      /\ Among(k, rows[k][z], accounts \ {u})
    <2>1. ASSUME NEW x \in 1..n PROVE Among(Group, rows[Group][place[x]], accounts \ {u})
      BY <1>0, <1>3 DEF TableInv, Among
    <2>2. ASSUME NEW k \in Keys \ {Group}, NEW x \in DOMAIN rows[k], u \notin {k[1], k[2]}
          PROVE  Among(k, rows[k][x], accounts \ {u})
      BY <1>0, <2>2 DEF TableInv, Among
    <2>3. ASSUME NEW x \in DOMAIN rows'[Group]
          PROVE  /\ place[x] \in DOMAIN rows[Group] /\ rows'[Group][x] = rows[Group][place[x]]
                 /\ Among(Group, rows[Group][place[x]], accounts \ {u})
      BY <1>3, <1>5, <2>1
    <2>4. ASSUME NEW k \in Keys \ {Group}, NEW x \in DOMAIN rows'[k]
          PROVE  /\ x \in DOMAIN rows[k] /\ rows'[k][x] = rows[k][x]
                 /\ Among(k, rows[k][x], accounts \ {u})
      BY <1>6, <1>8, <2>2
    <2>. SUFFICES ASSUME NEW k \in Keys, NEW x \in DOMAIN rows'[k]
                  PROVE  \E z \in DOMAIN rows[k] :
                            /\ rows'[k][x] = rows[k][z] /\ z = IF k = Group THEN place[x] ELSE x
                            /\ Among(k, rows[k][z], accounts \ {u})
      OBVIOUS
    <2>5. CASE k = Group
      BY <2>3, <2>5
    <2>6. CASE k # Group
      BY <2>4, <2>6
    <2>. QED
      BY <2>5, <2>6
  <1>10. UniqueIds'
    <2>. SUFFICES ASSUME NEW i \in Keys, NEW j \in Keys,
                         NEW x \in DOMAIN rows'[i], NEW y \in DOMAIN rows'[j],
                         rows'[i][x].id = rows'[j][y].id
                  PROVE  i = j /\ x = y
      BY DEF UniqueIds
    <2>1. PICK w \in DOMAIN rows[i] : rows'[i][x] = rows[i][w] /\ w = IF i = Group THEN place[x] ELSE x
      BY <1>9
    <2>2. PICK z \in DOMAIN rows[j] : rows'[j][y] = rows[j][z] /\ z = IF j = Group THEN place[y] ELSE y
      BY <1>9
    <2>3. i = j /\ w = z
      <3>1. rows[i][w].id = rows[j][z].id
        BY <2>1, <2>2
      <3>. QED
        BY <1>0, <3>1 DEF TableInv, UniqueIds
    <2>4. CASE i = Group
      <3>1. x \in 1..n /\ y \in 1..n /\ place[x] = place[y]
        BY <1>5, <2>1, <2>2, <2>3, <2>4
      <3>. QED
        BY <1>4, <2>3, <3>1
    <2>. QED
      BY <2>1, <2>2, <2>3, <2>4
  <1>11. \A k \in Keys : \A x \in DOMAIN rows'[k] :
             rows'[k][x].id <= last' /\ Among(k, rows'[k][x], accounts')
    <2>. SUFFICES ASSUME NEW k \in Keys, NEW x \in DOMAIN rows'[k]
                  PROVE  rows'[k][x].id <= last' /\ Among(k, rows'[k][x], accounts')
      OBVIOUS
    <2>1. PICK z \in DOMAIN rows[k] : /\ rows'[k][x] = rows[k][z]
                                      /\ Among(k, rows[k][z], accounts \ {u})
      BY <1>9
    <2>2. rows[k][z].id <= last
      BY <1>0 DEF TableInv
    <2>. QED
      BY <1>2, <2>1, <2>2
  <1>12. TableInv'
    <2>1. lost' \in [Keys -> SUBSET Messages]
      BY <1>0, <1>2 DEF TableInv
    <2>. QED
      BY <1>0, <1>2, <1>7, <1>10, <1>11, <2>1 DEF TableInv
  <1>13. Grows
    <2>1. ASSUME NEW x \in DOMAIN rows[Group]
          PROVE  \/ ~Among(Group, rows[Group][x], accounts')
                 \/ \E y \in DOMAIN rows'[Group] : rows'[Group][y] = rows[Group][x]
      <3>1. CASE rows[Group][x].from = u
        BY <1>2, <3>1 DEF Among
      <3>2. CASE rows[Group][x].from # u
        <4>1. PICK y \in 1..n : place[y] = x
          BY <1>1, <3>2
        <4>. QED
          BY <1>5, <4>1
      <3>. QED
        BY <3>1, <3>2
    <2>2. ASSUME NEW k \in Keys \ {Group}, NEW x \in DOMAIN rows[k]
          PROVE  \/ ~Among(k, rows[k][x], accounts')
                 \/ \E y \in DOMAIN rows'[k] : rows'[k][y] = rows[k][x]
      BY <1>2, <1>6 DEF Among
    <2>3. last <= last' /\ accounts' \subseteq accounts
      BY <1>0, <1>2 DEF TableInv
    <2>. DEFINE Found(k, old) ==
                  \/ ~Among(k, old, accounts')
                  \/ \E y \in DOMAIN rows'[k] : Keeps(old, rows'[k][y])
    <2>4. \A x \in DOMAIN rows[Group] : Found(Group, rows[Group][x])
      BY <2>1 DEF Keeps
    <2>5. \A k \in Keys \ {Group} : \A x \in DOMAIN rows[k] : Found(k, rows[k][x])
      <3>. SUFFICES ASSUME NEW k \in Keys \ {Group}, NEW x \in DOMAIN rows[k],
                           Among(k, rows[k][x], accounts')
                    PROVE  \E y \in DOMAIN rows'[k] : Keeps(rows[k][x], rows'[k][y])
        OBVIOUS
      <3>1. PICK y \in DOMAIN rows'[k] : rows'[k][y] = rows[k][x]
        BY ZenonT(30), <2>2
      <3>2. Keeps(rows[k][x], rows'[k][y])
        BY <3>1 DEF Keeps
      <3>. QED
        BY <3>2
    <2>. HIDE DEF Found
    <2>6. \A k \in Keys : \A x \in DOMAIN rows[k] : Found(k, rows[k][x])
      <3>. SUFFICES ASSUME NEW k \in Keys
                    PROVE  \A x \in DOMAIN rows[k] : Found(k, rows[k][x])
        OBVIOUS
      <3>1. CASE k = Group
        BY <2>4, <3>1
      <3>2. CASE k # Group
        BY <2>5, <3>2
      <3>. QED
        BY <3>1, <3>2
    <2>. QED
      BY <2>3, <2>6 DEF Grows, Found
  <1>14. PairsStay
    BY <1>6, <1>8 DEF PairsStay, Keeps
  <1>15. HeldStays
    <2>1. ASSUME NEW k \in Keys, NEW m, Holds(k, m) PROVE m \in Messages
      <3>1. PICK x \in DOMAIN rows[k] : rows[k][x].id = m
        BY <2>1 DEF Holds
      <3>2. rows[k] \in Seq(Row)
        BY <1>0 DEF TableInv
      <3>3. rows[k][x] \in Row
        BY <3>2
      <3>. QED
        BY <3>1, <3>3 DEF Row
    <2>2. ASSUME NEW k \in Keys, NEW m, Held(k, m) PROVE Holds(k, m)' \/ m \in lost'[k]
      BY <1>2, <2>1, <2>2 DEF Held
    <2>. QED
      BY <2>2 DEF HeldStays, Held
  <1>. QED
    BY <1>6, <1>8, <1>12, <1>13, <1>14, <1>15

(* Every step of every handler keeps the table in order.                    *)
LEMMA TableStep ==
    ASSUME IInv, [Next]_vars
    PROVE  TableInv' /\ Grows /\ PairsStay /\ HeldStays
  <1>0. TableInv
    BY DEF IInv, TypeOK, TableInv
  <1>1. ASSUME NEW r \in Reqs, CreateMessage(r) PROVE TableInv' /\ InPlace
    BY <1>1, CreateInPlace
  <1>2. ASSUME NEW r \in Reqs,
               \/ DeleteOwn(r) \/ DeleteForReceiver(r) \/ DeleteReceived(r)
               \/ ForgetSent(r) \/ ForgetReceived(r)
        PROVE  TableInv' /\ InPlace
    BY <1>0, <1>2, HidesOne, HideSenderTable, HideReceiverTable
  <1>3. CASE UNCHANGED <<accounts, rows, last, lost>>
    <2>1. TableInv'
      BY <1>0, <1>3 DEF TableInv, UniqueIds
    <2>2. InPlace
      BY <1>0, <1>3 DEF TableInv, InPlace, Keeps
    <2>. QED
      BY <1>0, <2>1, <2>2, InPlaceStays
  <1>4. CASE \E r \in Reqs : RemoveUser(r)
    BY <1>4, LoseTable
  <1>5. CASE \E r \in Reqs : \/ CreateMessage(r) \/ DeleteOwn(r) \/ DeleteForReceiver(r)
                             \/ DeleteReceived(r) \/ ForgetSent(r) \/ ForgetReceived(r)
    BY <1>0, <1>1, <1>2, <1>5, InPlaceStays
  <1>. QED
    BY <1>3, <1>4, <1>5, TableKept DEF Next
-----------------------------------------------------------------------------
(* Who hides                                                                *)

(* The conversation of two users is not the group's.                        *)
LEMMA PairKey ==
    ASSUME NEW a \in Users, NEW b \in Users
    PROVE  <<a, b>> \in Keys \ {Group} /\ <<a, b>> # None
  OBVIOUS

(* The statements that hide the messages of a to b from a, and from b.      *)
HidesSent(r, a, b) ==
    \/ DeleteOwn(r) /\ ask[r].by = a /\ own'[r] = <<a, b>>
    \/ ForgetSent(r) /\ ask[r].by = a /\ ask[r].to = b

HidesReceived(r, a, b) ==
    \/ DeleteForReceiver(r) /\ own[r] = <<a, b>>
    \/ DeleteReceived(r) /\ ask[r].by = b /\ Holds(<<a, b>>, ask[r].msg)
    \/ ForgetReceived(r) /\ ask[r].by = b /\ ask[r].to = a

(* They name their conversation.                                            *)
LEMMA HidesWhose ==
    ASSUME IInv, NEW r \in Reqs, NEW a \in Users, NEW b \in Users, NEW x \in DOMAIN rows[<<a, b>>],
           \/ DeleteOwn(r) \/ DeleteForReceiver(r) \/ DeleteReceived(r)
           \/ ForgetSent(r) \/ ForgetReceived(r)
    PROVE  /\ rows[<<a, b>>][x].sender /\ ~rows'[<<a, b>>][x].sender => HidesSent(r, a, b)
           /\ rows[<<a, b>>][x].receiver /\ ~rows'[<<a, b>>][x].receiver => HidesReceived(r, a, b)
  <1>. DEFINE k == <<a, b>>
              hidesSender == rows[k][x].sender /\ ~rows'[k][x].sender
              hidesReceiver == rows[k][x].receiver /\ ~rows'[k][x].receiver
  <1>0. /\ TableInv /\ k \in Keys /\ ask[r].by \in Users /\ own \in [Reqs -> Keys \cup {None}]
    BY AskTyped DEF IInv, TypeOK, TableInv
  <1>1. ASSUME NEW j \in Keys, HideFromSender(j), UNCHANGED <<accounts, last, lost>>
        PROVE  ~hidesReceiver /\ (hidesSender => j = k)
    <2>. HIDE DEF k
    <2>2. /\ \A i \in Keys \ {j} : rows'[i] = rows[i]
          /\ \A y \in DOMAIN rows[j] : rows'[j][y].receiver = rows[j][y].receiver
      BY <1>0, <1>1, HideSenderTable
    <2>. QED
      BY <1>0, <2>2 DEF k
  <1>2. ASSUME NEW j \in Keys, HideFromReceiver(j), UNCHANGED <<accounts, last, lost>>
        PROVE  ~hidesSender /\ (hidesReceiver => j = k)
    <2>. HIDE DEF k
    <2>2. /\ \A i \in Keys \ {j} : rows'[i] = rows[i]
          /\ \A y \in DOMAIN rows[j] : rows'[j][y].sender = rows[j][y].sender
      BY <1>0, <1>2, HideReceiverTable
    <2>. QED
      BY <1>0, <2>2 DEF k
  <1>. HIDE DEF hidesSender, hidesReceiver
  <1>3. ASSUME DeleteOwn(r) PROVE ~hidesReceiver /\ (hidesSender => ask[r].by = a /\ own'[r] = k)
    <2>1. PICK to \in Users : /\ HideFromSender(<<ask[r].by, to>>)
                              /\ own' = [own EXCEPT ![r] = <<ask[r].by, to>>]
      BY <1>3 DEF DeleteOwn
    <2>2. UNCHANGED <<accounts, last, lost>>
      BY <1>3 DEF DeleteOwn
    <2>3. ~hidesReceiver /\ (hidesSender => <<ask[r].by, to>> = k)
      BY <1>0, <1>1, <2>1, <2>2, PairKey
    <2>. QED
      BY <1>0, <2>1, <2>3
  <1>4. ForgetSent(r) => ~hidesReceiver /\ (hidesSender => ask[r].by = a /\ ask[r].to = b)
    <2>1. ForgetSent(r) => ask[r].to \in Users
      BY AskTyped DEF ForgetSent, IInv
    <2>. QED
      BY <1>0, <1>1, <2>1, PairKey DEF ForgetSent
  <1>5. DeleteForReceiver(r) => ~hidesSender /\ (hidesReceiver => own[r] = k)
    BY <1>2, OwnKey DEF DeleteForReceiver
  <1>6. ASSUME DeleteReceived(r)
        PROVE  ~hidesSender /\ (hidesReceiver => ask[r].by = b /\ Holds(k, ask[r].msg))
    <2>1. PICK from \in Users : /\ HideFromReceiver(<<from, ask[r].by>>)
                                /\ Holds(<<from, ask[r].by>>, ask[r].msg)
      BY <1>6 DEF DeleteReceived
    <2>2. UNCHANGED <<accounts, last, lost>>
      BY <1>6 DEF DeleteReceived
    <2>3. ~hidesSender /\ (hidesReceiver => <<from, ask[r].by>> = k)
      BY <1>0, <1>2, <2>1, <2>2, PairKey
    <2>. QED
      BY <2>1, <2>3
  <1>7. ForgetReceived(r) => ~hidesSender /\ (hidesReceiver => ask[r].by = b /\ ask[r].to = a)
    <2>1. ForgetReceived(r) => ask[r].to \in Users
      BY AskTyped DEF ForgetReceived, IInv
    <2>. QED
      BY <1>0, <1>2, <2>1, PairKey DEF ForgetReceived
  <1>. QED
    BY <1>3, <1>4, <1>5, <1>6, <1>7 DEF hidesSender, hidesReceiver, HidesSent, HidesReceived

(* A row is new and not hidden, or was there, and who clears one of its     *)
(* flags is known.                                                          *)
LEMMA RowStep ==
    ASSUME IInv, [Next]_vars, NEW a \in Users, NEW b \in Users, NEW x \in DOMAIN rows'[<<a, b>>]
    PROVE  \/ /\ rows'[<<a, b>>][x].sender /\ rows'[<<a, b>>][x].receiver
              /\ rows'[<<a, b>>][x].id > last
           \/ /\ x \in DOMAIN rows[<<a, b>>] /\ Keeps(rows[<<a, b>>][x], rows'[<<a, b>>][x])
              /\ rows[<<a, b>>][x].sender /\ ~rows'[<<a, b>>][x].sender =>
                    \E r \in Reqs : HidesSent(r, a, b)
              /\ rows[<<a, b>>][x].receiver /\ ~rows'[<<a, b>>][x].receiver =>
                    \E r \in Reqs : HidesReceived(r, a, b)
  <1>. DEFINE k == <<a, b>>
  <1>0. TableInv /\ k \in Keys \ {Group}
    BY PairKey DEF IInv, TypeOK, TableInv
  <1>1. ASSUME NEW r \in Reqs, CreateMessage(r)
        PROVE  \/ rows'[k][x].sender /\ rows'[k][x].receiver /\ rows'[k][x].id > last
               \/ x \in DOMAIN rows[k] /\ rows'[k][x] = rows[k][x]
    <2>. DEFINE j == KeyOf(ask[r].by, ask[r].to)
                row == NewRow(last + 1, ask[r].by)
    <2>1. /\ j \in Keys /\ rows' = [rows EXCEPT ![j] = Append(@, row)]
          /\ row.id = last + 1 /\ row.sender /\ row.receiver /\ row \in Row
      BY <1>1, CreateInPlace DEF NewRow
    <2>. HIDE DEF j, k, row
    <2>2. k # j => rows'[k] = rows[k]
      BY <1>0, <2>1 DEF TableInv
    <2>3. k = j => rows[k] \in Seq(Row) /\ rows'[k] = Append(rows[k], row)
      BY <1>0, <2>1 DEF TableInv
    <2>4. x \in DOMAIN rows'[k]
      BY DEF k
    <2>5. last \in Nat
      BY <1>0 DEF TableInv
    <2>6. k = j => (x \in DOMAIN rows[k] /\ rows'[k][x] = rows[k][x]) \/ rows'[k][x] = row
      <3>1. CASE k = j /\ x \in DOMAIN rows[k]
        BY <2>1, <2>3, <3>1
      <3>2. CASE k = j /\ x \notin DOMAIN rows[k]
        BY <2>1, <2>3, <2>4, <3>2
      <3>. QED
        BY <3>1, <3>2
    <2>. QED
      BY <2>1, <2>2, <2>4, <2>5, <2>6
  <1>2. ASSUME NEW r \in Reqs,
               \/ DeleteOwn(r) \/ DeleteForReceiver(r) \/ DeleteReceived(r)
               \/ ForgetSent(r) \/ ForgetReceived(r)
        PROVE  x \in DOMAIN rows[k]
    <2>1. \A j \in Keys : DOMAIN rows'[j] = DOMAIN rows[j]
      BY <1>0, <1>2, HidesOne, HideSenderTable, HideReceiverTable
    <2>. QED
      BY <1>0, <2>1
  <1>3. x \in DOMAIN rows[k] => Keeps(rows[k][x], rows'[k][x])
    BY <1>0, TableStep DEF PairsStay
  <1>4. CASE rows'[k][x] = rows[k][x] /\ x \in DOMAIN rows[k]
    BY <1>3, <1>4
  <1>5. CASE rows' = rows
    BY <1>4, <1>5
  <1>6. CASE \E r \in Reqs : CreateMessage(r)
    BY <1>1, <1>4, <1>6
  <1>7. CASE \E r \in Reqs : RemoveUser(r)
    BY <1>0, <1>4, <1>7, LoseTable
  <1>8. CASE \E r \in Reqs : \/ DeleteOwn(r) \/ DeleteForReceiver(r) \/ DeleteReceived(r)
                             \/ ForgetSent(r) \/ ForgetReceived(r)
    BY <1>2, <1>3, <1>8, HidesWhose
  <1>. QED
    BY <1>5, <1>6, <1>7, <1>8, TableKept DEF Next

-----------------------------------------------------------------------------
(* Times that requests note                                                 *)

(* A request notes a time with its first step and keeps it.                 *)
LEMMA StampStep ==
    ASSUME IInv, [Next]_vars
    PROVE  /\ stamp' \in [Reqs -> 0..last']
           /\ \A r \in Reqs : at[r] # "start" \/ at'[r] = "start" => stamp'[r] = stamp[r]
  <1>0. stamp \in [Reqs -> 0..last] /\ last \in Nat /\ at \in [Reqs -> Places]
    BY DEF IInv, TypeOK
  <1>1. ASSUME NEW r \in Reqs, CreateMessage(r)
        PROVE  /\ last' = last + 1 /\ stamp' = [stamp EXCEPT ![r] = last']
               /\ at[r] = "start" /\ at'[r] # "start"
    BY <1>0, <1>1 DEF CreateMessage, Goes
  <1>2. ASSUME NEW r \in Reqs, DeleteOwn(r) \/ DeleteReceived(r) \/ ForgetSent(r)
        PROVE  /\ last' = last /\ stamp' = [stamp EXCEPT ![r] = last']
               /\ at[r] = "start" /\ at'[r] # "start"
    BY <1>0, <1>2 DEF DeleteOwn, DeleteReceived, ForgetSent, Stamp, Goes
  <1>3. ASSUME NEW r \in Reqs, last' \in Nat, last <= last', stamp' = [stamp EXCEPT ![r] = last'],
               at[r] = "start", at'[r] # "start"
        PROVE  /\ stamp' \in [Reqs -> 0..last']
               /\ \A s \in Reqs : at[s] # "start" \/ at'[s] = "start" => stamp'[s] = stamp[s]
    BY <1>0, <1>3
  <1>4. CASE stamp' = stamp /\ last' = last
    BY <1>0, <1>4
  <1>5. \/ \E r \in Reqs : \/ CreateMessage(r) \/ DeleteOwn(r) \/ DeleteReceived(r) \/ ForgetSent(r)
        \/ stamp' = stamp /\ last' = last
    BY DEF Next, vars, tableVars, CacheMessage, DeleteForReceiver, DeleteNothing, Uncache,
       ForgetReceived, RemoveUser, LookInCache, QueryOwn, Filter, QueryPeer, AnswerConversation,
       AnswerGroup, Fail
  <1>6. CASE \E r \in Reqs : CreateMessage(r)
    BY SMTT(30), <1>0, <1>1, <1>3, <1>6
  <1>7. CASE \E r \in Reqs : DeleteOwn(r) \/ DeleteReceived(r) \/ ForgetSent(r)
    BY <1>0, <1>2, <1>3, <1>7
  <1>. QED
    BY <1>4, <1>5, <1>6, <1>7
-----------------------------------------------------------------------------
(* The cache                                                                *)

Has(list) == IF list = None THEN {} ELSE TimesIn(list)

(* A list of the cache gets zero messages, and messages whose rows have     *)
(* been stored.                                                             *)
LEMMA CacheStep ==
    ASSUME IInv, [Next]_vars
    PROVE  /\ conv' \in [Keys -> Seq(Entry) \cup {None}]
           /\ \A k \in Keys : \A m \in Has(conv'[k]) :
                 \/ m = 0 \/ m \in Has(conv[k])
                 \/ \E r \in Reqs : at[r] = "stored" /\ k = CacheKey(r) /\ m = stamp[r]
  <1>0. conv \in [Keys -> Seq(Entry) \cup {None}]
    BY DEF IInv, TypeOK
  <1>1. ASSUME NEW r \in Reqs, CacheMessage(r), ask[r].plain
        PROVE  \E e \in Entry : /\ at[r] = "stored" /\ e.at = stamp[r] /\ CacheKey(r) \in Keys
                                /\ conv' = [conv EXCEPT ![CacheKey(r)] =
                                               IF @ = None THEN FirstList(e) ELSE Inserted(@, e)]
    <2>1. at[r] = "stored" /\ MapSet(CacheKey(r), stamp[r])
      BY <1>1 DEF CacheMessage, Goes
    <2>2. stamp[r] \in Messages /\ CacheKey(r) \in Keys
      BY <2>1, AskTyped DEF IInv, Placed
    <2>3. NewMessage(stamp[r]) \in Entry /\ NewMessage(stamp[r]).at = stamp[r]
      BY <2>2 DEF NewMessage, Entry
    <2>. QED
      BY <2>1, <2>2, <2>3 DEF MapSet
  <1>2. ASSUME NEW r \in Reqs, CacheMessage(r), ask[r].plain
        PROVE  /\ conv' \in [Keys -> Seq(Entry) \cup {None}]
               /\ \A k \in Keys : \A m \in Has(conv'[k]) :
                     m = 0 \/ m \in Has(conv[k]) \/ (at[r] = "stored" /\ k = CacheKey(r) /\ m = stamp[r])
    <2>. DEFINE k == CacheKey(r)
    <2>1. PICK e \in Entry : /\ at[r] = "stored" /\ e.at = stamp[r] /\ k \in Keys
                             /\ conv' = [conv EXCEPT ![k] = IF @ = None THEN FirstList(e)
                                                           ELSE Inserted(@, e)]
      BY <1>1, <1>2
    <2>. HIDE DEF k
    <2>2. conv'[k] = IF conv[k] = None THEN FirstList(e) ELSE Inserted(conv[k], e)
      BY <1>0, <2>1
    <2>3. conv'[k] \in Seq(Entry) /\ TimesIn(conv'[k]) \subseteq Has(conv[k]) \cup {0, stamp[r]}
      <3>1. CASE conv[k] = None
        BY <2>1, <2>2, <3>1, FirstListTimes DEF Has
      <3>2. CASE conv[k] # None
        BY <1>0, <2>1, <2>2, <3>2, InsertedTimes DEF Has
      <3>. QED
        BY <3>1, <3>2
    <2>4. \A j \in Keys \ {k} : conv'[j] = conv[j]
      BY <1>0, <2>1
    <2>. QED
      BY <1>0, <2>1, <2>3, <2>4 DEF Has, k
  <1>3. ASSUME NEW k \in Keys, NEW m, MapRemoveMessage(k, m)
        PROVE  /\ conv' \in [Keys -> Seq(Entry) \cup {None}]
               /\ \A j \in Keys : \A n \in Has(conv'[j]) : n = 0 \/ n \in Has(conv[j])
    <2>1. conv[k] \in Seq(Entry) /\ conv'[k] = Removed(conv[k], m) /\ conv[k] # None
      BY <1>0, <1>3 DEF MapRemoveMessage
    <2>2. conv'[k] \in Seq(Entry) /\ TimesIn(conv'[k]) \subseteq TimesIn(conv[k]) \cup {0}
      BY <2>1, RemovedTimes
    <2>3. \A j \in Keys \ {k} : conv'[j] = conv[j]
      BY <1>0, <1>3 DEF MapRemoveMessage
    <2>. QED
      BY <1>0, <1>3, <2>1, <2>2, <2>3 DEF Has, MapRemoveMessage
  <1>4. \/ \E r \in Reqs : CacheMessage(r) /\ ask[r].plain
        \/ \E k \in Keys, m \in Messages : MapRemoveMessage(k, m)
        \/ conv' = conv
    <2>1. ASSUME NEW r \in Reqs, Uncache(r)
          PROVE  (\E k \in Keys : MapRemoveMessage(k, ask[r].msg)) \/ conv' = conv
      <3>1. own[r] \in Keys \cup {None}
        BY DEF IInv, TypeOK
      <3>. QED
        BY <2>1, <3>1 DEF Uncache
    <2>2. \A r \in Reqs : ask[r].msg \in Messages
      BY AskTyped DEF IInv
    <2>3. \A r \in Reqs : CacheMessage(r) => ask[r].plain \/ conv' = conv
      BY DEF CacheMessage
    <2>. QED
      BY <2>1, <2>2, <2>3 DEF Next, vars, CreateMessage, DeleteOwn, DeleteForReceiver, DeleteReceived,
         DeleteNothing, ForgetSent, ForgetReceived, RemoveUser, LookInCache, QueryOwn, Filter, QueryPeer,
         AnswerConversation, AnswerGroup, Fail
  <1>5. CASE conv' = conv
    <2>1. conv' \in [Keys -> Seq(Entry) \cup {None}]
      BY <1>0, <1>5
    <2>2. \A k \in Keys : conv'[k] = conv[k]
      BY <1>5
    <2>. QED
      BY <2>1, <2>2 DEF Has
  <1>6. CASE \E r \in Reqs : CacheMessage(r) /\ ask[r].plain
    <2>1. PICK r \in Reqs : CacheMessage(r) /\ ask[r].plain
      BY <1>6
    <2>2. /\ conv' \in [Keys -> Seq(Entry) \cup {None}]
          /\ \A k \in Keys : \A m \in Has(conv'[k]) :
                m = 0 \/ m \in Has(conv[k]) \/ (at[r] = "stored" /\ k = CacheKey(r) /\ m = stamp[r])
      BY <1>2, <2>1
    <2>. QED
      BY <2>2
  <1>7. CASE \E k \in Keys, m \in Messages : MapRemoveMessage(k, m)
    BY <1>3, <1>7
  <1>. QED
    BY <1>4, <1>5, <1>6, <1>7
-----------------------------------------------------------------------------
(* The loops of the readers                                                 *)

(* What a query yields is a list of items.                                  *)
LEMMA PageIsList ==
    ASSUME IInv, NEW k \in Keys, NEW n \in 0..Limit, n <= Len(rows[k])
    PROVE  /\ [x \in 1..n |-> [id |-> rows[k][x].id, sees |-> rows[k][x].sender]]
                 \in Seq(Item(Messages))
           /\ [x \in 1..n |-> [id |-> rows[k][x].id, sees |-> rows[k][x].receiver]]
                 \in Seq(Item(Messages))
           /\ [x \in 1..n |-> rows[k][x].id] \in Seq(Messages \cup {0})
  <1>. DEFINE s(x) == [id |-> rows[k][x].id, sees |-> rows[k][x].sender]
              t(x) == [id |-> rows[k][x].id, sees |-> rows[k][x].receiver]
              u(x) == rows[k][x].id
  <1>1. rows[k] \in Seq(Row) /\ n \in Nat
    BY DEF IInv, TypeOK
  <1>2. \A x \in 1..n : rows[k][x] \in Row
    BY <1>1
  <1>3. \A x \in 1..n : s(x) \in Item(Messages) /\ t(x) \in Item(Messages) /\ u(x) \in Messages \cup {0}
    BY <1>2 DEF Row, Item
  <1>. HIDE DEF s, t, u
  <1>4. /\ [x \in 1..n |-> s(x)] \in [1..n -> Item(Messages)]
        /\ [x \in 1..n |-> t(x)] \in [1..n -> Item(Messages)]
        /\ [x \in 1..n |-> u(x)] \in [1..n -> Messages \cup {0}]
    BY <1>3
  <1>5. /\ [x \in 1..n |-> s(x)] \in Seq(Item(Messages))
        /\ [x \in 1..n |-> t(x)] \in Seq(Item(Messages))
        /\ [x \in 1..n |-> u(x)] \in Seq(Messages \cup {0})
    BY <1>1, <1>4, FunctionIsSeq
  <1>. QED
    BY <1>5 DEF s, t, u

(* A query's rows are items of the array the loop works on.                *)
LEMMA ItemsGrow ==
    ASSUME NEW items \in Seq(Item(Messages))
    PROVE  items \in Seq(Items)
  <1>1. Item(Messages) \subseteq Items
    BY DEF Item, Items
  <1>. QED
    BY <1>1

LoopVarsType ==
    /\ loop \in [Reqs -> LoopType] /\ LoopsRight
    /\ kept \in [Reqs -> Seq(Items)] /\ queried \in [Reqs -> Seq(Item(Messages))]

(* Every loop begins with what a query yields, and goes on as it should.    *)
LEMMA LoopStep ==
    ASSUME IInv, [Next]_vars
    PROVE  LoopVarsType'
  <1>0. LoopVarsType
    BY DEF IInv, TypeOK, LoopVarsType, Items, LoopType
  <1>1. ASSUME NEW r \in Reqs, NEW items \in Seq(Item(Messages)), Begin(r, items),
               kept' \in [Reqs -> Seq(Items)]
        PROVE  LoopVarsType'
    <2>1. LoopState(LoopOver(items), items)
      BY ItemsGrow, LoopBegins
    <2>. QED
      BY <1>0, <1>1, <2>1 DEF Begin, LoopVarsType, LoopsRight, LoopState
  <1>2. ASSUME NEW r \in Reqs, QueryOwn(r) PROVE LoopVarsType'
    <2>1. <<ask[r].by, ask[r].to>> \in Keys
      BY <1>2, AskTyped DEF QueryOwn, IInv
    <2>2. \E items \in Seq(Item(Messages)) : Begin(r, items)
      BY <1>2, <2>1, PageIsList DEF QueryOwn, IsPage
    <2>3. kept' = kept
      BY <1>2 DEF QueryOwn
    <2>. QED
      BY <1>0, <1>1, <2>2, <2>3 DEF LoopVarsType
  <1>3. ASSUME NEW r \in Reqs, QueryPeer(r) PROVE LoopVarsType'
    <2>1. at[r] = "own" /\ ~Looking(loop[r]) /\ kept' = [kept EXCEPT ![r] = Result(loop[r])]
      BY <1>3 DEF QueryPeer, Goes
    <2>2. <<ask[r].to, ask[r].by>> \in Keys
      BY <2>1, AskTyped DEF IInv, Placed
    <2>3. \E items \in Seq(Item(Messages)) : Begin(r, items)
      BY <1>3, <2>2, PageIsList DEF QueryPeer, IsPage
    <2>4. Result(loop[r]) \in Seq(Items)
      BY <2>1, LoopIsExact DEF IInv, LoopsRight
    <2>5. kept' \in [Reqs -> Seq(Items)]
      BY <1>0, <2>1, <2>4 DEF LoopVarsType
    <2>. QED
      BY <1>1, <2>3, <2>5
  <1>4. ASSUME NEW r \in Reqs, Filter(r) PROVE LoopVarsType'
    <2>1. /\ Looking(loop[r]) /\ UNCHANGED <<kept, queried>>
          /\ \/ loop' = loop
             \/ /\ ~(Cuts(loop[r]) /\ OutOfRange(loop[r]))
                /\ loop' = [loop EXCEPT ![r] = Advanced(@)]
      BY <1>4 DEF Filter
    <2>2. ~(Cuts(loop[r]) /\ OutOfRange(loop[r])) => LoopState(Advanced(loop[r]), queried[r])
      BY <2>1, LoopGoesOn DEF IInv, LoopsRight
    <2>3. CASE loop' = loop
      BY <1>0, <2>1, <2>3 DEF LoopVarsType, LoopsRight
    <2>4. CASE /\ LoopState(Advanced(loop[r]), queried[r])
               /\ loop' = [loop EXCEPT ![r] = Advanced(@)]
      <3>1. Advanced(loop[r]) \in LoopType
        BY <2>4 DEF LoopState
      <3>2. loop' \in [Reqs -> LoopType]
        BY <1>0, <2>4, <3>1 DEF LoopVarsType
      <3>3. LoopsRight'
        BY <1>0, <2>1, <2>4 DEF LoopVarsType, LoopsRight
      <3>. QED
        BY <1>0, <2>1, <3>2, <3>3 DEF LoopVarsType
    <2>. QED
      BY <2>1, <2>2, <2>3, <2>4
  <1>5. CASE UNCHANGED <<loop, kept, queried>>
    BY <1>0, <1>5 DEF LoopVarsType, LoopsRight
  <1>6. \/ \E r \in Reqs : QueryOwn(r) \/ QueryPeer(r) \/ Filter(r)
        \/ UNCHANGED <<loop, kept, queried>>
    BY DEF Next, vars, readVars, loopVars, CreateMessage, CacheMessage, DeleteOwn, DeleteForReceiver,
       DeleteReceived, DeleteNothing, Uncache, ForgetSent, ForgetReceived, RemoveUser, LookInCache,
       AnswerConversation, AnswerGroup, Fail
  <1>. QED
    BY <1>2, <1>3, <1>4, <1>5, <1>6
-----------------------------------------------------------------------------
(* The answers                                                              *)

(* What is hidden from a user are messages.                                *)
LEMMA HiddenAreMessages ==
    ASSUME IInv, NEW a \in Users, NEW b \in Users
    PROVE  HiddenFrom(a, b) \subseteq Messages
  <1>1. \A k \in Keys : rows[k] \in Seq(Row)
    BY DEF IInv, TypeOK
  <1>2. \A k \in Keys : \A x \in DOMAIN rows[k] : rows[k][x].id \in Messages
    <2>1. \A k \in Keys : \A x \in DOMAIN rows[k] : rows[k][x] \in Row
      BY <1>1
    <2>. QED
      BY <2>1 DEF Row
  <1>3. <<a, b>> \in Keys /\ <<b, a>> \in Keys
    OBVIOUS
  <1>. QED
    BY <1>2, <1>3 DEF HiddenFrom

(* An answer is as long as the messages it is made from.                   *)
LEMMA IdsAreList ==
    ASSUME NEW items \in Seq(Items)
    PROVE  /\ IdsOf(items) \in Seq(Messages \cup {0})
           /\ DOMAIN IdsOf(items) = DOMAIN items
           /\ \A x \in DOMAIN items : IdsOf(items)[x] = items[x].id
  <1>1. \A x \in DOMAIN items : items[x] \in Items
    OBVIOUS
  <1>2. \A x \in DOMAIN items : items[x].id \in Messages \cup {0}
    BY <1>1 DEF Items, Item
  <1>3. IdsOf(items) \in [1..Len(items) -> Messages \cup {0}] /\ Len(items) \in Nat
    BY <1>2 DEF IdsOf
  <1>4. IdsOf(items) \in Seq(Messages \cup {0})
    BY <1>3, FunctionIsSeq
  <1>. QED
    BY <1>4 DEF IdsOf

(* An answer is given by a step of its request, which has begun before.     *)
AnswerGiven(r, a) ==
    /\ answers' = [answers EXCEPT ![r] = Append(@, a)]
    /\ at'[r] # "start"

ReadType == hiddenAt \in [Reqs -> SUBSET Messages] /\ answers \in [Reqs -> Seq(Answer)]

(* An answer appended to those of a request keeps their type.              *)
LEMMA AnswerTyped ==
    ASSUME IInv, NEW r \in Reqs, NEW source \in {"cache", "table"},
           NEW ids \in Seq(Messages \cup {0}), Answers(r, source, ids)
    PROVE  answers' \in [Reqs -> Seq(Answer)]
  <1>1. [source |-> source, ids |-> ids] \in Answer
    BY DEF Answer
  <1>. QED
    BY <1>1 DEF Answers, IInv, TypeOK

(* The steps of reading keep the types of what a reader holds.             *)
LEMMA ReadStep ==
    ASSUME IInv, [Next]_vars
    PROVE  /\ ReadType'
           /\ \A r \in Reqs : at'[r] = "start" => answers'[r] = answers[r]
  <1>0. ReadType /\ at \in [Reqs -> Places]
    BY DEF IInv, TypeOK, ReadType
  <1>1. ASSUME NEW r \in Reqs, LookInCache(r)
        PROVE  ReadType' /\ at'[r] # "start" /\ \A s \in Reqs \ {r} : answers'[s] = answers[s]
    <2>. DEFINE k == KeyOf(ask[r].by, ask[r].to)
                h == IF k = Group THEN {} ELSE HiddenFrom(ask[r].by, ask[r].to)
                ids == [x \in DOMAIN conv[k] |-> conv[k][x].at]
    <2>1. /\ at'[r] # "start" /\ hiddenAt' = [hiddenAt EXCEPT ![r] = h]
          /\ (Answers(r, "cache", ids) /\ conv[k] # None) \/ UNCHANGED answers
      BY <1>0, <1>1 DEF LookInCache, Goes
    <2>2. h \subseteq Messages
      BY AskTyped, HiddenAreMessages DEF IInv, KeyOf
    <2>3. conv[k] # None => ids \in Seq(Messages \cup {0})
      <3>1. SUFFICES ASSUME conv[k] # None PROVE ids \in Seq(Messages \cup {0})
        OBVIOUS
      <3>2. conv[k] \in Seq(Entry)
        BY <3>1, AskTyped DEF IInv, TypeOK
      <3>3. \A x \in DOMAIN conv[k] : conv[k][x] \in Entry
        BY <3>2
      <3>4. ids \in [1..Len(conv[k]) -> Messages \cup {0}] /\ Len(conv[k]) \in Nat
        BY <3>2, <3>3 DEF Entry
      <3>. QED
        BY <3>4, FunctionIsSeq
    <2>. HIDE DEF h, ids, k
    <2>4. hiddenAt' \in [Reqs -> SUBSET Messages]
      BY <1>0, <2>1, <2>2 DEF ReadType
    <2>5. answers' \in [Reqs -> Seq(Answer)]
      BY <1>0, <2>1, <2>3, AnswerTyped DEF ReadType
    <2>. QED
      BY <1>0, <2>1, <2>4, <2>5 DEF ReadType, Answers
  <1>2. ASSUME NEW r \in Reqs, AnswerConversation(r)
        PROVE  ReadType' /\ at'[r] # "start" /\ \A s \in Reqs \ {r} : answers'[s] = answers[s]
    <2>. DEFINE ids == IdsOf(kept[r]) \o IdsOf(Result(loop[r]))
    <2>1. /\ at'[r] # "start" /\ hiddenAt' = hiddenAt /\ ~Looking(loop[r])
          /\ Answers(r, "table", ids)
      BY <1>0, <1>2 DEF AnswerConversation, Goes
    <2>2. kept[r] \in Seq(Items) /\ Result(loop[r]) \in Seq(Items)
      BY <2>1, LoopIsExact DEF IInv, TypeOK, LoopsRight, Items
    <2>3. ids \in Seq(Messages \cup {0})
      BY <2>2, IdsAreList
    <2>. HIDE DEF ids
    <2>. QED
      BY <1>0, <2>1, <2>3, AnswerTyped DEF ReadType, Answers
  <1>3. ASSUME NEW r \in Reqs, AnswerGroup(r)
        PROVE  ReadType' /\ at'[r] # "start" /\ \A s \in Reqs \ {r} : answers'[s] = answers[s]
    <2>1. PICK n \in 0..Limit : /\ IsPage(Group, ask[r].before, n)
                                /\ Answers(r, "table", [x \in 1..n |-> rows[Group][x].id])
      BY <1>3 DEF AnswerGroup
    <2>. DEFINE ids == [x \in 1..n |-> rows[Group][x].id]
    <2>2. ids \in Seq(Messages \cup {0})
      BY <2>1, AskTyped, PageIsList DEF IsPage, IInv
    <2>3. at'[r] # "start" /\ hiddenAt' = hiddenAt /\ Answers(r, "table", ids)
      BY <1>0, <1>3, <2>1 DEF AnswerGroup, Goes
    <2>. HIDE DEF ids
    <2>. QED
      BY <1>0, <2>2, <2>3, AnswerTyped DEF ReadType, Answers
  <1>4. CASE UNCHANGED <<hiddenAt, answers>>
    BY <1>0, <1>4 DEF ReadType
  <1>5. \/ \E r \in Reqs : LookInCache(r) \/ AnswerConversation(r) \/ AnswerGroup(r)
        \/ UNCHANGED <<hiddenAt, answers>>
    BY DEF Next, vars, readVars, CreateMessage, CacheMessage, DeleteOwn, DeleteForReceiver,
       DeleteReceived, DeleteNothing, Uncache, ForgetSent, ForgetReceived, RemoveUser, QueryOwn,
       Filter, QueryPeer, Fail
  <1>. QED
    BY <1>1, <1>2, <1>3, <1>4, <1>5
-----------------------------------------------------------------------------
(* How a request comes to the places of which Placed speaks.                *)
LEMMA Arrives ==
    ASSUME TypeOK, [Next]_vars, NEW r \in Reqs
    PROVE  /\ at'[r] = "stored" => at[r] = "stored" \/ CreateMessage(r)
           /\ at'[r] = "half" => at[r] = "half" \/ DeleteOwn(r) \/ ForgetSent(r)
           /\ at'[r] \in {"own", "peer"} => at[r] \in {"own", "peer"} \/ ask[r].to # Group
  <1>.  DEFINE Spoken == {"stored", "half", "own", "peer"}
  <1>0. at \in [Reqs -> Places]
    BY DEF TypeOK
  <1>1. ASSUME NEW s \in Reqs, \E from \in Places, to \in Places \ Spoken : Goes(s, from, to)
        PROVE  at'[r] \in Spoken => at'[r] = at[r]
    BY <1>0, <1>1 DEF Goes
  <1>2. ASSUME NEW s \in Reqs,
               \/ CacheMessage(s) \/ DeleteForReceiver(s) \/ DeleteReceived(s)
               \/ DeleteNothing(s) \/ Uncache(s) \/ ForgetReceived(s) \/ RemoveUser(s)
               \/ LookInCache(s) \/ AnswerConversation(s) \/ AnswerGroup(s) \/ Fail(s)
        PROVE  \E from \in Places, to \in Places \ Spoken : Goes(s, from, to)
    BY SMTT(30), <1>2 DEF CacheMessage, DeleteForReceiver, DeleteReceived, DeleteNothing, Uncache,
       ForgetReceived, RemoveUser, LookInCache, AnswerConversation, AnswerGroup, Fail, Places
  <1>3. ASSUME NEW s \in Reqs, CreateMessage(s)
        PROVE  /\ at'[r] = "stored" => at[r] = "stored" \/ CreateMessage(r)
               /\ at'[r] \in {"half", "own", "peer"} => at'[r] = at[r]
    BY <1>0, <1>3 DEF CreateMessage, Goes
  <1>4. ASSUME NEW s \in Reqs, QueryOwn(s) \/ QueryPeer(s) \/ Filter(s)
        PROVE  /\ at'[r] \in {"stored", "half"} => at'[r] = at[r]
               /\ at'[r] \in {"own", "peer"} => at[r] \in {"own", "peer"} \/ ask[r].to # Group
    BY ZenonT(40), <1>0, <1>4 DEF QueryOwn, QueryPeer, Filter, Goes
  <1>5. ASSUME NEW s \in Reqs, DeleteOwn(s) \/ ForgetSent(s)
        PROVE  /\ at'[r] \in {"stored", "own", "peer"} => at'[r] = at[r]
               /\ at'[r] = "half" => at[r] = "half" \/ s = r
    BY <1>0, <1>5 DEF DeleteOwn, ForgetSent, Goes
  <1>6. CASE UNCHANGED vars
    BY <1>6 DEF vars
  <1>7. ASSUME NEW s \in Reqs, \E from \in Places, to \in Places \ Spoken : Goes(s, from, to)
        PROVE  at'[r] \in {"stored", "half", "own", "peer"} => at'[r] = at[r]
    BY <1>1, <1>7
  <1>. HIDE DEF Spoken
  <1>. QED
    BY <1>2, <1>3, <1>4, <1>5, <1>6, <1>7 DEF Next

(* A request finds with its first step where it deletes, and keeps that.    *)
LEMMA OwnStep ==
    ASSUME IInv, [Next]_vars
    PROVE  /\ own' \in [Reqs -> Keys \cup {None}] /\ FoundOwn'
           /\ \A r \in Reqs : at[r] # "start" \/ at'[r] = "start" => own'[r] = own[r]
  <1>0. own \in [Reqs -> Keys \cup {None}] /\ at \in [Reqs -> Places] /\ TypeOK /\ FoundOwn
    BY DEF IInv, TypeOK
  <1>.  DEFINE Found(r) == \E k \in Keys :
                  /\ own' = [own EXCEPT ![r] = k] /\ at[r] = "start" /\ at'[r] # "start"
                  /\ ask[r].kind = "delete"
                  /\ k = Group \/ \E to \in Users : k = <<ask[r].by, to>>
  <1>1. ASSUME NEW r \in Reqs, DeleteOwn(r) PROVE Found(r) /\ own'[r] \notin {None, Group}
    <2>1. PICK to \in Users : own' = [own EXCEPT ![r] = <<ask[r].by, to>>]
      BY <1>1 DEF DeleteOwn
    <2>2. <<ask[r].by, to>> \in Keys /\ <<ask[r].by, to>> \notin {None, Group}
      BY <1>0, AskTyped
    <2>3. at[r] = "start" /\ at'[r] # "start" /\ ask[r].kind = "delete"
      BY <1>0, <1>1 DEF DeleteOwn, Goes
    <2>. QED
      BY <1>0, <2>1, <2>2, <2>3
  <1>2. ASSUME NEW r \in Reqs, DeleteNothing(r) PROVE Found(r) \/ own' = own
    <2>1. own' = own \/ own' = [own EXCEPT ![r] = Group]
      BY <1>2 DEF DeleteNothing
    <2>2. at[r] = "start" /\ at'[r] # "start" /\ ask[r].kind = "delete"
      BY <1>0, <1>2 DEF DeleteNothing, Goes
    <2>3. Group \in Keys
      BY <1>0, AskTyped
    <2>. QED
      BY <2>1, <2>2, <2>3
  <1>3. own' = own \/ \E r \in Reqs : DeleteOwn(r) \/ DeleteNothing(r)
    BY DEF Next, vars, CreateMessage, CacheMessage, DeleteForReceiver, DeleteReceived, Uncache,
       ForgetSent, ForgetReceived, RemoveUser, LookInCache, QueryOwn, Filter, QueryPeer,
       AnswerConversation, AnswerGroup, Fail
  <1>4. own' = own \/ \E r \in Reqs : Found(r)
    <2>. HIDE DEF Found
    <2>. QED
      BY <1>1, <1>2, <1>3
  <1>5. own' \in [Reqs -> Keys \cup {None}]
    BY <1>0, <1>4
  <1>6. \A r \in Reqs : at[r] # "start" \/ at'[r] = "start" => own'[r] = own[r]
    BY <1>0, <1>4
  <1>7. ask' = ask
    BY <1>0, ControlStep
  <1>8. ASSUME NEW r \in Reqs, own'[r] \notin {None, Group}
        PROVE  ask'[r].kind = "delete" /\ \E to \in Users : own'[r] = <<ask'[r].by, to>>
    <2>1. CASE own'[r] = own[r]
      BY <1>0, <1>7, <1>8, <2>1 DEF FoundOwn
    <2>2. CASE own'[r] # own[r]
      BY <1>0, <1>4, <1>7, <1>8, <2>2
    <2>. QED
      BY <2>1, <2>2
  <1>9. ASSUME NEW r \in Reqs, at'[r] = "half", ask'[r].kind = "delete"
        PROVE  own'[r] \notin {None, Group}
    <2>. HIDE DEF Found
    <2>1. CASE at[r] = "half"
      BY <1>0, <1>6, <1>7, <1>9, <2>1 DEF FoundOwn
    <2>2. CASE DeleteOwn(r)
      BY <1>1, <2>2
    <2>3. ~ForgetSent(r)
      BY <1>7, <1>9 DEF ForgetSent
    <2>. QED
      BY <1>0, <1>9, <2>1, <2>2, <2>3, Arrives
  <1>10. FoundOwn'
    BY <1>8, <1>9 DEF FoundOwn
  <1>. QED
    BY <1>5, <1>6, <1>10

(* A message is in its conversation as soon as it is stored.                *)
LEMMA CreatedIsStored ==
    ASSUME IInv, NEW r \in Reqs, CreateMessage(r)
    PROVE  /\ Holds(KeyOf(ask[r].by, ask[r].to), stamp[r])'
           /\ ask[r].kind = "send" /\ stamp'[r] \in Messages
  <1>. DEFINE k == KeyOf(ask[r].by, ask[r].to)
              row == NewRow(last + 1, ask[r].by)
  <1>1. /\ row.id = last + 1 /\ last' = last + 1 /\ stamp'[r] = last + 1 /\ ask' = ask
        /\ ask[r].kind = "send" /\ last + 1 \in Messages
    BY DEF CreateMessage, NewRow, IInv, TypeOK, Goes
  <1>2. rows'[k][Len(rows[k]) + 1] = row /\ Len(rows[k]) + 1 \in DOMAIN rows'[k]
    BY CreateInPlace
  <1>3. \E x \in DOMAIN rows'[k] : rows'[k][x].id = stamp'[r]
    <2>. HIDE DEF k, row
    <2>. QED
      BY <1>1, <1>2
  <1>. QED
    BY <1>1, <1>3 DEF Holds, KeyOf

(* Every step keeps what the place of a request says of it.                *)
LEMMA PlacedStep ==
    ASSUME IInv, [Next]_vars
    PROVE  Placed'
  <1>. SUFFICES ASSUME NEW r \in Reqs
                PROVE  (/\ at[r] = "start" => stamp[r] = 0 /\ answers[r] = <<>> /\ own[r] = None
                        /\ at[r] = "stored" => /\ ask[r].kind = "send" /\ stamp[r] \in Messages
                                              /\ Held(KeyOf(ask[r].by, ask[r].to), stamp[r])
                        /\ at[r] \in {"own", "peer"} => ask[r].to # Group)'
    BY DEF Placed
  <1>1. ask' = ask /\ (at'[r] = "start" => at[r] = "start")
    BY ControlStep DEF IInv
  <1>2. at'[r] = "start" => stamp'[r] = 0 /\ answers'[r] = <<>> /\ own'[r] = None
    BY <1>1, StampStep, ReadStep, OwnStep DEF IInv, Placed
  <1>3. at'[r] \in {"own", "peer"} => ask'[r].to # Group
    BY <1>1, Arrives DEF IInv, Placed
  <1>4. ASSUME at'[r] = "stored", at[r] = "stored"
        PROVE  /\ ask[r].kind = "send" /\ stamp'[r] \in Messages
               /\ Held(KeyOf(ask[r].by, ask[r].to), stamp[r])'
    <2>. DEFINE k == KeyOf(ask[r].by, ask[r].to)
    <2>1. stamp'[r] = stamp[r] /\ HeldStays /\ k \in Keys
      BY <1>4, StampStep, TableStep, AskTyped DEF IInv
    <2>2. ask[r].kind = "send" /\ stamp[r] \in Messages /\ Held(k, stamp[r])
      BY <1>4 DEF IInv, Placed
    <2>3. k' = k
      BY <1>1 DEF KeyOf
    <2>. HIDE DEF k
    <2>4. Held(k, stamp[r])'
      BY <2>1, <2>2, <2>3 DEF HeldStays, Held, Holds
    <2>. QED
      BY <2>1, <2>2, <2>4 DEF k
  <1>5. at'[r] = "stored" => /\ ask[r].kind = "send" /\ stamp'[r] \in Messages
                            /\ Held(KeyOf(ask[r].by, ask[r].to), stamp[r])'
    BY <1>4, Arrives, CreatedIsStored DEF IInv, Held
  <1>. QED
    BY <1>1, <1>2, <1>3, <1>5

(* The inductive invariant behind the theorems below.                       *)
THEOREM Invariance == Spec => []IInv
  <1>1. IInv /\ [Next]_vars => IInv'
    <2>. SUFFICES ASSUME IInv, [Next]_vars PROVE IInv'
      OBVIOUS
    <2>1. UniqueIds' /\ Placed' /\ FoundOwn' /\ LoopsRight'
      BY TableStep, PlacedStep, OwnStep, LoopStep DEF TableInv, LoopVarsType
    <2>2. \A r \in Reqs : /\ loop'[r] \in LoopType
                          /\ loop'[r].n <= Len(loop'[r].arr) /\ loop'[r].i <= Len(loop'[r].arr) + 1
      BY <2>1 DEF LoopsRight, LoopState, Untouched, EndIsFree, LastCut, LoopType
    <2>3. ask' \in [Reqs -> Asked] /\ at' \in [Reqs -> Places]
      BY ControlStep DEF IInv, TypeOK
    <2>4. LoopVarsType'
      BY LoopStep
    <2>5. TypeOK'
      BY <2>2, <2>3, <2>4, TableStep, StampStep, CacheStep, ReadStep, OwnStep
      DEF TypeOK, TableInv, ReadType, LoopVarsType, LoopType, Items
    <2>. QED
      BY <2>1, <2>5 DEF IInv
  <1>. QED
    BY InitInvariant, <1>1, PTL DEF Spec

(* Every variable keeps its type; a loop that filters never leaves its      *)
(* array.                                                                   *)
THEOREM TypeCorrect == Spec => []TypeOK
  BY Invariance, PTL DEF IInv

(* A loop over the result of a query keeps exactly what may be seen, if it  *)
(* ends at all, however long the result and wherever the hidden messages.   *)
THEOREM FilterExact == Spec => []FilterIsExact
  <1>1. IInv => FilterIsExact
    BY LoopIsExact DEF IInv, LoopsRight, FilterIsExact
  <1>. QED
    BY Invariance, <1>1, PTL

(* The cache never has a message under a pair, or under the group, that the *)
(* table does not have there, or did not have until an account was removed, *)
(* but for messages to a receiver that name the group too.                  *)
THEOREM CachedStored == Spec => []CachedIsStored
  <1>1. Init => CachedIsStored
    BY DEF Init, MapInit, CachedIsStored
  <1>2. IInv /\ CachedIsStored /\ [Next]_vars => CachedIsStored'
    <2>. SUFFICES ASSUME IInv, CachedIsStored, [Next]_vars, NEW k \in Keys, conv'[k] # None,
                         NEW x \in DOMAIN conv'[k], conv'[k][x].at # 0
                  PROVE  \/ Held(k, conv[k][x].at)'
                         \/ k = Group /\ \E r \in Reqs : /\ ask'[r].kind = "send" /\ ask'[r].named
                                                         /\ stamp'[r] = conv'[k][x].at
      BY DEF CachedIsStored
    <2>. DEFINE m == conv'[k][x].at
    <2>1. m \in Has(conv'[k])
      BY DEF Has, TimesIn
    <2>2. ask' = ask /\ \A n : Held(k, n) => (\E y \in DOMAIN rows'[k] : rows'[k][y].id = n) \/ n \in lost'[k]
      BY ControlStep, TableStep DEF IInv, HeldStays, Held, Holds
    <2>. SUFFICES \/ (\E y \in DOMAIN rows'[k] : rows'[k][y].id = m) \/ m \in lost'[k]
                  \/ k = Group /\ \E r \in Reqs : ask[r].kind = "send" /\ ask[r].named /\ stamp'[r] = m
      BY <2>2 DEF Held, Holds
    <2>. HIDE DEF m
    <2>3. CASE m \in Has(conv[k])
      <3>1. PICK y \in DOMAIN conv[k] : m = conv[k][y].at /\ conv[k] # None
        BY <2>3 DEF Has, TimesIn
      <3>2. \/ Held(k, m)
            \/ k = Group /\ \E r \in Reqs : ask[r].kind = "send" /\ ask[r].named /\ stamp[r] = m
        <4>1. m # 0
          BY DEF m
        <4>. QED
          BY <3>1, <4>1 DEF CachedIsStored
      <3>3. ASSUME NEW r \in Reqs, stamp[r] = m PROVE stamp'[r] = m
        <4>1. at[r] # "start"
          BY <3>3 DEF IInv, Placed, m
        <4>. QED
          BY <3>3, <4>1, StampStep
      <3>. QED
        BY <2>2, <3>2, <3>3
    <2>4. ASSUME NEW r \in Reqs, at[r] = "stored", k = CacheKey(r), m = stamp[r]
          PROVE  \/ (\E y \in DOMAIN rows'[k] : rows'[k][y].id = m) \/ m \in lost'[k]
                 \/ k = Group /\ ask[r].kind = "send" /\ ask[r].named /\ stamp'[r] = m
      <3>1. /\ ask[r].kind = "send" /\ Held(KeyOf(ask[r].by, ask[r].to), m)
            /\ stamp'[r] = m
        BY <2>4, StampStep DEF IInv, Placed
      <3>. QED
        BY <2>2, <2>4, <3>1 DEF CacheKey
    <2>5. \/ m \in Has(conv[k])
          \/ \E r \in Reqs : at[r] = "stored" /\ k = CacheKey(r) /\ m = stamp[r]
      <3>1. m # 0
        BY DEF m
      <3>2. \A n \in Has(conv'[k]) :
                \/ n = 0 \/ n \in Has(conv[k])
                \/ \E r \in Reqs : at[r] = "stored" /\ k = CacheKey(r) /\ n = stamp[r]
        BY CacheStep
      <3>. QED
        BY <2>1, <3>1, <3>2
    <2>. QED
      BY <2>3, <2>4, <2>5
  <1>. QED
    BY Invariance, <1>1, <1>2, PTL DEF Spec
-----------------------------------------------------------------------------
(* What is hidden                                                           *)

Reading == {"query", "own", "peer"}

(* What was hidden from a reader when they began is hidden wherever it is.  *)
Veiled(r) ==
    IF ask[r].to = Group THEN hiddenAt[r] = {}
    ELSE \A m \in hiddenAt[r] :
            /\ m <= last
            /\ \A x \in DOMAIN rows[<<ask[r].by, ask[r].to>>] :
                  rows[<<ask[r].by, ask[r].to>>][x].id = m => ~rows[<<ask[r].by, ask[r].to>>][x].sender
            /\ \A x \in DOMAIN rows[<<ask[r].to, ask[r].by>>] :
                  rows[<<ask[r].to, ask[r].by>>][x].id = m => ~rows[<<ask[r].to, ask[r].by>>][x].receiver

(* What was hidden when a request began is hidden still; what a query       *)
(* yielded of it has its flag cleared, and the loop over the request's own  *)
(* messages has cut it.                                                     *)
HidInv ==
    \A r \in Reqs :
        /\ at[r] \in Reading => ask[r].kind = "read" /\ Veiled(r)
        /\ at[r] \in {"own", "peer"} =>
             \A x \in DOMAIN queried[r] : queried[r][x].id \in hiddenAt[r] => ~queried[r][x].sees
        /\ at[r] = "peer" => IdSet(kept[r]) \cap hiddenAt[r] = {}

(* What is hidden stays hidden: a row that comes is of a later message.     *)
LEMMA VeiledStays ==
    ASSUME IInv, [Next]_vars, NEW r \in Reqs, Veiled(r), hiddenAt'[r] = hiddenAt[r]
    PROVE  Veiled(r)'
  <1>1. /\ Grows /\ TableInv /\ TableInv' /\ ask' = ask
        /\ ask[r].by \in Users /\ ask[r].to \in Users \cup {Group}
        /\ hiddenAt[r] \subseteq Nat
    BY TableStep, ControlStep, AskTyped, ConversationListAssumption DEF IInv, TypeOK, TableInv
  <1>2. ASSUME NEW a \in Users, NEW b \in Users, NEW m \in Nat, m <= last,
               NEW x \in DOMAIN rows'[<<a, b>>], rows'[<<a, b>>][x].id = m
        PROVE  x \in DOMAIN rows[<<a, b>>] /\ Keeps(rows[<<a, b>>][x], rows'[<<a, b>>][x])
    <2>1. ~(rows'[<<a, b>>][x].id > last)
      BY <1>1, <1>2 DEF TableInv
    <2>. QED
      BY <2>1, RowStep
  <1>3. CASE ask[r].to = Group
    BY <1>1, <1>3 DEF Veiled
  <1>4. CASE ask[r].to # Group
    <2>. DEFINE i == <<ask[r].by, ask[r].to>>
                j == <<ask[r].to, ask[r].by>>
    <2>1. ASSUME NEW m \in hiddenAt[r]
          PROVE  /\ m <= last'
                 /\ \A x \in DOMAIN rows'[i] : rows'[i][x].id = m => ~rows'[i][x].sender
                 /\ \A x \in DOMAIN rows'[j] : rows'[j][x].id = m => ~rows'[j][x].receiver
      <3>1. /\ m \in Nat /\ m <= last
            /\ \A x \in DOMAIN rows[i] : rows[i][x].id = m => ~rows[i][x].sender
            /\ \A x \in DOMAIN rows[j] : rows[j][x].id = m => ~rows[j][x].receiver
        BY <1>1, <1>4 DEF Veiled
      <3>2. \A x \in DOMAIN rows'[i] : rows'[i][x].id = m =>
                x \in DOMAIN rows[i] /\ Keeps(rows[i][x], rows'[i][x])
        BY <1>1, <1>2, <1>4, <3>1
      <3>3. \A x \in DOMAIN rows'[j] : rows'[j][x].id = m =>
                x \in DOMAIN rows[j] /\ Keeps(rows[j][x], rows'[j][x])
        BY <1>1, <1>2, <1>4, <3>1
      <3>4. m <= last'
        BY <1>1, <3>1 DEF Grows, TableInv
      <3>. HIDE DEF i, j
      <3>. QED
        BY <3>1, <3>2, <3>3, <3>4 DEF Keeps
    <2>. QED
      BY <1>1, <1>4, <2>1 DEF Veiled
  <1>. QED
    BY <1>3, <1>4

(* A step of another request, or one that does not read, leaves a reader    *)
(* as it is.                                                                *)
LEMMA ReaderFrame ==
    ASSUME IInv, [Next]_vars, NEW r \in Reqs
    PROVE  \/ LookInCache(r) \/ QueryOwn(r) \/ Filter(r) \/ QueryPeer(r)
           \/ AnswerConversation(r) \/ AnswerGroup(r)
           \/ /\ at'[r] \in Reading \cup {"panic"} => at'[r] = at[r]
              /\ hiddenAt'[r] = hiddenAt[r] /\ queried'[r] = queried[r]
              /\ kept'[r] = kept[r] /\ answers'[r] = answers[r]
  <1>. USE DEF Reading
  <1>0. /\ at \in [Reqs -> Places] /\ hiddenAt \in [Reqs -> SUBSET Messages]
        /\ answers \in [Reqs -> Seq(Answer)] /\ kept \in [Reqs -> Seq(Items)]
        /\ queried \in [Reqs -> Seq(Item(Messages))]
    BY DEF IInv, TypeOK, Items
  <1>1. ASSUME NEW s \in Reqs,
               \/ CreateMessage(s) \/ CacheMessage(s) \/ DeleteOwn(s) \/ DeleteForReceiver(s)
               \/ DeleteReceived(s) \/ DeleteNothing(s) \/ Uncache(s) \/ ForgetSent(s)
               \/ ForgetReceived(s) \/ RemoveUser(s) \/ Fail(s)
        PROVE  /\ UNCHANGED <<hiddenAt, queried, kept, answers>>
               /\ \E from \in Places, to \in Places \ (Reading \cup {"panic"}) : Goes(s, from, to)
    BY <1>1 DEF CreateMessage, CacheMessage, DeleteOwn, DeleteForReceiver, DeleteReceived, DeleteNothing,
       Uncache, ForgetSent, ForgetReceived, RemoveUser, Fail, readVars, loopVars, Places
  <1>2. ASSUME NEW s \in Reqs,
               \E from \in Places, to \in Places \ (Reading \cup {"panic"}) : Goes(s, from, to)
        PROVE  at'[r] \in Reading \cup {"panic"} => at'[r] = at[r]
    BY <1>0, <1>2 DEF Goes
  <1>3. ASSUME NEW s \in Reqs \ {r}, LookInCache(s) \/ AnswerConversation(s) \/ AnswerGroup(s)
        PROVE  /\ at'[r] = at[r] /\ hiddenAt'[r] = hiddenAt[r] /\ queried'[r] = queried[r]
               /\ kept'[r] = kept[r] /\ answers'[r] = answers[r]
    <2>1. /\ \E to : at' = [at EXCEPT ![s] = to]
          /\ hiddenAt' = hiddenAt \/ \E h : hiddenAt' = [hiddenAt EXCEPT ![s] = h]
          /\ answers' = answers \/ \E a : answers' = [answers EXCEPT ![s] = a]
          /\ UNCHANGED <<queried, kept>>
      <3>1. CASE LookInCache(s)
        BY <3>1 DEF LookInCache, Goes, Answers, loopVars
      <3>2. CASE AnswerConversation(s)
        BY <3>2 DEF AnswerConversation, Goes, Answers, loopVars
      <3>3. CASE AnswerGroup(s)
        BY <3>3 DEF AnswerGroup, Goes, Answers, loopVars
      <3>. QED
        BY <1>3, <3>1, <3>2, <3>3
    <2>. QED
      BY <1>0, <2>1
  <1>4. ASSUME NEW s \in Reqs \ {r}, QueryOwn(s) \/ Filter(s) \/ QueryPeer(s)
        PROVE  /\ at'[r] = at[r] /\ hiddenAt'[r] = hiddenAt[r] /\ queried'[r] = queried[r]
               /\ kept'[r] = kept[r] /\ answers'[r] = answers[r]
    <2>1. /\ at' = at \/ \E to : at' = [at EXCEPT ![s] = to]
          /\ queried' = queried \/ \E q : queried' = [queried EXCEPT ![s] = q]
          /\ kept' = kept \/ \E k : kept' = [kept EXCEPT ![s] = k]
          /\ UNCHANGED <<hiddenAt, answers>>
      <3>1. CASE QueryOwn(s)
        BY <3>1 DEF QueryOwn, Goes, Begin
      <3>2. CASE Filter(s)
        BY <3>2 DEF Filter
      <3>3. CASE QueryPeer(s)
        BY <3>3 DEF QueryPeer, Goes, Begin
      <3>. QED
        BY <1>4, <3>1, <3>2, <3>3
    <2>. QED
      BY <1>0, <2>1
  <1>5. CASE UNCHANGED vars
    BY <1>5 DEF vars, readVars, loopVars
  <1>6. CASE \E s \in Reqs : \/ CreateMessage(s) \/ CacheMessage(s) \/ DeleteOwn(s)
                             \/ DeleteForReceiver(s) \/ DeleteReceived(s) \/ DeleteNothing(s)
                             \/ Uncache(s) \/ ForgetSent(s) \/ ForgetReceived(s)
                             \/ RemoveUser(s) \/ Fail(s)
    BY <1>1, <1>2, <1>6
  <1>7. CASE \E s \in Reqs : \/ LookInCache(s) \/ AnswerConversation(s) \/ AnswerGroup(s)
                             \/ QueryOwn(s) \/ Filter(s) \/ QueryPeer(s)
    BY <1>3, <1>4, <1>7
  <1>. QED
    BY <1>5, <1>6, <1>7 DEF Next

(* A query of either direction has flags for what was hidden in it; no      *)
(* message is in the other direction too.                                   *)
LEMMA PageIsFlagged ==
    ASSUME IInv, NEW a \in Users, NEW b \in Users, a # b, NEW m \in HiddenFrom(a, b)
    PROVE  /\ \A x \in DOMAIN rows[<<a, b>>] : rows[<<a, b>>][x].id = m => ~rows[<<a, b>>][x].sender
           /\ \A x \in DOMAIN rows[<<b, a>>] : rows[<<b, a>>][x].id = m => ~rows[<<b, a>>][x].receiver
  <1>. DEFINE i == <<a, b>>
              j == <<b, a>>
  <1>1. i \in Keys /\ j \in Keys /\ i # j
    OBVIOUS
  <1>2. \/ \E y \in DOMAIN rows[i] : m = rows[i][y].id /\ ~rows[i][y].sender
        \/ \E y \in DOMAIN rows[j] : m = rows[j][y].id /\ ~rows[j][y].receiver
    BY DEF HiddenFrom
  <1>. HIDE DEF i, j
  <1>3. /\ \A x \in DOMAIN rows[i] : rows[i][x].id = m => ~rows[i][x].sender
        /\ \A x \in DOMAIN rows[j] : rows[j][x].id = m => ~rows[j][x].receiver
    BY <1>1, <1>2 DEF IInv, UniqueIds
  <1>. QED
    BY <1>3 DEF i, j

(* Nobody asks to read a conversation with themselves: what is hidden from  *)
(* its sender alone would be hidden and shown.                              *)
NoSelf == \A a \in Asked : a.kind = "read" => a.by # a.to

(* Who reads begins with what is hidden then.                               *)
LEMMA LookHides ==
    ASSUME NoSelf, IInv, NEW r \in Reqs, LookInCache(r)
    PROVE  /\ at'[r] = "query" /\ ask[r].kind = "read" /\ Veiled(r)'
           /\ answers[r] = <<>>
  <1>1. /\ at[r] = "start" /\ at'[r] = "query" /\ ask[r].kind = "read"
        /\ UNCHANGED <<ask, rows, last>>
    BY DEF LookInCache, Goes, IInv, TypeOK, tableVars
  <1>2. hiddenAt'[r] = IF KeyOf(ask[r].by, ask[r].to) = Group THEN {} ELSE HiddenFrom(ask[r].by, ask[r].to)
    BY DEF LookInCache, IInv, TypeOK
  <1>3. /\ KeyOf(ask[r].by, ask[r].to) = Group <=> ask[r].to = Group
        /\ ask[r].by \in Users /\ ask[r].to \in Users \cup {Group} /\ ask[r] \in Asked
    <2>1. ask[r].by \in Users /\ ask[r].to \in Users \cup {Group} /\ ask[r] \in Asked
      BY AskTyped DEF IInv, TypeOK
    <2>. QED
      BY <2>1, PairKey DEF KeyOf
  <1>4. ASSUME ask[r].to # Group PROVE Veiled(r)'
    <2>. DEFINE a == ask[r].by
                b == ask[r].to
    <2>1. a \in Users /\ b \in Users /\ a # b
      BY <1>1, <1>3, <1>4 DEF NoSelf
    <2>2. hiddenAt'[r] = HiddenFrom(a, b)
      BY <1>2, <1>3, <1>4
    <2>3. ASSUME NEW m \in HiddenFrom(a, b) PROVE m <= last
      <3>1. <<a, b>> \in Keys /\ <<b, a>> \in Keys
        BY <2>1
      <3>2. \A k \in Keys : \A x \in DOMAIN rows[k] : rows[k][x].id <= last
        BY DEF IInv, TypeOK
      <3>3. \/ \E y \in DOMAIN rows[<<a, b>>] : m = rows[<<a, b>>][y].id
            \/ \E y \in DOMAIN rows[<<b, a>>] : m = rows[<<b, a>>][y].id
        BY DEF HiddenFrom
      <3>. QED
        BY <3>1, <3>2, <3>3
    <2>4. ASSUME NEW m \in HiddenFrom(a, b)
          PROVE  /\ \A x \in DOMAIN rows[<<a, b>>] : rows[<<a, b>>][x].id = m => ~rows[<<a, b>>][x].sender
                 /\ \A x \in DOMAIN rows[<<b, a>>] : rows[<<b, a>>][x].id = m => ~rows[<<b, a>>][x].receiver
      <3>. HIDE DEF a, b
      <3>. QED
        BY <2>1, PageIsFlagged
    <2>5. \A m \in hiddenAt'[r] :
            /\ m <= last'
            /\ \A x \in DOMAIN rows'[<<a, b>>] : rows'[<<a, b>>][x].id = m => ~rows'[<<a, b>>][x].sender
            /\ \A x \in DOMAIN rows'[<<b, a>>] : rows'[<<b, a>>][x].id = m => ~rows'[<<b, a>>][x].receiver
      <3>. HIDE DEF a, b
      <3>. QED
        BY <1>1, <2>2, <2>3, <2>4
    <2>6. ask' = ask
      BY <1>1
    <2>. QED
      BY <1>4, <2>5, <2>6 DEF Veiled
  <1>5. Veiled(r)'
    BY <1>1, <1>2, <1>3, <1>4 DEF Veiled
  <1>. QED
    BY <1>1, <1>5 DEF IInv, Placed

(* Every step keeps what a reader's loops and pages say of hidden messages. *)
LEMMA HidStep ==
    ASSUME NoSelf, IInv, HidInv, [Next]_vars
    PROVE  HidInv'
  <1>. SUFFICES ASSUME NEW r \in Reqs
                PROVE  (/\ at[r] \in Reading => ask[r].kind = "read" /\ Veiled(r)
                        /\ at[r] \in {"own", "peer"} =>
                             \A x \in DOMAIN queried[r] :
                                queried[r][x].id \in hiddenAt[r] => ~queried[r][x].sees
                        /\ at[r] = "peer" => IdSet(kept[r]) \cap hiddenAt[r] = {})'
    BY DEF HidInv
  <1>0. /\ at \in [Reqs -> Places] /\ queried \in [Reqs -> Seq(Item(Messages))]
        /\ kept \in [Reqs -> Seq(Items)]
        /\ ask' = ask /\ ask[r] \in Asked
        /\ Veiled(r) /\ hiddenAt'[r] = hiddenAt[r] => Veiled(r)'
    BY ControlStep, VeiledStays DEF IInv, TypeOK, Items
  <1>1. CASE LookInCache(r)
    BY <1>0, <1>1, LookHides DEF Reading
  <1>2. CASE QueryOwn(r)
    <2>. DEFINE k == <<ask[r].by, ask[r].to>>
    <2>1. /\ at[r] = "query" /\ at'[r] = "own" /\ hiddenAt' = hiddenAt /\ ask[r].to # Group
          /\ \E n \in 0..Limit :
               /\ n <= Len(rows[k])
               /\ queried'[r] = [x \in 1..n |-> [id |-> rows[k][x].id, sees |-> rows[k][x].sender]]
      BY <1>0, <1>2 DEF QueryOwn, Goes, Begin, IsPage
    <2>2. ask[r].kind = "read" /\ Veiled(r) /\ k \in Keys
      BY <1>0, <2>1, AskTyped DEF HidInv, Reading, IInv
    <2>3. \A m \in hiddenAt[r] : \A x \in DOMAIN rows[k] : rows[k][x].id = m => ~rows[k][x].sender
      BY <2>1, <2>2 DEF Veiled
    <2>4. rows[k] \in Seq(Row)
      <3>1. \A j \in Keys : rows[j] \in Seq(Row)
        BY DEF IInv, TypeOK
      <3>. QED
        BY <2>2, <3>1
    <2>5. \A x \in DOMAIN queried'[r] : queried'[r][x].id \in hiddenAt[r] => ~queried'[r][x].sees
      <3>. HIDE DEF k
      <3>. QED
        BY <2>1, <2>3, <2>4
    <2>. QED
      BY <1>0, <2>1, <2>2, <2>5 DEF Reading, HidInv
  <1>3. CASE QueryPeer(r)
    <2>. DEFINE k == <<ask[r].to, ask[r].by>>
    <2>1. /\ at[r] = "own" /\ at'[r] = "peer" /\ hiddenAt' = hiddenAt /\ ~Looking(loop[r])
          /\ kept'[r] = Result(loop[r])
          /\ \E n \in 0..Limit :
               /\ n <= Len(rows[k])
               /\ queried'[r] = [x \in 1..n |-> [id |-> rows[k][x].id, sees |-> rows[k][x].receiver]]
      BY SMTT(30), <1>0, <1>3 DEF QueryPeer, Goes, Begin, IsPage
    <2>2. ask[r].kind = "read" /\ Veiled(r) /\ k \in Keys /\ ask[r].to # Group
      BY <1>0, <2>1, AskTyped DEF HidInv, Reading, IInv, Placed
    <2>3. \A m \in hiddenAt[r] : \A x \in DOMAIN rows[k] : rows[k][x].id = m => ~rows[k][x].receiver
      BY <2>2 DEF Veiled
    <2>4. rows[k] \in Seq(Row)
      <3>1. \A j \in Keys : rows[j] \in Seq(Row)
        BY DEF IInv, TypeOK
      <3>. QED
        BY <2>2, <3>1
    <2>5. \A x \in DOMAIN queried'[r] : queried'[r][x].id \in hiddenAt[r] => ~queried'[r][x].sees
      <3>. HIDE DEF k
      <3>. QED
        BY <2>1, <2>3, <2>4
    <2>6. IdSet(kept'[r]) = {queried[r][x].id : x \in {y \in DOMAIN queried[r] : queried[r][y].sees}}
      BY SMTT(30), <2>1, LoopIsExact DEF IInv, LoopsRight
    <2>7. IdSet(kept'[r]) \cap hiddenAt[r] = {}
      BY <2>1, <2>6 DEF HidInv
    <2>. QED
      BY <1>0, <2>1, <2>2, <2>5, <2>7 DEF Reading, HidInv
  <1>4. CASE Filter(r)
    <2>1. /\ at'[r] = at[r] \/ at'[r] = "panic"
          /\ UNCHANGED <<kept, queried, hiddenAt>>
      BY <1>0, <1>4 DEF Filter
    <2>. QED
      BY <1>0, <2>1 DEF HidInv, Reading
  <1>5. CASE AnswerConversation(r) \/ AnswerGroup(r)
    <2>1. at'[r] = "ok"
      BY <1>0, <1>5 DEF AnswerConversation, AnswerGroup, Goes
    <2>. QED
      BY <2>1 DEF Reading
  <1>6. CASE /\ at'[r] \in Reading => at'[r] = at[r]
             /\ hiddenAt'[r] = hiddenAt[r] /\ queried'[r] = queried[r]
             /\ kept'[r] = kept[r] /\ answers'[r] = answers[r]
    BY <1>0, <1>6 DEF HidInv, Reading
  <1>. QED
    BY <1>1, <1>2, <1>3, <1>4, <1>5, <1>6, ReaderFrame

(* Whatever is in neither of two lists is not in the two behind each other. *)
LEMMA InNeither ==
    ASSUME NEW S, NEW p \in Seq(S), NEW q \in Seq(S), NEW H,
           \A y \in DOMAIN p : p[y] \notin H,
           \A y \in DOMAIN q : q[y] \notin H
    PROVE  \A y \in DOMAIN (p \o q) : (p \o q)[y] \notin H
  <1>. SUFFICES ASSUME NEW y \in DOMAIN (p \o q)
                PROVE  (p \o q)[y] \notin H
    OBVIOUS
  <1>1. CASE y \in DOMAIN p
    <2>1. (p \o q)[y] = p[y]
      BY <1>1
    <2>. QED
      BY <1>1, <2>1
  <1>2. CASE y \notin DOMAIN p
    <2>1. (p \o q)[y] = q[y - Len(p)] /\ y - Len(p) \in DOMAIN q
      BY <1>2
    <2>. QED
      BY <2>1
  <1>. QED
    BY <1>1, <1>2

(* Whoever reads a conversation with somebody else is not answered from the *)
(* table what was hidden from them before, although messages are hidden and *)
(* created between the queries.                                             *)
THEOREM HiddenOut ==
    ASSUME NoSelf
    PROVE  Spec => []HiddenStaysOut
  <1>1. Init => HidInv /\ HiddenStaysOut
    BY DEF Init, HidInv, HiddenStaysOut, Reading
  <1>2. IInv /\ HidInv /\ [Next]_vars => HidInv'
    BY HidStep
  <1>3. IInv /\ HidInv /\ HiddenStaysOut /\ [Next]_vars => HiddenStaysOut'
    <2>. SUFFICES ASSUME IInv, HidInv, HiddenStaysOut, [Next]_vars, NEW r \in Reqs,
                         NEW x \in DOMAIN answers'[r], answers'[r][x].source = "table"
                  PROVE  \A y \in DOMAIN answers'[r][x].ids : answers'[r][x].ids[y] \notin hiddenAt'[r]
      BY DEF HiddenStaysOut
    <2>0. answers \in [Reqs -> Seq(Answer)] /\ at \in [Reqs -> Places]
      BY DEF IInv, TypeOK
    <2>1. ASSUME x \in DOMAIN answers[r], answers'[r][x] = answers[r][x], hiddenAt'[r] = hiddenAt[r]
          PROVE  \A y \in DOMAIN answers'[r][x].ids : answers'[r][x].ids[y] \notin hiddenAt'[r]
      BY <2>1 DEF HiddenStaysOut
    <2>2. CASE LookInCache(r)
      <3>1. answers[r] = <<>>
        BY <2>2, LookHides
      <3>2. answers'[r] = <<>> \/ \E ids : answers'[r] = <<[source |-> "cache", ids |-> ids]>>
        BY <2>0, <2>2, <3>1 DEF LookInCache, Answers
      <3>3. ASSUME NEW ids, answers'[r] = <<[source |-> "cache", ids |-> ids]>> PROVE FALSE
        <4>1. x = 1
          BY <3>3
        <4>2. answers'[r][1] = [source |-> "cache", ids |-> ids]
          BY <3>3
        <4>. QED
          BY <4>1, <4>2
      <3>4. answers'[r] # <<>>
        OBVIOUS
      <3>. QED
        BY <3>2, <3>3, <3>4
    <2>3. ASSUME NEW ids, hiddenAt'[r] = hiddenAt[r], Answers(r, "table", ids),
                 \A y \in DOMAIN ids : ids[y] \notin hiddenAt[r]
          PROVE  \A y \in DOMAIN answers'[r][x].ids : answers'[r][x].ids[y] \notin hiddenAt'[r]
      <3>. DEFINE a == [source |-> "table", ids |-> ids]
      <3>1. answers[r] \in Seq(Answer) /\ answers'[r] = Append(answers[r], a)
        BY <2>0, <2>3 DEF Answers
      <3>. HIDE DEF a
      <3>2. \/ x \in DOMAIN answers[r] /\ answers'[r][x] = answers[r][x]
            \/ answers'[r][x] = a
        BY <3>1
      <3>. QED
        BY <2>1, <2>3, <3>2 DEF a
    <2>4. CASE AnswerConversation(r)
      <3>. DEFINE p == IdsOf(kept[r])
                  q == IdsOf(Result(loop[r]))
      <3>1. /\ at[r] = "peer" /\ ~Looking(loop[r]) /\ hiddenAt' = hiddenAt
            /\ Answers(r, "table", p \o q)
        BY <2>0, <2>4 DEF AnswerConversation, Goes
      <3>0. kept[r] \in Seq(Items)
        BY DEF IInv, TypeOK, Items
      <3>7. LoopState(loop[r], queried[r])
        BY DEF IInv, LoopsRight
      <3>2. /\ kept[r] \in Seq(Items) /\ Result(loop[r]) \in Seq(Items)
            /\ IdSet(Result(loop[r])) =
                 {queried[r][z].id : z \in {y \in DOMAIN queried[r] : queried[r][y].sees}}
        BY <3>0, <3>1, <3>7, LoopIsExact
      <3>3. /\ \A y \in DOMAIN kept[r] : kept[r][y].id \notin hiddenAt[r]
            /\ \A y \in DOMAIN Result(loop[r]) : Result(loop[r])[y].id \notin hiddenAt[r]
        <4>1. IdSet(kept[r]) \cap hiddenAt[r] = {} /\ IdSet(Result(loop[r])) \cap hiddenAt[r] = {}
          BY <3>1, <3>2 DEF HidInv
        <4>. QED
          BY <4>1 DEF IdSet
      <3>4. /\ p \in Seq(Messages \cup {0}) /\ q \in Seq(Messages \cup {0})
            /\ \A y \in DOMAIN p : p[y] \notin hiddenAt[r]
            /\ \A y \in DOMAIN q : q[y] \notin hiddenAt[r]
        <4>1. /\ DOMAIN p = DOMAIN kept[r] /\ \A y \in DOMAIN p : p[y] = kept[r][y].id
              /\ p \in Seq(Messages \cup {0})
          BY <3>2, IdsAreList
        <4>2. /\ DOMAIN q = DOMAIN Result(loop[r]) /\ \A y \in DOMAIN q : q[y] = Result(loop[r])[y].id
              /\ q \in Seq(Messages \cup {0})
          BY <3>2, IdsAreList
        <4>. HIDE DEF p, q
        <4>. QED
          BY <3>3, <4>1, <4>2
      <3>. HIDE DEF p, q
      <3>6. \A y \in DOMAIN (p \o q) : (p \o q)[y] \notin hiddenAt[r]
        BY <3>4, InNeither
      <3>. QED
        BY <2>3, <3>1, <3>6
    <2>5. CASE AnswerGroup(r)
      <3>1. /\ at[r] = "query" /\ ask[r].to = Group /\ hiddenAt' = hiddenAt
            /\ \E ids : Answers(r, "table", ids)
        BY <2>0, <2>5 DEF AnswerGroup, Goes
      <3>2. hiddenAt[r] = {}
        BY <3>1 DEF HidInv, Reading, Veiled
      <3>. QED
        BY <2>3, <3>1, <3>2
    <2>6. CASE QueryOwn(r) \/ Filter(r) \/ QueryPeer(r)
      <3>1. hiddenAt' = hiddenAt /\ answers' = answers
        BY <2>6 DEF QueryOwn, Filter, QueryPeer
      <3>. QED
        BY <2>1, <3>1
    <2>7. CASE hiddenAt'[r] = hiddenAt[r] /\ answers'[r] = answers[r]
      BY <2>1, <2>7
    <2>. QED
      BY <2>2, <2>4, <2>5, <2>6, <2>7, ReaderFrame
  <1>. QED
    BY Invariance, <1>1, <1>2, <1>3, PTL DEF Spec
-----------------------------------------------------------------------------
(* Why a loop panics                                                        *)

(* Every loop that panicked had a message hidden before the last.           *)
LEMMA PanicStep ==
    ASSUME IInv, \A r \in Reqs : at[r] = "panic" => HiddenBeforeLast(queried[r]), [Next]_vars,
           NEW r \in Reqs, at'[r] = "panic"
    PROVE  HiddenBeforeLast(queried'[r])
  <1>0. at \in [Reqs -> Places]
    BY DEF IInv, TypeOK
  <1>1. CASE Filter(r)
    <2>1. queried' = queried /\ Looking(loop[r]) /\ (OutOfRange(loop[r]) \/ at'[r] = at[r])
      BY <1>1 DEF Filter
    <2>2. LoopState(loop[r], queried[r])
      BY DEF IInv, LoopsRight
    <2>3. OutOfRange(loop[r]) => HiddenBeforeLast(queried[r])
      BY <2>1, <2>2, PanicsByHidden
    <2>. QED
      BY <2>1, <2>3
  <1>2. CASE LookInCache(r) \/ QueryOwn(r) \/ QueryPeer(r) \/ AnswerConversation(r) \/ AnswerGroup(r)
    <2>1. at'[r] # "panic"
      BY <1>0, <1>2 DEF LookInCache, QueryOwn, QueryPeer, AnswerConversation, AnswerGroup, Goes
    <2>. QED
      BY <2>1
  <1>3. CASE at'[r] = at[r] /\ queried'[r] = queried[r]
    BY <1>3
  <1>. QED
    BY <1>1, <1>2, <1>3, ReaderFrame

(* The defect, exactly: a request panics only over a message hidden before  *)
(* the last of a query's result, and no loop over such a result ends.       *)
THEOREM PanicCause == Spec => []PanicHasCause
  <1>. DEFINE P == \A r \in Reqs : at[r] = "panic" => HiddenBeforeLast(queried[r])
  <1>1. Init => P
    BY DEF Init
  <1>2. IInv /\ P /\ [Next]_vars => P'
    BY PanicStep
  <1>3. IInv /\ P => PanicHasCause
    BY LoopIsExact DEF IInv, LoopsRight, PanicHasCause
  <1>. QED
    BY Invariance, <1>1, <1>2, <1>3, PTL DEF Spec
-----------------------------------------------------------------------------
(* Answers are of the conversation that was asked for                       *)

(* What may be answered once may be answered later.                         *)
LEMMA BelongsStays ==
    ASSUME IInv, [Next]_vars, NEW r \in Reqs, NEW source, NEW m, Belongs(r, source, m)
    PROVE  Belongs(r, source, m)'
  <1>1. HeldStays /\ ask' = ask
    BY TableStep, ControlStep DEF IInv
  <1>2. KeyOf(ask[r].by, ask[r].to) \in Keys /\ (ask[r].to # Group => <<ask[r].to, ask[r].by>> \in Keys)
    BY AskTyped DEF IInv
  <1>3. AsksFor(r, m) => AsksFor(r, m)'
    <2>. DEFINE i == KeyOf(ask[r].by, ask[r].to)
                j == <<ask[r].to, ask[r].by>>
    <2>1. i \in Keys /\ (ask[r].to # Group => j \in Keys)
      BY <1>2
    <2>2. KeyOf(ask'[r].by, ask'[r].to) = i /\ <<ask'[r].to, ask'[r].by>> = j
      BY <1>1 DEF KeyOf
    <2>. HIDE DEF i, j
    <2>.  DEFINE Later(k) == (\E x \in DOMAIN rows'[k] : rows'[k][x].id = m) \/ m \in lost'[k]
    <2>3. Held(i, m) => Later(i)
      BY <1>1, <2>1 DEF HeldStays, Held, Holds
    <2>4. ask[r].to # Group /\ Held(j, m) => Later(j)
      BY <1>1, <2>1 DEF HeldStays, Held, Holds
    <2>5. AsksFor(r, m) <=> (Held(i, m) \/ (ask[r].to # Group /\ Held(j, m)))
      BY DEF AsksFor, i, j
    <2>6. AsksFor(r, m)' <=> Later(i) \/ (ask[r].to # Group /\ Later(j))
      BY <1>1, <2>2 DEF AsksFor, Held, Holds
    <2>. HIDE DEF Later
    <2>. QED
      BY <2>3, <2>4, <2>5, <2>6
  <1>4. ASSUME NEW s \in Reqs, stamp[s] = m, m # 0 PROVE stamp'[s] = m
    BY <1>4, StampStep DEF IInv, Placed
  <1>. QED
    BY <1>1, <1>3, <1>4 DEF Belongs

(* What the queries yielded, and what the first loop kept, may be answered. *)
BelongInv ==
    \A r \in Reqs :
        /\ at[r] \in {"own", "peer"} =>
             \A x \in DOMAIN queried[r] : Belongs(r, "table", queried[r][x].id)
        /\ at[r] = "peer" => \A x \in DOMAIN kept[r] : Belongs(r, "table", kept[r][x].id)

(* A page of the conversation asked for may be answered.                    *)
LEMMA PageBelongs ==
    ASSUME IInv, NEW r \in Reqs, NEW k \in Keys, NEW n \in 0..Limit, IsPage(k, ask[r].before, n),
           \/ k = KeyOf(ask[r].by, ask[r].to)
           \/ ask[r].to # Group /\ k = <<ask[r].to, ask[r].by>>
    PROVE  /\ n \in Nat /\ n <= Len(rows[k])
           /\ \A x \in 1..n : Belongs(r, "table", rows[k][x].id)
  <1>1. rows[k] \in Seq(Row) /\ n \in Nat /\ n <= Len(rows[k])
        /\ \A x \in 1..n : x \in DOMAIN rows[k] /\ rows[k][x].id < ask[r].before
    BY DEF IInv, TypeOK, IsPage
  <1>2. \A x \in 1..n : Holds(k, rows[k][x].id)
    BY <1>1 DEF Holds
  <1>3. \A m : Holds(k, m) => AsksFor(r, m)
    BY DEF AsksFor, Held
  <1>. QED
    BY <1>1, <1>2, <1>3 DEF Belongs

(* What a loop that ended has kept was in the result of its query.          *)
LEMMA ResultBelongs ==
    ASSUME IInv, BelongInv, NEW r \in Reqs, at[r] \in {"own", "peer"}, ~Looking(loop[r])
    PROVE  /\ Result(loop[r]) \in Seq(Items)
           /\ \A x \in DOMAIN Result(loop[r]) : Belongs(r, "table", Result(loop[r])[x].id)
  <1>1. LoopState(loop[r], queried[r])
    BY DEF IInv, LoopsRight
  <1>2. /\ Result(loop[r]) \in Seq(Items)
        /\ IdSet(Result(loop[r])) = {queried[r][z].id : z \in {y \in DOMAIN queried[r] : queried[r][y].sees}}
    BY <1>1, LoopIsExact
  <1>3. \A x \in DOMAIN Result(loop[r]) : \E z \in DOMAIN queried[r] : Result(loop[r])[x].id = queried[r][z].id
    <2>. DEFINE res == Result(loop[r])
    <2>1. ASSUME NEW x \in DOMAIN res PROVE \E z \in DOMAIN queried[r] : res[x].id = queried[r][z].id
      <3>1. res[x].id \in IdSet(res)
        BY DEF IdSet
      <3>. HIDE DEF res
      <3>. QED
        BY <1>2, <3>1 DEF res
    <2>. QED
      BY <2>1
  <1>. QED
    BY <1>2, <1>3 DEF BelongInv

(* Every step keeps that of the readers.                                    *)
LEMMA BelongStep ==
    ASSUME IInv, BelongInv, [Next]_vars
    PROVE  BelongInv'
  <1>. SUFFICES ASSUME NEW r \in Reqs
                PROVE  (/\ at[r] \in {"own", "peer"} =>
                             \A x \in DOMAIN queried[r] : Belongs(r, "table", queried[r][x].id)
                        /\ at[r] = "peer" =>
                             \A x \in DOMAIN kept[r] : Belongs(r, "table", kept[r][x].id))'
    BY DEF BelongInv
  <1>0. /\ at \in [Reqs -> Places] /\ queried \in [Reqs -> Seq(Item(Messages))]
        /\ kept \in [Reqs -> Seq(Items)]
        /\ \A m : Belongs(r, "table", m) => Belongs(r, "table", m)'
    BY BelongsStays DEF IInv, TypeOK, Items
  <1>1. CASE QueryOwn(r)
    <2>. DEFINE k == <<ask[r].by, ask[r].to>>
    <2>1. PICK n \in 0..Limit :
            /\ at'[r] = "own" /\ ask[r].to # Group /\ IsPage(k, ask[r].before, n)
            /\ queried'[r] = [x \in 1..n |-> [id |-> rows[k][x].id, sees |-> rows[k][x].sender]]
      BY <1>0, <1>1 DEF QueryOwn, Goes, Begin
    <2>2. k \in Keys /\ k = KeyOf(ask[r].by, ask[r].to)
      BY <2>1, AskTyped DEF IInv, KeyOf
    <2>. HIDE DEF k
    <2>3. \A x \in 1..n : Belongs(r, "table", rows[k][x].id)
      BY <2>1, <2>2, PageBelongs
    <2>4. \A x \in DOMAIN queried'[r] : Belongs(r, "table", queried'[r][x].id)
      BY <2>1, <2>3
    <2>. QED
      BY <1>0, <2>1, <2>4
  <1>2. CASE QueryPeer(r)
    <2>. DEFINE k == <<ask[r].to, ask[r].by>>
    <2>1. PICK n \in 0..Limit :
            /\ at[r] = "own" /\ ~Looking(loop[r]) /\ IsPage(k, ask[r].before, n)
            /\ kept'[r] = Result(loop[r])
            /\ queried'[r] = [x \in 1..n |-> [id |-> rows[k][x].id, sees |-> rows[k][x].receiver]]
      BY SMTT(30), <1>0, <1>2 DEF QueryPeer, Goes, Begin
    <2>2. k \in Keys /\ ask[r].to # Group
      BY <2>1, AskTyped DEF IInv, Placed
    <2>3. \A x \in 1..n : Belongs(r, "table", rows[k][x].id)
      BY <2>1, <2>2, PageBelongs DEF k
    <2>. HIDE DEF k
    <2>4. \A x \in DOMAIN queried'[r] : Belongs(r, "table", queried'[r][x].id)
      BY <2>1, <2>3
    <2>5. \A x \in DOMAIN kept'[r] : Belongs(r, "table", kept'[r][x].id)
      BY <2>1, ResultBelongs
    <2>. QED
      BY <1>0, <2>4, <2>5
  <1>3. CASE Filter(r)
    <2>1. /\ at'[r] = at[r] \/ at'[r] = "panic"
          /\ UNCHANGED <<kept, queried>>
      BY <1>0, <1>3 DEF Filter
    <2>. QED
      BY <1>0, <2>1 DEF BelongInv
  <1>4. CASE LookInCache(r) \/ AnswerConversation(r) \/ AnswerGroup(r)
    <2>1. at'[r] \notin {"own", "peer"}
      BY <1>0, <1>4 DEF LookInCache, AnswerConversation, AnswerGroup, Goes
    <2>. QED
      BY <2>1
  <1>5. CASE /\ at'[r] \in Reading => at'[r] = at[r]
             /\ queried'[r] = queried[r] /\ kept'[r] = kept[r]
    BY <1>0, <1>5 DEF BelongInv, Reading
  <1>. QED
    BY <1>1, <1>2, <1>3, <1>4, <1>5, ReaderFrame

(* An answer that a step adds to those of a request.                        *)
LEMMA OneMoreAnswer ==
    ASSUME IInv, NEW r \in Reqs, NEW source, NEW ids, Answers(r, source, ids),
           NEW x \in DOMAIN answers'[r]
    PROVE  \/ x \in DOMAIN answers[r] /\ answers'[r][x] = answers[r][x]
           \/ answers'[r][x].source = source /\ answers'[r][x].ids = ids
  <1>. DEFINE a == [source |-> source, ids |-> ids]
  <1>1. answers[r] \in Seq(Answer) /\ answers'[r] = Append(answers[r], a)
    BY DEF Answers, IInv, TypeOK
  <1>2. a.source = source /\ a.ids = ids
    OBVIOUS
  <1>. HIDE DEF a
  <1>. QED
    BY <1>1, <1>2

(* What is answered from the cache: see CachedStored.                       *)
LEMMA CachedBelongs ==
    ASSUME IInv, CachedIsStored, NEW r \in Reqs,
           LET k == KeyOf(ask[r].by, ask[r].to) IN conv[k] # None
    PROVE  LET k == KeyOf(ask[r].by, ask[r].to)
           IN  \A x \in DOMAIN conv[k] : Belongs(r, "cache", conv[k][x].at)
  <1>. DEFINE k == KeyOf(ask[r].by, ask[r].to)
  <1>0. k \in Keys /\ ask[r].by \in Users /\ ask[r].to \in Users \cup {Group}
    BY AskTyped DEF IInv
  <1>1. k \in Keys /\ (k = Group => ask[r].to = Group)
    <2>1. ask[r].to # Group => k \in Users \X Users
      BY <1>0 DEF KeyOf
    <2>. HIDE DEF k
    <2>. QED
      BY <1>0, <2>1
  <1>2. \A m : Held(k, m) => AsksFor(r, m)
    BY DEF AsksFor
  <1>. HIDE DEF k
  <1>3. conv[k] # None
    BY DEF k
  <1>4. ASSUME NEW x \in DOMAIN conv[k] PROVE Belongs(r, "cache", conv[k][x].at)
    BY <1>1, <1>2, <1>3 DEF CachedIsStored, Belongs
  <1>. QED
    BY <1>4 DEF k

(* So the answers of the next state may be judged by this one.              *)
LEMMA OldBelongs ==
    ASSUME IInv, [Next]_vars,
           \A r \in Reqs : \A x \in DOMAIN answers'[r] : \A y \in DOMAIN answers'[r][x].ids :
               Belongs(r, answers'[r][x].source, answers'[r][x].ids[y])
    PROVE  AnswersBelong'
  <1>1. ASSUME NEW r \in Reqs, NEW source, NEW m, Belongs(r, source, m) PROVE Belongs(r, source, m)'
    BY <1>1, BelongsStays
  <1>2. ASSUME NEW r \in Reqs, NEW x \in DOMAIN answers'[r], NEW y \in DOMAIN answers'[r][x].ids
        PROVE  Belongs(r, answers[r][x].source, answers[r][x].ids[y])'
    <2>1. PICK source, m : source = answers'[r][x].source /\ m = answers'[r][x].ids[y]
      OBVIOUS
    <2>2. Belongs(r, source, m)
      BY <2>1
    <2>3. Belongs(r, source, m)'
      BY <1>1, <2>2
    <2>. QED
      BY <2>1, <2>3 DEF Belongs, AsksFor, Held, Holds, KeyOf
  <1>. QED
    BY <1>2 DEF AnswersBelong

(* Nobody is answered anything of another conversation, or later than they  *)
(* asked for, from the table; and from the cache nothing else either, but   *)
(* for zero messages and for those that were cached for the group.          *)
THEOREM AnswersFit == Spec => []AnswersBelong
  <1>1. Init => BelongInv /\ AnswersBelong
    BY DEF Init, BelongInv, AnswersBelong
  <1>2. IInv /\ BelongInv /\ [Next]_vars => BelongInv'
    BY BelongStep
  <1>3. IInv /\ CachedIsStored /\ BelongInv /\ AnswersBelong /\ [Next]_vars => AnswersBelong'
    <2>. SUFFICES ASSUME IInv, CachedIsStored, BelongInv, AnswersBelong, [Next]_vars
                  PROVE  AnswersBelong'
      OBVIOUS
    <2>1. SUFFICES ASSUME NEW r \in Reqs, NEW x \in DOMAIN answers'[r], NEW y \in DOMAIN answers'[r][x].ids
                   PROVE  Belongs(r, answers'[r][x].source, answers'[r][x].ids[y])
      BY OldBelongs
    <2>0. answers \in [Reqs -> Seq(Answer)] /\ at \in [Reqs -> Places]
      BY DEF IInv, TypeOK
    <2>2. ASSUME x \in DOMAIN answers[r], answers'[r][x] = answers[r][x]
          PROVE  Belongs(r, answers'[r][x].source, answers'[r][x].ids[y])
      BY <2>2 DEF AnswersBelong
    <2>3. ASSUME NEW source, NEW ids, Answers(r, source, ids), \A z \in DOMAIN ids : Belongs(r, source, ids[z])
          PROVE  Belongs(r, answers'[r][x].source, answers'[r][x].ids[y])
      BY <2>2, <2>3, OneMoreAnswer
    <2>4. CASE LookInCache(r)
      <3>. DEFINE k == KeyOf(ask[r].by, ask[r].to)
                  ids == [z \in DOMAIN conv[k] |-> conv[k][z].at]
      <3>1. (conv[k] # None /\ Answers(r, "cache", ids)) \/ answers' = answers
        BY <2>4 DEF LookInCache
      <3>2. conv[k] # None => \A z \in DOMAIN ids : Belongs(r, "cache", ids[z])
        BY CachedBelongs
      <3>. HIDE DEF k, ids
      <3>. QED
        BY <2>2, <2>3, <3>1, <3>2
    <2>5. CASE AnswerConversation(r)
      <3>. DEFINE p == IdsOf(kept[r])
                  q == IdsOf(Result(loop[r]))
                  H == {m \in Messages \cup {0} : ~Belongs(r, "table", m)}
      <3>0. \A m : Belongs(r, "table", m) => m \notin H
        OBVIOUS
      <3>1. at[r] = "peer" /\ ~Looking(loop[r]) /\ Answers(r, "table", p \o q)
        BY <2>0, <2>5 DEF AnswerConversation, Goes
      <3>2. kept[r] \in Seq(Items) /\ \A z \in DOMAIN kept[r] : Belongs(r, "table", kept[r][z].id)
        BY <3>1 DEF IInv, TypeOK, Items, BelongInv
      <3>3. /\ Result(loop[r]) \in Seq(Items)
            /\ \A z \in DOMAIN Result(loop[r]) : Belongs(r, "table", Result(loop[r])[z].id)
        BY <3>1, ResultBelongs
      <3>4. /\ p \in Seq(Messages \cup {0}) /\ q \in Seq(Messages \cup {0})
            /\ \A z \in DOMAIN p : p[z] \notin H
            /\ \A z \in DOMAIN q : q[z] \notin H
        <4>. HIDE DEF H
        <4>1. /\ DOMAIN p = DOMAIN kept[r] /\ \A z \in DOMAIN p : p[z] = kept[r][z].id
              /\ p \in Seq(Messages \cup {0})
          BY <3>2, IdsAreList
        <4>2. /\ DOMAIN q = DOMAIN Result(loop[r]) /\ \A z \in DOMAIN q : q[z] = Result(loop[r])[z].id
              /\ q \in Seq(Messages \cup {0})
          BY <3>3, IdsAreList
        <4>. HIDE DEF p, q
        <4>. QED
          BY <3>0, <3>2, <3>3, <4>1, <4>2
      <3>. HIDE DEF p, q
      <3>5. \A z \in DOMAIN (p \o q) : (p \o q)[z] \notin H /\ (p \o q)[z] \in Messages \cup {0}
        <4>. HIDE DEF H
        <4>1. \A z \in DOMAIN (p \o q) : (p \o q)[z] \notin H
          BY <3>4, InNeither
        <4>2. p \o q \in Seq(Messages \cup {0})
          BY <3>4
        <4>. QED
          BY <4>1, <4>2
      <3>6. \A z \in DOMAIN (p \o q) : Belongs(r, "table", (p \o q)[z])
        BY <3>5
      <3>. DEFINE ids == p \o q
      <3>7. Answers(r, "table", ids) /\ \A z \in DOMAIN ids : Belongs(r, "table", ids[z])
        BY <3>1, <3>6
      <3>. HIDE DEF ids
      <3>. QED
        BY <2>3, <3>7
    <2>6. CASE AnswerGroup(r)
      <3>1. PICK n \in 0..Limit : /\ ask[r].to = Group /\ IsPage(Group, ask[r].before, n)
                                  /\ Answers(r, "table", [z \in 1..n |-> rows[Group][z].id])
        BY <2>6 DEF AnswerGroup
      <3>. DEFINE ids == [z \in 1..n |-> rows[Group][z].id]
      <3>2. Group \in Keys /\ Group = KeyOf(ask[r].by, ask[r].to)
        BY <3>1 DEF KeyOf
      <3>3. \A z \in DOMAIN ids : Belongs(r, "table", ids[z])
        BY <3>1, <3>2, PageBelongs
      <3>4. Answers(r, "table", ids)
        BY <3>1
      <3>. HIDE DEF ids
      <3>. QED
        BY <2>3, <3>3, <3>4
    <2>7. CASE QueryOwn(r) \/ Filter(r) \/ QueryPeer(r)
      <3>1. answers' = answers
        BY <2>7 DEF QueryOwn, Filter, QueryPeer
      <3>. QED
        BY <2>2, <3>1
    <2>8. CASE answers'[r] = answers[r]
      BY <2>2, <2>8
    <2>. QED
      BY <2>4, <2>5, <2>6, <2>7, <2>8, ReaderFrame
  <1>. QED
    BY Invariance, CachedStored, <1>1, <1>2, <1>3, PTL DEF Spec
-----------------------------------------------------------------------------
(* What is hidden on one side                                               *)

(* Before the process starts nothing is hidden on one side alone.           *)
StoredWhole ==
    \A k \in Keys : \A x \in DOMAIN Stored[k] : Stored[k][x].sender = Stored[k][x].receiver

(* The first statement of a deletion has hidden what was there by then.     *)
HalfDeleted ==
    \A r \in Reqs : at[r] = "half" /\ ask[r].kind = "delete" =>
        \A x \in DOMAIN rows[own[r]] :
            rows[own[r]][x].id <= stamp[r] => ~rows[own[r]][x].sender

(* How requests leave the places between and behind the statements.         *)
LEMMA Leaves ==
    ASSUME TypeOK, [Next]_vars, NEW r \in Reqs
    PROVE  /\ at[r] = "half" => \/ at'[r] \in {"half", "error"}
                               \/ DeleteForReceiver(r) \/ ForgetReceived(r)
           /\ at[r] = "hidden" => at'[r] \in {"hidden", "ok"}
           /\ at[r] \in {"ok", "error"} => at'[r] = at[r]
  <1>. DEFINE Ok == /\ at[r] = "half" => at'[r] \in {"half", "error"}
                    /\ at[r] = "hidden" => at'[r] \in {"hidden", "ok"}
                    /\ at[r] \in {"ok", "error"} => at'[r] = at[r]
  <1>0. at \in [Reqs -> Places]
    BY DEF TypeOK
  <1>1. ASSUME NEW s \in Reqs, NEW from, NEW to, Goes(s, from, to),
               from \notin {"half", "ok", "error"}, from = "hidden" => to = "ok"
        PROVE  Ok
    BY <1>0, <1>1 DEF Goes
  <1>2. ASSUME NEW s \in Reqs,
               \/ CreateMessage(s) \/ CacheMessage(s) \/ DeleteReceived(s) \/ DeleteNothing(s)
               \/ Uncache(s) \/ RemoveUser(s) \/ LookInCache(s) \/ QueryOwn(s) \/ QueryPeer(s)
               \/ AnswerConversation(s) \/ AnswerGroup(s)
        PROVE  Ok
    <2>1. \/ Goes(s, "start", "stored") \/ Goes(s, "start", "ok") \/ Goes(s, "stored", "ok") \/ Goes(s, "start", "hidden")
          \/ Goes(s, "hidden", "ok") \/ Goes(s, "start", "query") \/ Goes(s, "query", "own")
          \/ Goes(s, "own", "peer") \/ Goes(s, "peer", "ok") \/ Goes(s, "query", "ok")
      BY <1>2 DEF CreateMessage, CacheMessage, DeleteReceived, DeleteNothing, Uncache, RemoveUser,
         LookInCache, QueryOwn, QueryPeer, AnswerConversation, AnswerGroup
    <2>. HIDE DEF Ok
    <2>. QED
      BY <1>1, <2>1
  <1>3. ASSUME NEW s \in Reqs, Filter(s) PROVE Ok
    BY <1>0, <1>3 DEF Filter
  <1>4. ASSUME NEW s \in Reqs, Fail(s) PROVE Ok
    <2>1. \E from \in {"start", "half", "query", "own"} : Goes(s, from, "error")
      BY <1>4 DEF Fail
    <2>. QED
      BY <1>0, <2>1 DEF Goes
  <1>5. ASSUME NEW s \in Reqs,
               \/ DeleteOwn(s) \/ ForgetSent(s) \/ DeleteForReceiver(s) \/ ForgetReceived(s)
        PROVE  /\ s # r => at'[r] = at[r]
               /\ at[s] = "start" => at'[s] = "half" /\ (DeleteOwn(s) \/ ForgetSent(s))
               /\ at[s] # "start" => /\ at[s] = "half" /\ at'[s] \in {"hidden", "ok"}
                                     /\ DeleteForReceiver(s) \/ ForgetReceived(s)
    BY <1>0, <1>5 DEF DeleteOwn, ForgetSent, DeleteForReceiver, ForgetReceived, Goes
  <1>6. CASE UNCHANGED vars
    BY <1>6 DEF vars
  <1>7. CASE \E s \in Reqs : \/ DeleteOwn(s) \/ ForgetSent(s)
                             \/ DeleteForReceiver(s) \/ ForgetReceived(s)
    BY <1>5, <1>7
  <1>. QED
    BY <1>2, <1>3, <1>4, <1>6, <1>7 DEF Next

(* Every step keeps what is true between the statements of a deletion.     *)
LEMMA HalfDeletedStep ==
    ASSUME IInv, HalfDeleted, [Next]_vars
    PROVE  HalfDeleted'
  <1>0. /\ ask' = ask /\ TableInv /\ TableInv' /\ stamp \in [Reqs -> 0..last]
        /\ own \in [Reqs -> Keys \cup {None}]
    BY ControlStep, TableStep DEF IInv, TypeOK, TableInv
  <1>. SUFFICES ASSUME NEW r \in Reqs, at'[r] = "half", ask[r].kind = "delete",
                       NEW x \in DOMAIN rows'[own'[r]], rows'[own'[r]][x].id <= stamp'[r]
                PROVE  ~rows'[own'[r]][x].sender
    BY <1>0 DEF HalfDeleted
  <1>1. CASE at[r] = "half"
    <2>1. own'[r] = own[r] /\ stamp'[r] = stamp[r]
      BY <1>1, OwnStep, StampStep
    <2>2. PICK to \in Users : own[r] = <<ask[r].by, to>>
      BY <1>1 DEF IInv, FoundOwn
    <2>. DEFINE k == <<ask[r].by, to>>
    <2>3. ask[r].by \in Users /\ k \in Keys
      BY <2>2, AskTyped DEF IInv
    <2>4. \/ rows'[k][x].id > last
          \/ x \in DOMAIN rows[k] /\ Keeps(rows[k][x], rows'[k][x])
      BY <2>1, <2>2, <2>3, RowStep
    <2>. HIDE DEF k
    <2>5. own[r] = k
      BY <2>2 DEF k
    <2>6. rows'[k][x].id \in Nat
      <3>1. rows'[k] \in Seq(Row)
        BY <1>0, <2>3 DEF TableInv
      <3>2. rows'[k][x] \in Row
        BY <2>1, <2>5, <3>1
      <3>. QED
        BY <3>2, ConversationListAssumption DEF Row
    <2>7. ~(rows'[k][x].id > last)
      BY <1>0, <2>1, <2>5, <2>6 DEF TableInv
    <2>. QED
      BY <1>1, <2>1, <2>4, <2>5, <2>7 DEF HalfDeleted, Keeps
  <1>2. CASE DeleteOwn(r)
    <2>1. PICK to \in Users : /\ HideFromSender(<<ask[r].by, to>>)
                              /\ own' = [own EXCEPT ![r] = <<ask[r].by, to>>]
      BY <1>2 DEF DeleteOwn
    <2>. DEFINE k == <<ask[r].by, to>>
    <2>2. k \in Keys /\ UNCHANGED <<accounts, last, lost>> /\ own'[r] = k
      BY <1>0, <1>2, <2>1, AskTyped DEF DeleteOwn, IInv
    <2>3. DOMAIN rows'[k] = DOMAIN rows[k] /\ \A y \in DOMAIN rows[k] : ~rows'[k][y].sender
      BY <1>0, <2>1, <2>2, HideSenderTable
    <2>. QED
      BY <2>2, <2>3
  <1>. QED
    BY <1>1, <1>2, Arrives DEF ForgetSent, IInv

(* A cause stays a cause, but for a deletion that goes on to hide the       *)
(* receiver's side.                                                         *)
LEMMA SenderHidStays ==
    ASSUME IInv, [Next]_vars, NEW a \in Users, NEW b \in Users, NEW r \in Reqs, NEW m,
           SenderHid(r, a, b, m)
    PROVE  \/ SenderHid(r, a, b, m)'
           \/ \A x \in DOMAIN rows[<<a, b>>] : ~rows'[<<a, b>>][x].receiver
  <1>. DEFINE k == <<a, b>>
  <1>0. /\ ask' = ask /\ stamp'[r] = stamp[r] /\ k \in Keys \ {Group} /\ k # None /\ TableInv
        /\ at[r] # "start" /\ at'[r] # "start" /\ own'[r] = own[r] /\ ask[r].by = a /\ m <= stamp[r]
    BY ControlStep, StampStep, OwnStep, PairKey DEF SenderHid, IInv, TypeOK, TableInv
  <1>1. CASE ask[r].kind = "forget" /\ ask[r].to = b
    BY <1>0, <1>1 DEF SenderHid
  <1>2. CASE own[r] = k /\ at'[r] \in {"half", "error"}
    BY <1>0, <1>2 DEF SenderHid
  <1>3. CASE own[r] = k /\ DeleteForReceiver(r)
    BY <1>0, <1>3, HideReceiverTable DEF DeleteForReceiver
  <1>4. CASE own[r] = k /\ ForgetReceived(r)
    BY <1>0, <1>4 DEF ForgetReceived, IInv, FoundOwn
  <1>5. /\ at[r] = "half" => \/ at'[r] \in {"half", "error"}
                             \/ DeleteForReceiver(r) \/ ForgetReceived(r)
        /\ at[r] = "error" => at'[r] = at[r]
    BY Leaves DEF IInv
  <1>. QED
    BY <1>1, <1>2, <1>3, <1>4, <1>5 DEF SenderHid

(* Once the receiver's side of a message has a cause, it keeps it for as    *)
(* long as the pair has messages.                                           *)
LEMMA ReceiverHidStays ==
    ASSUME IInv, [Next]_vars, NEW a \in Users, NEW b \in Users, NEW r \in Reqs, NEW m,
           NEW x \in DOMAIN rows'[<<a, b>>], ReceiverHid(r, a, b) \/ DeletedBefore(r, a, b, m)
    PROVE  ReceiverHid(r, a, b)' \/ DeletedBefore(r, a, b, m)'
  <1>. DEFINE k == <<a, b>>
  <1>1. /\ ask' = ask /\ stamp'[r] = stamp[r] /\ own'[r] = own[r]
        /\ k \in Keys \ {Group} /\ PairsStay
    BY ControlStep, StampStep, OwnStep, TableStep, PairKey DEF ReceiverHid, DeletedBefore, IInv
  <1>2. Holds(k, ask[r].msg) => \E y \in DOMAIN rows'[k] : rows'[k][y].id = ask[r].msg
    <2>1. x \in DOMAIN rows'[k]
      OBVIOUS
    <2>. HIDE DEF k
    <2>. QED
      BY <1>1, <2>1 DEF PairsStay, Holds, Keeps
  <1>3. /\ at[r] = "ok" => at'[r] = "ok"
        /\ at[r] \in {"hidden", "ok"} => at'[r] \in {"hidden", "ok"}
    BY Leaves DEF IInv
  <1>. QED
    BY <1>1, <1>2, <1>3 DEF ReceiverHid, DeletedBefore, Holds

(* A message hidden on one side alone is so for a reason: the deletion is   *)
(* between its statements or failed there, somebody deleted the             *)
(* conversation, the receiver deleted, or the message came in between.      *)
THEOREM HalfHidden ==
    ASSUME StoredWhole
    PROVE  Spec => []HalfHiddenHasCause
  <1>1. Init => HalfDeleted /\ HalfHiddenHasCause
    BY DEF Init, HalfDeleted, HalfHiddenHasCause, StoredWhole
  <1>2. IInv /\ HalfDeleted /\ [Next]_vars => HalfDeleted'
    BY HalfDeletedStep
  <1>3. IInv /\ HalfDeleted /\ HalfHiddenHasCause /\ [Next]_vars => HalfHiddenHasCause'
    <2>. SUFFICES ASSUME IInv, HalfDeleted, HalfHiddenHasCause, [Next]_vars,
                         NEW a \in Users, NEW b \in Users, NEW x \in DOMAIN rows'[<<a, b>>]
                  PROVE  (LET row == rows[<<a, b>>][x]
                          IN  /\ ~row.sender /\ row.receiver =>
                                   \E r \in Reqs : SenderHid(r, a, b, row.id)
                              /\ row.sender /\ ~row.receiver =>
                                   \E r \in Reqs : ReceiverHid(r, a, b) \/ DeletedBefore(r, a, b, row.id))'
      BY DEF HalfHiddenHasCause
    <2>. SUFFICES ASSUME NEW m, m = rows'[<<a, b>>][x].id
                  PROVE  LET row == rows'[<<a, b>>][x]
                         IN  /\ ~row.sender /\ row.receiver =>
                                   \E r \in Reqs : SenderHid(r, a, b, m)'
                             /\ row.sender /\ ~row.receiver =>
                                   \E r \in Reqs : ReceiverHid(r, a, b)' \/ DeletedBefore(r, a, b, m)'
      BY ZenonT(40) DEF SenderHid, DeletedBefore
    <2>. DEFINE k == <<a, b>>
    <2>0. /\ k \in Keys \ {Group} /\ ask' = ask /\ TableInv /\ PairsStay
          /\ at \in [Reqs -> Places] /\ stamp \in [Reqs -> 0..last] /\ x \in DOMAIN rows'[k]
      BY ControlStep, TableStep, PairKey DEF IInv, TypeOK, TableInv
    <2>9. \/ rows'[k][x].sender /\ rows'[k][x].receiver
          \/ /\ rows[k][x].sender /\ ~rows'[k][x].sender => \E r \in Reqs : HidesSent(r, a, b)
             /\ rows[k][x].receiver /\ ~rows'[k][x].receiver => \E r \in Reqs : HidesReceived(r, a, b)
      BY RowStep
    <2>1. CASE x \notin DOMAIN rows[k]
      BY <2>1, RowStep
    <2>2. CASE x \in DOMAIN rows[k]
      <3>0. /\ m = rows[k][x].id /\ m \in Nat /\ m <= last
            /\ rows'[k][x].sender => rows[k][x].sender
            /\ rows'[k][x].receiver => rows[k][x].receiver
        <4>1. rows[k] \in Seq(Row)
          BY <2>0 DEF TableInv
        <4>0. m = rows'[k][x].id
          OBVIOUS
        <4>. HIDE DEF k
        <4>2. rows[k][x] \in Row
          BY <2>2, <4>1
        <4>3. rows[k][x].id \in Nat
          BY <4>2, ConversationListAssumption DEF Row
        <4>4. rows[k][x].id <= last
          BY <2>0, <2>2 DEF TableInv
        <4>5. /\ rows'[k][x].id = rows[k][x].id
              /\ rows'[k][x].sender => rows[k][x].sender
              /\ rows'[k][x].receiver => rows[k][x].receiver
          BY <2>0, <2>2 DEF PairsStay, Keeps
        <4>. QED
          BY <4>0, <4>3, <4>4, <4>5
      <3>1. ASSUME ~rows'[k][x].sender, rows'[k][x].receiver
            PROVE  \E r \in Reqs : SenderHid(r, a, b, m)'
        <4>1. CASE ~rows[k][x].sender
          <5>1. PICK r \in Reqs : SenderHid(r, a, b, m)
            BY <2>2, <3>0, <3>1, <4>1 DEF HalfHiddenHasCause
          <5>. QED
            BY <2>2, <3>1, <5>1, SenderHidStays
        <4>2. CASE rows[k][x].sender
          <5>1. PICK r \in Reqs : \/ DeleteOwn(r) /\ ask[r].by = a /\ own'[r] = k
                                  \/ ForgetSent(r) /\ ask[r].by = a /\ ask[r].to = b
            BY <2>9, <3>1, <4>2 DEF HidesSent
          <5>2. stamp'[r] = last /\ at'[r] = "half"
            BY <2>0, <5>1 DEF DeleteOwn, ForgetSent, Goes, Stamp
          <5>4. ask[r].by = a /\ m <= stamp'[r] /\ at'[r] # "start"
            BY <3>0, <5>1, <5>2
          <5>5. (ask[r].kind = "forget" /\ ask[r].to = b) \/ own'[r] = k
            BY <5>1 DEF ForgetSent
          <5>. QED
            BY <2>0, <5>2, <5>4, <5>5 DEF SenderHid
        <4>. QED
          BY <4>1, <4>2
      <3>2. ASSUME rows'[k][x].sender, ~rows'[k][x].receiver
            PROVE  \E r \in Reqs : ReceiverHid(r, a, b)' \/ DeletedBefore(r, a, b, m)'
        <4>1. CASE ~rows[k][x].receiver
          <5>1. PICK r \in Reqs : ReceiverHid(r, a, b) \/ DeletedBefore(r, a, b, m)
            BY <2>2, <3>0, <3>2, <4>1 DEF HalfHiddenHasCause
          <5>. QED
            BY <5>1, ReceiverHidStays
        <4>2. CASE rows[k][x].receiver
          <5>1. PICK r \in Reqs : \/ DeleteForReceiver(r) /\ own[r] = k
                                  \/ DeleteReceived(r) /\ ask[r].by = b /\ Holds(k, ask[r].msg)
                                  \/ ForgetReceived(r) /\ ask[r].by = b /\ ask[r].to = a
            BY <2>9, <3>2, <4>2 DEF HidesReceived
          <5>2. Holds(k, ask[r].msg) => \E y \in DOMAIN rows'[k] : rows'[k][y].id = ask[r].msg
            <6>. HIDE DEF k
            <6>. QED
              BY <2>0 DEF PairsStay, Holds, Keeps
          <5>3. CASE DeleteForReceiver(r) /\ own[r] = k
            <6>1. /\ at[r] = "half" /\ at'[r] = "hidden" /\ ask[r].kind = "delete"
                  /\ UNCHANGED <<own, stamp>>
              BY <2>0, <5>3 DEF DeleteForReceiver, Goes
            <6>2. \A y \in DOMAIN rows[k] : rows[k][y].id <= stamp[r] => ~rows[k][y].sender
              BY <5>3, <6>1 DEF HalfDeleted
            <6>3. ~(m <= stamp[r])
              <7>. HIDE DEF k
              <7>. QED
                BY <2>2, <3>0, <3>2, <6>2
            <6>4. stamp[r] \in Nat
              BY <2>0
            <6>5. stamp'[r] < m
              BY <3>0, <6>1, <6>3, <6>4
            <6>. QED
              BY <5>3, <6>1, <6>5 DEF DeletedBefore
          <5>4. CASE DeleteReceived(r) /\ ask[r].by = b /\ Holds(k, ask[r].msg)
            <6>1. at'[r] = "hidden" /\ ask[r].kind = "delete" /\ ~ask[r].named
              BY <2>0, <5>4 DEF DeleteReceived, Goes
            <6>. QED
              BY <2>0, <5>2, <5>4, <6>1 DEF ReceiverHid, Holds
          <5>5. CASE ForgetReceived(r) /\ ask[r].by = b /\ ask[r].to = a
            <6>1. at'[r] = "ok" /\ ask[r].kind = "forget"
              BY <2>0, <5>5 DEF ForgetReceived, Goes
            <6>. QED
              BY <2>0, <5>5, <6>1 DEF ReceiverHid
          <5>. QED
            BY <5>1, <5>3, <5>4, <5>5
        <4>. QED
          BY <4>1, <4>2
      <3>. QED
        BY <3>1, <3>2
    <2>. QED
      BY <2>1, <2>2
  <1>. QED
    BY Invariance, <1>1, <1>2, <1>3, PTL DEF Spec
-----------------------------------------------------------------------------
(* What the handlers do to the table and to the cache                       *)

(* A flag that was cleared is never set again, and a row goes only with the *)
(* account of its sender or its receiver.                                   *)
THEOREM HiddenForever == Spec => HiddenForGood
  <1>1. IInv /\ [Next]_vars => [Grows]_vars
    BY TableStep
  <1>. QED
    BY Invariance, <1>1, PTL DEF Spec, HiddenForGood

(* Every step is a call of the cache, or leaves it alone.                   *)
LEMMA StepUsesMap == IInv /\ [Next]_vars => [MapNext]_conv
  <1>. SUFFICES ASSUME IInv, [Next]_vars PROVE MapNext \/ conv' = conv
    OBVIOUS
  <1>1. ASSUME NEW r \in Reqs, CacheMessage(r) PROVE MapNext \/ conv' = conv
    <2>1. /\ MapSet(CacheKey(r), stamp[r]) \/ conv' = conv
          /\ stamp[r] \in Messages /\ CacheKey(r) \in Keys
      BY <1>1, AskTyped DEF CacheMessage, Goes, IInv, Placed
    <2>. QED
      BY <2>1 DEF MapNext
  <1>2. ASSUME NEW r \in Reqs, Uncache(r) PROVE MapNext \/ conv' = conv
    <2>1. ask[r].msg \in Messages /\ own[r] \in Keys \cup {None}
      BY AskTyped DEF IInv, TypeOK
    <2>. QED
      BY <1>2, <2>1 DEF Uncache, MapNext
  <1>3. conv' = conv \/ \E r \in Reqs : CacheMessage(r) \/ Uncache(r)
    BY DEF Next, vars, CreateMessage, DeleteOwn, DeleteForReceiver, DeleteReceived,
       DeleteNothing, ForgetSent, ForgetReceived, RemoveUser, LookInCache, QueryOwn, Filter, QueryPeer,
       AnswerConversation, AnswerGroup, Fail
  <1>. QED
    BY <1>1, <1>2, <1>3

(* The handlers use the cache as ConversationMap allows; so what is proved  *)
(* of its calls, below, holds of the cache beside the table.                *)
THEOREM CacheUsed == Spec => UsesMap
  <1>1. Init => MapInit
    BY DEF Init
  <1>. QED
    BY Invariance, StepUsesMap, <1>1, PTL DEF Spec, UsesMap, MapSpec

(* However its calls are ordered, ConversationMap keeps every list whole.   *)
THEOREM MapKeepsLists == MapSpec => []CachedHasLast
  <1>. DEFINE P == conv \in [Keys -> Seq(Entry) \cup {None}] /\ \A k \in Keys : conv[k] # None => Whole(conv[k])
  <1>1. MapInit => P
    BY DEF MapInit
  <1>2. P /\ MapNext => P'
    <2>. SUFFICES ASSUME P, MapNext PROVE P'
      OBVIOUS
    <2>1. ASSUME NEW k \in Keys, NEW m \in Messages, MapSet(k, m) PROVE P'
      <3>1. NewMessage(m) \in Entry
        BY DEF NewMessage, Entry
      <3>2. Whole(IF conv[k] = None THEN FirstList(NewMessage(m)) ELSE Inserted(conv[k], NewMessage(m)))
        BY <3>1, FirstListWhole, InsertedWhole
      <3>. QED
        BY <2>1, <3>2 DEF MapSet, Whole
    <2>2. ASSUME NEW k \in Keys, NEW m \in Messages, MapRemoveMessage(k, m) PROVE P'
      <3>1. Whole(Removed(conv[k], m))
        BY <2>2, RemovedWhole DEF MapRemoveMessage
      <3>. QED
        BY <2>2, <3>1 DEF MapRemoveMessage, Whole
    <2>3. ASSUME NEW k \in Keys, NEW m \in Messages, MapUpdate(k, m) PROVE P'
      BY <2>3 DEF MapUpdate, Updated
    <2>4. ASSUME NEW k \in Keys, MapRemove(k) PROVE P'
      BY <2>4 DEF MapRemove
    <2>. QED
      BY <2>1, <2>2, <2>3, <2>4 DEF MapNext
  <1>3. P => CachedHasLast
    BY DEF CachedHasLast, Whole
  <1>4. P /\ [MapNext]_conv => P'
    BY <1>2
  <1>. HIDE DEF P
  <1>. QED
    BY <1>1, <1>3, <1>4, PTL DEF MapSpec

(* So a reader finds a last message in every list it looks at: the index    *)
(* len(messages)-1 is never below the list.                                 *)
THEOREM ReaderFindsLast == Spec => []CachedHasLast
  BY CacheUsed, MapKeepsLists, PTL DEF UsesMap
=============================================================================
