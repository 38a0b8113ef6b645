------------------------ MODULE ConversationListProofs ------------------------
(***************************************************************************)
(* What Set and RemoveMessage make of a list of the cache, for every set of *)
(* messages and every length of a new list.                                 *)
(***************************************************************************)
EXTENDS ConversationList, TLAPS

Last(list) == list[Len(list)]

(* What Set and RemoveMessage keep of a list.                              *)
Whole(list) == list \in Seq(Entry) /\ Len(list) >= Window

(* make([]Message, 10) is a list of ten messages.                          *)
LEMMA ZerosType == Zeros \in Seq(Entry) /\ Len(Zeros) = Window
  BY ConversationListAssumption DEF Zeros, ZeroMessage, Entry

(* The first Set of a conversation makes a whole list.                     *)
LEMMA FirstListWhole ==
  ASSUME NEW e \in Entry
  PROVE  Whole(FirstList(e))
  BY ConversationListAssumption, ZerosType DEF FirstList, Whole

(* Set keeps a list whole and puts the new message last.                   *)
LEMMA InsertedWhole ==
  ASSUME NEW list, Whole(list), NEW e \in Entry
  PROVE  Whole(Inserted(list, e)) /\ Last(Inserted(list, e)) = e
  BY ConversationListAssumption, ZerosType DEF Inserted, Whole, Last

(* What follows a place in a list ends with the list.                      *)
LEMMA EndPart ==
  ASSUME NEW s \in Seq(Entry), NEW i \in 1..(Len(s) - 1)
  PROVE  LET b == SubSeq(s, i + 1, Len(s))
         IN  b \in Seq(Entry) /\ Len(b) > 0 /\ b[Len(b)] = s[Len(s)]
  <1> DEFINE b == SubSeq(s, i + 1, Len(s))
  <1>1. b \in Seq(Entry) /\ Len(b) = Len(s) - i
    OBVIOUS
  <1>2. b[Len(s) - i] = s[Len(s)]
    OBVIOUS
  <1> QED
    BY <1>1, <1>2

(* RemoveMessage keeps a list whole and its last message where it is.      *)
LEMMA RemovedWhole ==
  ASSUME NEW list, Whole(list), NEW m
  PROVE  Whole(Removed(list, m)) /\ Last(Removed(list, m)) = Last(list)
  <1> DEFINE i == Position(list, m)
  <1> USE ConversationListAssumption, ZerosType DEF Whole, Last
  <1>1. CASE ~ \E j \in 1..Len(list) : list[j].at = m
    BY <1>1 DEF Removed
  <1>2. CASE \E j \in 1..Len(list) : list[j].at = m
    <2>1. i \in 1..Len(list)
      BY <1>2 DEF Position
    <2>2. CASE i = 1
      <3>1. Removed(list, m) = Zeros \o Tail(list)
        BY <1>2, <2>2 DEF Removed
      <3> QED
        BY <3>1
    <2>3. CASE i # 1 /\ i = Len(list)
      <3>1. Removed(list, m) = Zeros \o SubSeq(list, 1, i)
        BY <1>2, <2>3 DEF Removed
      <3> QED
        BY <2>1, <2>3, <3>1
    <2>4. CASE i # 1 /\ i # Len(list)
      <3> DEFINE a == SubSeq(list, 1, i)
                 b == SubSeq(list, i + 1, Len(list))
                 c == Zeros \o a
      <3>1. Removed(list, m) = c \o b
        BY <1>2, <2>4 DEF Removed
      <3>2. a \in Seq(Entry) /\ Len(a) = i
        BY <2>1
      <3>3. b \in Seq(Entry) /\ Len(b) > 0 /\ b[Len(b)] = list[Len(list)]
        <4>1. i \in 1..(Len(list) - 1)
          BY <2>1, <2>4
        <4> QED
          BY <4>1, EndPart
      <3> HIDE DEF a, b, i
      <3>4. c \in Seq(Entry) /\ Len(c) >= Window
        BY <2>1, <3>2
      <3> HIDE DEF c
      <3>5. c \o b \in Seq(Entry) /\ Len(c \o b) = Len(c) + Len(b)
        BY <3>3, <3>4
      <3>6. (c \o b)[Len(c) + Len(b)] = b[Len(b)]
        BY <3>3, <3>4
      <3> QED
        BY <3>1, <3>3, <3>4, <3>5, <3>6
    <2> QED
      BY <2>2, <2>3, <2>4
  <1> QED
    BY <1>1, <1>2
-----------------------------------------------------------------------------
TimesIn(list) == {list[x].at : x \in DOMAIN list}

(* Whoever puts two lists one behind the other has the messages of both.    *)
LEMMA ConcatenatedTimes ==
  ASSUME NEW s \in Seq(Entry), NEW t \in Seq(Entry)
  PROVE  /\ s \o t \in Seq(Entry)
         /\ TimesIn(s \o t) \subseteq TimesIn(s) \cup TimesIn(t)
  <1>1. s \o t \in Seq(Entry)
    OBVIOUS
  <1>2. ASSUME NEW x \in DOMAIN (s \o t) PROVE (s \o t)[x].at \in TimesIn(s) \cup TimesIn(t)
    <2>1. CASE x \in DOMAIN s
      <3>1. (s \o t)[x] = s[x]
        BY <2>1
      <3> QED
        BY <2>1, <3>1 DEF TimesIn
    <2>2. CASE x \notin DOMAIN s
      <3>1. (s \o t)[x] = t[x - Len(s)] /\ x - Len(s) \in DOMAIN t
        BY <2>2
      <3> QED
        BY <3>1 DEF TimesIn
    <2> QED
      BY <2>1, <2>2
  <1> QED
    BY <1>1, <1>2 DEF TimesIn

(* A part of a list has no other messages.                                  *)
LEMMA PartTimes ==
  ASSUME NEW s \in Seq(Entry), NEW i \in Nat \ {0}, NEW j \in Nat, j <= Len(s)
  PROVE  /\ SubSeq(s, i, j) \in Seq(Entry)
         /\ TimesIn(SubSeq(s, i, j)) \subseteq TimesIn(s)
  <1>1. SubSeq(s, i, j) \in Seq(Entry)
    OBVIOUS
  <1>2. ASSUME NEW x \in DOMAIN SubSeq(s, i, j) PROVE SubSeq(s, i, j)[x].at \in TimesIn(s)
    <2>1. SubSeq(s, i, j)[x] = s[i + x - 1] /\ i + x - 1 \in DOMAIN s
      OBVIOUS
    <2> QED
      BY <2>1 DEF TimesIn
  <1> QED
    BY <1>1, <1>2 DEF TimesIn

(* Dropping the first message of a list adds no creation time.             *)
LEMMA TailTimes ==
  ASSUME NEW s \in Seq(Entry), s # <<>>
  PROVE  Tail(s) \in Seq(Entry) /\ TimesIn(Tail(s)) \subseteq TimesIn(s)
  <1>1. Tail(s) \in Seq(Entry)
    OBVIOUS
  <1>2. ASSUME NEW x \in DOMAIN Tail(s) PROVE Tail(s)[x].at \in TimesIn(s)
    <2>1. Tail(s)[x] = s[x + 1] /\ x + 1 \in DOMAIN s
      OBVIOUS
    <2> QED
      BY <2>1 DEF TimesIn
  <1> QED
    BY <1>1, <1>2 DEF TimesIn

(* Appending a message adds its creation time and no other.                *)
LEMMA AppendTimes ==
  ASSUME NEW s \in Seq(Entry), NEW e \in Entry
  PROVE  /\ Append(s, e) \in Seq(Entry)
         /\ TimesIn(Append(s, e)) \subseteq TimesIn(s) \cup {e.at}
  <1>1. Append(s, e) \in Seq(Entry)
    OBVIOUS
  <1>2. ASSUME NEW x \in DOMAIN Append(s, e) PROVE Append(s, e)[x].at \in TimesIn(s) \cup {e.at}
    <2>1. CASE x \in DOMAIN s
      <3>1. Append(s, e)[x] = s[x]
        BY <2>1
      <3> QED
        BY <2>1, <3>1 DEF TimesIn
    <2>2. CASE x \notin DOMAIN s
      <3>1. Append(s, e)[x] = e
        BY <2>2
      <3> QED
        BY <3>1
    <2> QED
      BY <2>1, <2>2
  <1> QED
    BY <1>1, <1>2 DEF TimesIn

(* The zero messages of a new list have the zero time.                     *)
LEMMA ZerosTimes == TimesIn(Zeros) \subseteq {0}
  BY ConversationListAssumption DEF TimesIn, Zeros, ZeroMessage

(* Set adds one message and zero messages to a list.                        *)
LEMMA InsertedTimes ==
  ASSUME NEW list \in Seq(Entry), NEW e \in Entry
  PROVE  /\ Inserted(list, e) \in Seq(Entry)
         /\ TimesIn(Inserted(list, e)) \subseteq TimesIn(list) \cup {0, e.at}
  <1>1. TimesIn(<<e>>) = {e.at} /\ <<e>> \in Seq(Entry)
    BY DEF TimesIn
  <1>2. CASE Len(list) = Window
    <2> DEFINE a == Zeros \o Tail(list)
    <2>1. list # <<>>
      BY <1>2, ConversationListAssumption
    <2>2. Tail(list) \in Seq(Entry) /\ TimesIn(Tail(list)) \subseteq TimesIn(list)
      BY <2>1, TailTimes
    <2>3. a \in Seq(Entry) /\ TimesIn(a) \subseteq TimesIn(list) \cup {0}
      BY <2>1, <2>2, ZerosType, ZerosTimes, ConcatenatedTimes
    <2> HIDE DEF a
    <2>4. a \o <<e>> \in Seq(Entry) /\ TimesIn(a \o <<e>>) \subseteq TimesIn(a) \cup TimesIn(<<e>>)
      BY <1>1, <2>3, ConcatenatedTimes
    <2>5. Inserted(list, e) = a \o <<e>>
      BY <1>2 DEF Inserted, a
    <2> QED
      BY <1>1, <2>3, <2>4, <2>5
  <1>3. CASE Len(list) # Window
    <2>1. Inserted(list, e) = Append(list, e)
      BY <1>3 DEF Inserted
    <2> QED
      BY <2>1, AppendTimes
  <1> QED
    BY <1>2, <1>3

(* RemoveMessage adds nothing but zero messages.                            *)
LEMMA RemovedTimes ==
  ASSUME NEW list \in Seq(Entry), NEW m
  PROVE  /\ Removed(list, m) \in Seq(Entry)
         /\ TimesIn(Removed(list, m)) \subseteq TimesIn(list) \cup {0}
  <1> DEFINE i == Position(list, m)
             p == SubSeq(list, 1, i)
             a == Zeros \o p
             b == SubSeq(list, i + 1, Len(list))
  <1>1. CASE ~ \E j \in 1..Len(list) : list[j].at = m
    BY <1>1 DEF Removed
  <1>2. CASE \E j \in 1..Len(list) : list[j].at = m
    <2>1. i \in 1..Len(list)
      BY <1>2 DEF Position
    <2>2. p \in Seq(Entry) /\ TimesIn(p) \subseteq TimesIn(list)
      BY <2>1, PartTimes
    <2>3. b \in Seq(Entry) /\ TimesIn(b) \subseteq TimesIn(list)
      BY <2>1, PartTimes
    <2>4. a \in Seq(Entry) /\ TimesIn(a) \subseteq TimesIn(list) \cup {0}
      <3> HIDE DEF p
      <3> QED
        BY <2>2, ZerosType, ZerosTimes, ConcatenatedTimes
    <2>5. a \o b \in Seq(Entry) /\ TimesIn(a \o b) \subseteq TimesIn(list) \cup {0}
      <3> HIDE DEF a, b
      <3>1. a \o b \in Seq(Entry) /\ TimesIn(a \o b) \subseteq TimesIn(a) \cup TimesIn(b)
        BY <2>3, <2>4, ConcatenatedTimes
      <3> QED
        BY <2>3, <2>4, <3>1
    <2>6. list # <<>>
      BY <1>2
    <2>7. Tail(list) \in Seq(Entry) /\ TimesIn(Tail(list)) \subseteq TimesIn(list)
      BY <2>6, TailTimes
    <2>8. Zeros \o Tail(list) \in Seq(Entry) /\ TimesIn(Zeros \o Tail(list)) \subseteq TimesIn(list) \cup {0}
      BY <2>7, ZerosType, ZerosTimes, ConcatenatedTimes
    <2>9. Removed(list, m) \in {Zeros \o Tail(list), a, a \o b}
      BY <1>2 DEF Removed
    <2> QED
      BY <2>4, <2>5, <2>8, <2>9
  <1> QED
    BY <1>1, <1>2

(* A new list has one message beside its zero messages.                     *)
LEMMA FirstListTimes ==
  ASSUME NEW e \in Entry
  PROVE  FirstList(e) \in Seq(Entry) /\ TimesIn(FirstList(e)) \subseteq {0, e.at}
  BY ConversationListAssumption, ZerosType DEF FirstList, Zeros, ZeroMessage, TimesIn
=============================================================================
