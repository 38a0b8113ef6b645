-------------------------- MODULE ConversationList --------------------------
(***************************************************************************)
(* The list of messages the cache keeps for one conversation, and what Set, *)
(* RemoveMessage and Update do to it                                        *)
(* (internal/cache/generic_dynamic_sharded_cache.go).  A message is its     *)
(* creation time, which stands for its identity too, and whether it was     *)
(* read, which stands for every field Update may change.  make([]Message, n)*)
(* yields n zero messages; their time is before all others.                 *)
(***************************************************************************)
EXTENDS Integers, Sequences

CONSTANTS
    Messages,   \* creation times of the messages, positive
    Window      \* length of a new list: 10 in the code

ASSUME ConversationListAssumption ==
    /\ Messages \subseteq Nat \ {0}
    /\ Window \in Nat \ {0, 1}

Entry == [at : Messages \cup {0}, read : BOOLEAN]

ZeroMessage == [at |-> 0, read |-> FALSE]
NewMessage(m) == [at |-> m, read |-> FALSE]

Zeros == [i \in 1..Window |-> ZeroMessage]

(* Set, on a key without a list.                                           *)
FirstList(e) == [Zeros EXCEPT ![1] = e]

(* Mutant of Inserted: the list keeps its tail in a slice of ten that the   *)
(* new message is not appended to when it is full.                          *)
InsertedInFull(list, e) ==
    IF Len(list) = Window THEN Zeros \o Tail(list) ELSE Append(list, e)

(* Mutant of Inserted: what the comment at line 276 says, the oldest message *)
(* is popped out of a full list.                                            *)
InsertedForOldest(list, e) ==
    IF Len(list) = Window THEN Tail(list) \o <<e>> ELSE Append(list, e)

(* Set, on a key with a list: make(.., 10) and append put the copies behind *)
(* ten zero messages.                                                       *)
Inserted(list, e) ==
    IF Len(list) = Window THEN Zeros \o Tail(list) \o <<e>> ELSE Append(list, e)

(* A message occurs at most once in a list.                                *)
Position(list, m) == CHOOSE i \in 1..Len(list) : list[i].at = m

(* Mutant of Removed: a slice with no zero messages, and the message gone. *)
RemovedWithoutPrefix(list, m) ==
    IF \E i \in 1..Len(list) : list[i].at = m
    THEN LET i == Position(list, m)
         IN  SubSeq(list, 1, i - 1) \o SubSeq(list, i + 1, Len(list))
    ELSE list

(* RemoveMessage.  The slices messages[0:index+1] hold the message itself. *)
Removed(list, m) ==
    IF \E i \in 1..Len(list) : list[i].at = m
    THEN LET i == Position(list, m)
         IN  IF i = 1 THEN Zeros \o Tail(list)
             ELSE IF i = Len(list) THEN Zeros \o SubSeq(list, 1, i)
             ELSE Zeros \o SubSeq(list, 1, i) \o SubSeq(list, i + 1, Len(list))
    ELSE list

(* Update writes to the copy the range statement makes of each element.    *)
Updated(list, m) == list
=============================================================================
