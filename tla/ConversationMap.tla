--------------------------- MODULE ConversationMap ---------------------------
(***************************************************************************)
(* What the cache promises whatever its shards do: it is one map from       *)
(* conversations to lists, and each call is one step on the list of its     *)
(* conversation.                                                            *)
(***************************************************************************)
EXTENDS ConversationList

CONSTANTS
    Keys,   \* group ids, and pairs of sender and receiver
    None    \* no list

VARIABLE conv   \* conversation -> list or None

MapInit == conv = [k \in Keys |-> None]

MapSet(k, m) ==
    conv' = [conv EXCEPT ![k] = IF @ = None THEN FirstList(NewMessage(m))
                                ELSE Inserted(@, NewMessage(m))]

MapRemoveMessage(k, m) ==
    /\ conv[k] # None
    /\ conv' = [conv EXCEPT ![k] = Removed(@, m)]

MapUpdate(k, m) ==
    /\ conv[k] # None
    /\ conv' = [conv EXCEPT ![k] = Updated(@, m)]

MapRemove(k) == conv' = [conv EXCEPT ![k] = None]

MapNext ==
    \E k \in Keys :
        \/ \E m \in Messages : MapSet(k, m) \/ MapRemoveMessage(k, m) \/ MapUpdate(k, m)
        \/ MapRemove(k)

MapSpec == MapInit /\ [][MapNext]_conv
=============================================================================
