---------------------------- MODULE EventFrames ----------------------------
(***************************************************************************)
(* How an event becomes the bytes a client gets: MessageEventHandler        *)
(* (event_handlers/message.event_handlers.go) and GroupActionsEventHandler  *)
(* (event_handlers/group.event_handlers.go) allocate a buffer, copy the     *)
(* event's name, a separator and the marshalled struct into it at a running *)
(* offset and push it.  Marshalling these structs cannot fail.              *)
(***************************************************************************)
EXTENDS Sequences, Naturals

CONSTANTS
    MessageKinds,       \* events of MessageEventHandler
    GroupKinds,         \* events of GroupActionsEventHandler
    ReceivedKind,       \* GROUP_MESSAGE_RECEIVED
    NameLength,         \* event -> length of its name
    MaxBody             \* bound on the length of a marshalled struct

Kinds == MessageKinds \cup GroupKinds

ASSUME EventFramesAssumption ==
    /\ MessageKinds \cap GroupKinds = {}
    /\ NameLength \in [Kinds -> Nat \ {0}]
    /\ MaxBody \in Nat

VARIABLES
    pc,         \* "idle", "made", "named", "separated", "composed"
    kind,       \* event being served
    bodyLength, \* length of its marshalled struct
    buffer,     \* response
    offset,
    pushed      \* bytes of the last push

vars == <<pc, kind, bodyLength, buffer, offset, pushed>>

(* A byte is known by where it comes from.                                  *)
Zero == <<"zero", 0>>
Separator == <<"separator", 0>>
Name(k) == [i \in 1 .. NameLength[k] |-> <<"name", i>>]
Body(n) == [i \in 1 .. n |-> <<"body", i>>]

(* copy(buf[at:], bytes): as much as fits.                                  *)
Copied(buf, at, bytes) ==
    [i \in DOMAIN buf |-> IF i - at \in DOMAIN bytes THEN bytes[i - at] ELSE buf[i]]

Bytes == {Zero, Separator} \cup ({"name", "body"} \X Nat)

(* copy drops what does not fit without an error.  None of it does: the     *)
(* part that is copied next fits behind the running offset.                 *)
NothingIsCut ==
    /\ pc = "made" => offset + NameLength[kind] <= Len(buffer)
    /\ pc = "named" => offset + 1 <= Len(buffer)
    /\ pc = "separated" => offset + bodyLength <= Len(buffer)

(* Types; the parts fit into the buffer of the event served.                *)
TypeOK ==
    /\ pc \in {"idle", "made", "named", "separated", "composed"}
    /\ kind \in Kinds /\ bodyLength \in 0 .. MaxBody
    /\ buffer \in Seq(Bytes) /\ pushed \in Seq(Bytes)
    /\ offset \in Nat
    /\ NothingIsCut

Init ==
    /\ pc = "idle" /\ kind \in Kinds /\ bodyLength = 0
    /\ buffer = <<>> /\ offset = 0 /\ pushed = <<>>

(* Mutant of Make: offset is declared outside the loop.                     *)
MakeKeepingOffset(k, n) ==
    /\ pc = "idle" /\ pc' = "made"
    /\ kind' = k /\ bodyLength' = n
    /\ buffer' = [i \in 1 .. NameLength[k] + n + 1 |-> Zero]
    /\ UNCHANGED <<offset, pushed>>

Make(k, n) ==
    /\ pc = "idle" /\ pc' = "made"
    /\ kind' = k /\ bodyLength' = n
    /\ buffer' = [i \in 1 .. NameLength[k] + n + 1 |-> Zero]
    /\ offset' = 0
    /\ UNCHANGED pushed

(* The branch of GROUP_MESSAGE_RECEIVED never moves the offset.             *)
Moves == kind # ReceivedKind

CopyPart(from, to, bytes, by) ==
    /\ pc = from /\ pc' = to
    /\ buffer' = Copied(buffer, offset, bytes)
    /\ offset' = IF Moves THEN offset + by ELSE offset
    /\ UNCHANGED <<kind, bodyLength, pushed>>

CopyName == CopyPart("made", "named", Name(kind), NameLength[kind])

(* Mutant of CopySeparator: the offset stays at the separator.              *)
CopySeparatorInPlace == CopyPart("named", "separated", <<Separator>>, 0)

CopySeparator == CopyPart("named", "separated", <<Separator>>, 1)

CopyBody == CopyPart("separated", "composed", Body(bodyLength), 0)

(* GroupActionsEventHandler pushes the struct and not the response.         *)
Push ==
    /\ pc = "composed" /\ pc' = "idle"
    /\ pushed' = IF kind \in GroupKinds THEN Body(bodyLength) ELSE buffer
    /\ UNCHANGED <<kind, bodyLength, buffer, offset>>

Next ==
    \/ \E k \in Kinds, n \in 0 .. MaxBody : Make(k, n)
    \/ CopyName \/ CopySeparator \/ CopyBody \/ Push

Spec == Init /\ [][Next]_vars
-----------------------------------------------------------------------------
(* What a client makes of the bytes: up to the first separator the name,    *)
(* after it the struct.                                                     *)
Splits(bytes, name, body) ==
    \E at \in DOMAIN bytes :
        /\ bytes[at] = Separator /\ \A i \in 1 .. at - 1 : bytes[i] # Separator
        /\ SubSeq(bytes, 1, at - 1) = name
        /\ SubSeq(bytes, at + 1, Len(bytes)) = body

(* "the byte array is divided into three parts: event name, separator pipe, *)
(* instance of response struct" (message.event_handlers.go:89): whatever    *)
(* was served before, what is pushed splits into the event's own name and   *)
(* struct.                                                                  *)
ServedIsFramed(kinds) ==
    pc = "composed" /\ pc' = "idle" /\ kind \in kinds => Splits(pushed', Name(kind), Body(bodyLength))

OthersAreFramed == [][ServedIsFramed(MessageKinds \ {ReceivedKind})]_vars

(* The same sentence, about GROUP_MESSAGE_RECEIVED.                         *)
ReceivedIsFramed == [][ServedIsFramed({ReceivedKind})]_vars

(* "the byte array is divided into three parts: event name, separator pipe, *)
(* instance of action struct" (group.event_handlers.go:50).                 *)
GroupEventsAreFramed == [][ServedIsFramed(GroupKinds)]_vars

(* Neither is framed ever, whatever the lengths: what is pushed of them does *)
(* not split into name and struct.                                          *)
OthersAreNot ==
    [][pc = "composed" /\ pc' = "idle" /\ kind \in GroupKinds \cup {ReceivedKind} =>
          ~Splits(pushed', Name(kind), Body(bodyLength))]_vars
=============================================================================
