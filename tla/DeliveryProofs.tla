--------------------------- MODULE DeliveryProofs ---------------------------
(***************************************************************************)
(* What Delivery guarantees for any number of users, connections and        *)
(* requests.                                                                *)
(***************************************************************************)
EXTENDS Delivery, TLAPS

(* What was written was sent on the channel before.                         *)
WrittenWasSent ==
    \A c \in Conns : \A r \in RangeOf(got[c]) : at[r] \in {"sent", "ok"}

(* The handler serves an event whose request has sent it.                   *)
ServesSent ==
    handler # "idle" => event \in Reqs /\ at[event] \in {"sent", "ok"}

(* Before the push nobody has the event, ...                                *)
NotYetWritten ==
    handler = "event" => \A c \in Conns : event \notin RangeOf(got[c])

(* ... during it, only connections found under numbers already done.        *)
WrittenIsDone ==
    handler = "push" =>
        \A c \in Conns : event \in RangeOf(got[c]) => \E m \in Numbers \ todo : reg[m] = c

(* Parties of a message, and those whom its request brings in.              *)
MayHear(r, n) == Party(r, n) \/ Named(r, n)

(* Of a request that gets past its statements, the recipients are such.     *)
AddressedMayHear ==
    /\ \A r \in Reqs : CanWrite(req[r]) => \A n \in recipients[r] : MayHear(r, n)
    /\ handler = "push" /\ CanWrite(req[event]) => \A n \in todo : MayHear(event, n)

Base == TypeOK /\ RegisteredIsEntered /\ WrittenWasSent /\ ServesSent

IInv == Base /\ NotYetWritten /\ WrittenIsDone /\ AddressedMayHear /\ AtMostOnce

USE DeliveryAssumption, RegistryAssumption
-----------------------------------------------------------------------------
(* The invariant holds of the first state.                                 *)
LEMMA InitBase == Init => IInv
  BY DEF Init, IInv, Base, TypeOK, RegistryTypeOK, RegistryInit, RegisteredIsEntered,
         WrittenWasSent, ServesSent, NotYetWritten, WrittenIsDone, AddressedMayHear,
         AtMostOnce, RangeOf

(* Appending one event adds that event to what was written.                 *)
LEMMA AppendAdds ==
    ASSUME NEW s \in Seq(Reqs), NEW e \in Reqs
    PROVE  /\ Append(s, e) \in Seq(Reqs)
           /\ RangeOf(Append(s, e)) = RangeOf(s) \cup {e}
           /\ DOMAIN Append(s, e) = DOMAIN s \cup {Len(s) + 1}
           /\ \A i \in DOMAIN s : Append(s, e)[i] = s[i]
           /\ Append(s, e)[Len(s) + 1] = e
  <1>1. /\ Append(s, e) \in Seq(Reqs)
        /\ DOMAIN Append(s, e) = DOMAIN s \cup {Len(s) + 1}
        /\ \A i \in DOMAIN s : Append(s, e)[i] = s[i]
        /\ Append(s, e)[Len(s) + 1] = e
    OBVIOUS
  <1>2. RangeOf(Append(s, e)) = RangeOf(s) \cup {e}
    BY <1>1 DEF RangeOf
  <1>. QED
    BY <1>1, <1>2

(* The numbers of an event are users who may hear of it.                    *)
LEMMA RecipientsMayHear ==
    ASSUME TypeOK, NEW r \in Reqs
    PROVE  /\ Recipients(req[r]) \subseteq Numbers
           /\ CanWrite(req[r]) /\ CanAddress(req[r]) =>
                \A n \in Recipients(req[r]) : MayHear(r, n)
  <1>1. req[r] \in Request /\ WellFormed(req[r]) /\ members \subseteq joined /\ joined \subseteq Numbers
    BY DEF TypeOK
  <1>2. Recipients(req[r]) \subseteq Numbers
    BY <1>1 DEF Recipients, ToGroup, Request
  <1>3. ASSUME CanWrite(req[r]), CanAddress(req[r]), NEW n \in Recipients(req[r])
        PROVE  MayHear(r, n)
    <2>. DEFINE q == req[r]
    <2>1. CASE q.kind = "DELETE_MESSAGE"
      <3>1. CASE q.by \in {q.sender, q.receiver}
        BY <1>3, <2>1, <3>1 DEF Recipients, MayHear, Party
      <3>2. CASE q.by \notin {q.sender, q.receiver}
        <4>1. q.group /\ n \in joined
          BY <1>1, <1>3, <2>1, <3>2 DEF Recipients, ToGroup
        <4>. QED
          BY <2>1, <3>2, <4>1 DEF MayHear, Party, Named
      <3>. QED
        BY <3>1, <3>2
    <2>2. CASE q.kind = "NEW_MESSAGE"
      <3>1. CASE q.named # Nobody
        BY <1>1, <1>3, <2>2, <3>1 DEF Recipients, WellFormed, MayHear, Party
      <3>2. CASE q.named = Nobody
        BY <1>1, <1>3, <2>2, <3>2 DEF Recipients, ToGroup, CanWrite, WellFormed, MayHear, Party
      <3>. QED
        BY <3>1, <3>2
    <2>3. CASE q.kind = "EDIT_MESSAGE"
      <3>1. q.group /\ q.inGroup
        BY <1>3, <2>3 DEF CanWrite
      <3>2. n = q.named \/ n \in joined
        BY <1>1, <1>3, <2>3 DEF Recipients, ToGroup
      <3>. QED
        BY <2>3, <3>1, <3>2 DEF MayHear, Party, Named
    <2>4. CASE q.kind = "MARK_MESSAGE_READ"
      BY <1>3, <2>4 DEF CanAddress, Recipients, MayHear, Named
    <2>. QED
      BY <1>3, <2>1, <2>2, <2>3, <2>4 DEF CanWrite
  <1>. QED
    BY <1>2, <1>3

(* Steps around the handlers: connections come and go, members change.      *)
LEMMA EnvironmentStep ==
    ASSUME IInv, Environment
    PROVE  IInv'
  <1>. USE DEF registryVars, groupVars, reqVars, handlerVars, IInv, Base, TypeOK, RegistryTypeOK,
               RegisteredIsEntered, WrittenWasSent, ServesSent, NotYetWritten, WrittenIsDone,
               AddressedMayHear, AtMostOnce, MayHear, Party, Named
  <1>1. ASSUME NEW c \in Conns, Connect(c) PROVE IInv'
    BY <1>1 DEF Connect, Announce
  <1>2. ASSUME NEW c \in Conns, Register(c) PROVE IInv'
    BY <1>2 DEF Register, Enter
  <1>3. ASSUME NEW c \in Conns, Break(c) PROVE IInv'
    BY <1>3 DEF Break
  <1>4. ASSUME NEW k \in Keys, Unregister(k) PROVE IInv'
    BY <1>4 DEF Unregister, Leave
  <1>5. ASSUME NEW n \in Numbers, ChangeMembers(n) PROVE IInv'
    BY <1>5 DEF ChangeMembers
  <1>. QED
    BY <1>1, <1>2, <1>3, <1>4, <1>5 DEF Environment

(* What was written to a connection are events of requests.                *)
LEMMA WrittenAreRequests ==
    ASSUME TypeOK, NEW c \in Conns
    PROVE  RangeOf(got[c]) \subseteq Reqs
  <1>1. got[c] \in Seq(Reqs)
    BY DEF TypeOK
  <1>2. \A s \in Seq(Reqs) : \A i \in DOMAIN s : s[i] \in Reqs
    OBVIOUS
  <1>. QED
    BY <1>1, <1>2 DEF RangeOf

(* Steps of a REST handler; only Emit touches the event handler.            *)
LEMMA ServeStep ==
    ASSUME IInv, NEW r \in Reqs, Receive(r) \/ Serve(r) \/ Emit(r)
    PROVE  IInv'
  <1>. USE DEF registryVars, groupVars, reqVars, handlerVars, IInv, Base, TypeOK, RegistryTypeOK,
               RegisteredIsEntered, WrittenWasSent, ServesSent, NotYetWritten, WrittenIsDone,
               AddressedMayHear, AtMostOnce, Goes
  <1>0. \A c \in Conns : RangeOf(got[c]) \subseteq Reqs
    BY WrittenAreRequests
  <1>1. CASE Receive(r)
    BY <1>0, <1>1 DEF Receive, MayHear, Party, Named
  <1>2. CASE Write(r) \/ WriteReceipt(r) \/ Fail(r) \/ Answer(r)
    <2>0. \E from, to \in {"start", "stored", "sent", "ok", "error"} :
            Goes(r, from, to) /\ (from = "sent" => to = "ok") /\ from # "ok"
              /\ UNCHANGED <<req, recipients, handlerVars>>
      BY <1>2 DEF Write, WriteReceipt, Fail, Answer
    <2>1. /\ at[r] \notin {"sent", "ok"} \/ at'[r] = "ok"
          /\ \A s \in Reqs \ {r} : at'[s] = at[s]
          /\ at' \in [Reqs -> {"none", "start", "stored", "send", "sent", "ok", "error"}]
          /\ UNCHANGED <<registryVars, proc, up, groupVars, req, recipients, handlerVars, got>>
      BY <2>0
    <2>2. WrittenWasSent' /\ ServesSent'
      BY <2>1, <1>0
    <2>. QED
      BY <2>1, <2>2 DEF MayHear, Party, Named
  <1>3. CASE Address(r)
    <2>1. /\ Recipients(req[r]) \subseteq Numbers
          /\ CanWrite(req[r]) => \A n \in Recipients(req[r]) : MayHear(r, n)
      BY <1>3, RecipientsMayHear DEF Address
    <2>2. \A s \in Reqs : \A n : MayHear(s, n) <=> MayHear(s, n)'
      BY <1>3 DEF Address, MayHear, Party, Named
    <2>. QED
      BY <1>3, <2>1, <2>2 DEF Address
  <1>4. CASE Emit(r)
    <2>1. /\ at[r] = "send" /\ at'[r] = "sent" /\ event' = r /\ handler' = "event"
          /\ \A s \in Reqs \ {r} : at'[s] = at[s]
          /\ UNCHANGED <<registryVars, proc, up, groupVars, req, recipients, todo, got>>
          /\ at' \in [Reqs -> {"none", "start", "stored", "send", "sent", "ok", "error"}]
      BY <1>4 DEF Emit
    <2>2. NotYetWritten' /\ WrittenWasSent'
      BY <1>0, <2>1
    <2>3. Base' /\ WrittenIsDone' /\ AddressedMayHear' /\ AtMostOnce'
      BY <2>1, <2>2 DEF MayHear, Party, Named
    <2>. QED
      BY <2>2, <2>3
  <1>. QED
    BY <1>1, <1>2, <1>3, <1>4 DEF Serve

(* One more recipient has been written to: the connection found under the   *)
(* number is found under no other, so it does not have the event yet.       *)
LEMMA WriteStep ==
    ASSUME IInv, NEW n \in Numbers, WriteTo(n)
    PROVE  IInv'
  <1>. DEFINE c == Lookup(n)
  <1>. USE DEF IInv, Base, TypeOK, RegistryTypeOK
  <1>1. /\ c \in Conns /\ reg[n] = c /\ n \in todo
        /\ handler = "push" /\ event \in Reqs /\ at[event] \in {"sent", "ok"}
        /\ todo' = todo \ {n}
        /\ UNCHANGED <<registryVars, proc, up, groupVars, reqVars, handler, event>>
    BY DEF WriteTo, HandlerKeeps, Lookup, ServesSent
  <1>2. event \notin RangeOf(got[c])
    <2>1. SUFFICES ASSUME NEW m \in Numbers \ todo, reg[m] = c PROVE FALSE
      BY <1>1 DEF WrittenIsDone
    <2>. QED
      BY <1>1, <2>1 DEF RegisteredIsEntered
  <1>3. CASE got' = got
    BY <1>1, <1>3 DEF registryVars, groupVars, reqVars, RegisteredIsEntered, WrittenWasSent, ServesSent,
       NotYetWritten, WrittenIsDone, AddressedMayHear, AtMostOnce, MayHear, Party, Named
  <1>4. CASE got' = [got EXCEPT ![c] = Append(@, event)]
    <2>1. /\ got'[c] = Append(got[c], event)
          /\ \A d \in Conns \ {c} : got'[d] = got[d]
          /\ got[c] \in Seq(Reqs)
      BY <1>1, <1>4
    <2>2. /\ Append(got[c], event) \in Seq(Reqs)
          /\ RangeOf(Append(got[c], event)) = RangeOf(got[c]) \cup {event}
          /\ DOMAIN Append(got[c], event) = DOMAIN got[c] \cup {Len(got[c]) + 1}
          /\ \A i \in DOMAIN got[c] : Append(got[c], event)[i] = got[c][i]
          /\ Append(got[c], event)[Len(got[c]) + 1] = event
      BY <1>1, <2>1, AppendAdds
    <2>3. TypeOK' /\ RegisteredIsEntered'
      <3>1. got' \in [Conns -> Seq(Reqs)]
        BY <1>1, <1>4, <2>2
      <3>. QED
        BY <1>1, <3>1 DEF registryVars, groupVars, reqVars, RegisteredIsEntered
    <2>4. /\ RangeOf(got'[c]) = RangeOf(got[c]) \cup {event}
          /\ \A d \in Conns \ {c} : RangeOf(got'[d]) = RangeOf(got[d])
          /\ \A d \in Conns : RangeOf(got[d])' = RangeOf(got'[d])
      BY <2>1, <2>2 DEF RangeOf
    <2>5. WrittenWasSent' /\ ServesSent' /\ NotYetWritten'
      BY <1>1, <2>4 DEF reqVars, WrittenWasSent, ServesSent, NotYetWritten
    <2>6. WrittenIsDone'
      BY <1>1, <2>4 DEF registryVars, WrittenIsDone
    <2>7. AddressedMayHear'
      BY <1>1 DEF reqVars, groupVars, AddressedMayHear, MayHear, Party, Named
    <2>8. AtMostOnce'
      <3>1. \A i \in DOMAIN got[c] : got[c][i] # event
        BY <1>2 DEF RangeOf
      <3>2. ASSUME NEW i \in DOMAIN got'[c], NEW j \in DOMAIN got'[c], got'[c][i] = got'[c][j]
            PROVE  i = j
        BY <1>1, <2>1, <2>2, <3>1, <3>2 DEF AtMostOnce
      <3>3. ASSUME NEW d \in Conns \ {c} , NEW i \in DOMAIN got'[d], NEW j \in DOMAIN got'[d],
                   got'[d][i] = got'[d][j]
            PROVE  i = j
        BY <2>1, <3>3 DEF AtMostOnce
      <3>. QED
        BY <3>2, <3>3 DEF AtMostOnce
    <2>. QED
      BY <2>3, <2>5, <2>6, <2>7, <2>8
  <1>. QED
    BY <1>3, <1>4 DEF WriteTo

(* Writing to one connection after another keeps the invariant.            *)
LEMMA PushStep ==
    ASSUME IInv, Push
    PROVE  IInv'
  <1>. USE DEF registryVars, groupVars, reqVars, handlerVars, HandlerKeeps, IInv, Base, TypeOK, RegistryTypeOK,
               RegisteredIsEntered, WrittenWasSent, ServesSent, NotYetWritten, WrittenIsDone,
               AddressedMayHear, AtMostOnce, MayHear, Party, Named
  <1>1. CASE StartPush
    BY <1>1 DEF StartPush
  <1>2. CASE EndPush
    BY <1>2 DEF EndPush
  <1>3. ASSUME NEW n \in Numbers, WriteToNil(n) PROVE IInv'
    BY <1>3 DEF WriteToNil
  <1>. QED
    BY <1>1, <1>2, <1>3, WriteStep DEF Push

(* The inductive invariant behind the theorems below.                       *)
THEOREM Invariance == Spec => []IInv
  <1>1. IInv /\ [Next]_vars => IInv'
    <2>1. CASE Next
      BY <2>1, EnvironmentStep, ServeStep, PushStep DEF Next
    <2>2. ASSUME IInv, UNCHANGED vars PROVE IInv'
      BY <2>2 DEF vars, registryVars, groupVars, reqVars, handlerVars, IInv, Base, TypeOK, RegistryTypeOK,
         RegisteredIsEntered, WrittenWasSent, ServesSent, NotYetWritten, WrittenIsDone,
         AddressedMayHear, AtMostOnce, MayHear, Party, Named
    <2>. QED
      BY <2>1, <2>2
  <1>. QED
    BY InitBase, <1>1, PTL DEF Spec

(* Every variable keeps its type.                                           *)
THEOREM TypeCorrect == Spec => []TypeOK
  <1>1. IInv => TypeOK
    BY DEF IInv, Base
  <1>. QED
    BY Invariance, <1>1, PTL

(* Nobody is written the same event twice.                                  *)
THEOREM WrittenOnce == Spec => []AtMostOnce
  <1>1. IInv => AtMostOnce
    BY DEF IInv
  <1>. QED
    BY Invariance, <1>1, PTL
-----------------------------------------------------------------------------
(* Of every step: what was written stays written and only WriteTo writes;   *)
(* what a request asks for stays, and whoever was a member has been one.    *)
LEMMA WritesAndKeeps ==
    ASSUME IInv, [Next]_vars
    PROVE  /\ req' = req /\ joined \subseteq joined'
           /\ got' = got \/ \E n \in Numbers : WriteTo(n) /\ reg[n] \in up
  <1>. USE DEF groupVars, reqVars, HandlerKeeps
  <1>1. CASE Environment
    BY <1>1 DEF Environment, Connect, Register, Break, Unregister, ChangeMembers
  <1>2. ASSUME NEW r \in Reqs, Receive(r) \/ Serve(r) \/ Emit(r)
        PROVE  req' = req /\ joined' = joined /\ got' = got
    BY <1>2 DEF Receive, Serve, Write, WriteReceipt, Address, Fail, Answer, Emit, Goes
  <1>3. CASE StartPush \/ EndPush
    BY <1>3 DEF StartPush, EndPush
  <1>4. ASSUME NEW n \in Numbers, WriteTo(n) \/ WriteToNil(n)
        PROVE  /\ req' = req /\ joined' = joined
               /\ got' = got \/ (WriteTo(n) /\ reg[n] \in up)
    BY <1>4 DEF WriteTo, WriteToNil, Lookup
  <1>5. CASE UNCHANGED vars
    BY <1>5 DEF vars
  <1>. QED
    BY <1>1, <1>2, <1>3, <1>4, <1>5 DEF Next, Push

(* What is past its statements, or served, could have them.                 *)
PastIsWritten ==
    /\ \A r \in Reqs : at[r] \in {"stored", "send", "sent"} => CanWrite(req[r])
    /\ handler # "idle" => CanWrite(req[event])

(* A request goes past its statements by Write alone, and is served by Emit *)
(* alone.                                                                   *)
LEMMA PlaceStep ==
    ASSUME IInv, [Next]_vars
    PROVE  /\ \A r \in Reqs : at'[r] \in {"stored", "send", "sent"} =>
                at[r] \in {"stored", "send", "sent"} \/ CanWrite(req[r])
           /\ \/ event' = event /\ (handler' # "idle" => handler # "idle")
              \/ handler' = "idle"
              \/ event' \in Reqs /\ at[event'] = "send"
  <1>0. at \in [Reqs -> {"none", "start", "stored", "send", "sent", "ok", "error"}]
    BY DEF IInv, Base, TypeOK
  <1>1. CASE Environment
    BY <1>1 DEF Environment, Connect, Register, Break, Unregister, ChangeMembers, reqVars, handlerVars
  <1>2. ASSUME NEW r \in Reqs, Receive(r) \/ Serve(r)
        PROVE  /\ \A s \in Reqs : at'[s] \in {"stored", "send", "sent"} =>
                    at[s] \in {"stored", "send", "sent"} \/ CanWrite(req[s])
               /\ event' = event /\ handler' = handler
    BY <1>0, <1>2 DEF Receive, Serve, Write, WriteReceipt, Address, Fail, Answer, Goes, handlerVars
  <1>3. ASSUME NEW r \in Reqs, Emit(r)
        PROVE  /\ \A s \in Reqs : at'[s] \in {"stored", "send", "sent"} =>
                    at[s] \in {"stored", "send", "sent"}
               /\ event' = r /\ at[r] = "send"
    BY <1>0, <1>3 DEF Emit, Goes
  <1>4. CASE Push
    BY <1>4 DEF Push, StartPush, EndPush, WriteTo, WriteToNil, HandlerKeeps, reqVars, handlerVars
  <1>5. CASE UNCHANGED vars
    BY <1>5 DEF vars, reqVars, handlerVars
  <1>. QED
    BY <1>1, <1>2, <1>3, <1>4, <1>5 DEF Next

(* The event handler serves none but requests that got past theirs.         *)
LEMMA PastInvariance == Spec => []PastIsWritten
  <1>1. Init => PastIsWritten
    BY DEF Init, PastIsWritten
  <1>2. IInv /\ PastIsWritten /\ [Next]_vars => PastIsWritten'
    <2>. SUFFICES ASSUME IInv, PastIsWritten, [Next]_vars PROVE PastIsWritten'
      OBVIOUS
    <2>1. req' = req /\ \A r : CanWrite(req'[r]) <=> CanWrite(req[r])
      BY WritesAndKeeps
    <2>2. \A r \in Reqs : at'[r] \in {"stored", "send", "sent"} => CanWrite(req[r])
      BY PlaceStep DEF PastIsWritten
    <2>3. handler' # "idle" => CanWrite(req[event'])
      BY PlaceStep DEF PastIsWritten
    <2>. QED
      BY <2>1, <2>2, <2>3 DEF PastIsWritten, CanWrite
  <1>. QED
    BY Invariance, <1>1, <1>2, PTL DEF Spec

(* What is new on a connection is the event that is served, written under   *)
(* the number the connection is found under.                                *)
LEMMA NewlyWritten ==
    ASSUME IInv, [Next]_vars, NEW c \in Conns, NEW r \in RangeOf(got'[c]), r \notin RangeOf(got[c])
    PROVE  /\ handler = "push" /\ event \in Reqs /\ r = event
           /\ \E n \in todo \cap Numbers : reg[n] = c
  <1>1. PICK n \in Numbers : WriteTo(n) /\ reg[n] \in up
    BY WritesAndKeeps
  <1>2. /\ got' = [got EXCEPT ![reg[n]] = Append(@, event)]
        /\ n \in todo /\ handler = "push" /\ event \in Reqs
    BY <1>1 DEF WriteTo, Lookup, IInv, Base, ServesSent
  <1>3. reg[n] = c /\ got'[c] = Append(got[c], event)
    BY <1>2 DEF IInv, Base, TypeOK
  <1>4. RangeOf(Append(got[c], event)) = RangeOf(got[c]) \cup {event}
    BY <1>2, AppendAdds DEF IInv, Base, TypeOK
  <1>. QED
    BY <1>2, <1>3, <1>4

(* Nobody is told of a request that failed, or of one that cannot succeed.  *)
THEOREM SilentErrors == Spec => []ErrorIsSilent
  <1>1. Init => ErrorIsSilent
    BY DEF Init, ErrorIsSilent, RangeOf
  <1>2. IInv /\ IInv' /\ PastIsWritten /\ ErrorIsSilent /\ [Next]_vars => ErrorIsSilent'
    <2>. SUFFICES ASSUME IInv, IInv', PastIsWritten, ErrorIsSilent, [Next]_vars,
                         NEW c \in Conns, NEW r \in RangeOf(got'[c])
                  PROVE  at'[r] \in {"sent", "ok"} /\ CanWrite(req'[r])
      BY DEF ErrorIsSilent, CanWrite, RangeOf
    <2>1. at'[r] \in {"sent", "ok"}
      BY DEF IInv, Base, WrittenWasSent, RangeOf
    <2>2. CanWrite(req[r])
      <3>1. CASE r \in RangeOf(got[c])
        BY <3>1 DEF ErrorIsSilent
      <3>2. CASE r \notin RangeOf(got[c])
        BY <3>2, NewlyWritten DEF PastIsWritten
      <3>. QED
        BY <3>1, <3>2
    <2>3. req' = req
      BY WritesAndKeeps
    <2>. QED
      BY <2>1, <2>2, <2>3
  <1>. QED
    BY Invariance, PastInvariance, <1>1, <1>2, PTL DEF Spec
-----------------------------------------------------------------------------
(* Whom an event may reach                                                  *)

(* A connection that is written an event was entered under a number of a    *)
(* party of its message, or of one whom one of three bodies brings in, even *)
(* if that is not the whole number of its user.                             *)
THEOREM OutsiderKeysNamed == Spec => []OutsiderKeysAreNamed
  <1>1. Init => OutsiderKeysAreNamed
    BY DEF Init, OutsiderKeysAreNamed, RangeOf
  <1>2. IInv /\ PastIsWritten /\ OutsiderKeysAreNamed /\ [Next]_vars => OutsiderKeysAreNamed'
    <2>. SUFFICES ASSUME IInv, PastIsWritten, OutsiderKeysAreNamed, [Next]_vars,
                         NEW c \in Conns, NEW r \in RangeOf(got'[c])
                  PROVE  MayHear(r, KeyOf[c])'
      BY DEF OutsiderKeysAreNamed, MayHear
    <2>1. req' = req /\ joined \subseteq joined'
      BY WritesAndKeeps
    <2>2. MayHear(r, KeyOf[c])
      <3>1. CASE r \in RangeOf(got[c])
        BY <3>1 DEF OutsiderKeysAreNamed, MayHear
      <3>2. CASE r \notin RangeOf(got[c])
        <4>1. handler = "push" /\ r = event /\ \E n \in todo \cap Numbers : reg[n] = c
          BY <3>2, NewlyWritten
        <4>2. PICK n \in todo \cap Numbers : reg[n] = c
          BY <4>1
        <4>3. KeyOf[c] = n
          BY <4>2 DEF IInv, Base, RegisteredIsEntered
        <4>4. CanWrite(req[event])
          BY <4>1 DEF PastIsWritten
        <4>5. MayHear(event, n)
          BY <4>1, <4>2, <4>4 DEF IInv, AddressedMayHear
        <4>. QED
          BY <4>1, <4>3, <4>5
      <3>. QED
        BY <3>1, <3>2
    <2>. QED
      BY <2>1, <2>2 DEF MayHear, Party, Named
  <1>. QED
    BY Invariance, PastInvariance, <1>1, <1>2, PTL DEF Spec

(* When every number is short enough to be read whole, the key a connection *)
(* was entered under is the number of its user.                             *)
THEOREM OutsidersNamed ==
    ASSUME \A n \in Numbers : Heard[n] = n
    PROVE  Spec => []OutsidersAreNamed
  <1>1. \A c \in Conns : KeyOf[c] = NumberOf[c]
    OBVIOUS
  <1>2. OutsiderKeysAreNamed => OutsidersAreNamed
    BY <1>1 DEF OutsiderKeysAreNamed, OutsidersAreNamed
  <1>. QED
    BY OutsiderKeysNamed, <1>2, PTL
-----------------------------------------------------------------------------
(* The numbers a push is done with were found, and what is found under them *)
(* has the event or takes no writes.                                        *)
DoneIsWritten ==
    handler = "push" => \A n \in recipients[event] \ todo :
        /\ reg[n] # None
        /\ reg[n] \in up => event \in RangeOf(got[reg[n]])

(* A push ends with every recipient found and written to, although          *)
(* connections come and go between its writes: the lock keeps the map.      *)
THEOREM OneMap == Spec => PushSeesOneMap
  <1>. DEFINE Step == handler = "push" /\ handler' = "idle" =>
                        \A n \in recipients[event] :
                           /\ reg[n] # None
                           /\ reg[n] \in up => event \in RangeOf(got[reg[n]])
  <1>1. Init => DoneIsWritten
    BY DEF Init, DoneIsWritten
  <1>2. IInv /\ DoneIsWritten /\ [Next]_vars => DoneIsWritten'
    <2>. SUFFICES ASSUME IInv, DoneIsWritten, [Next]_vars PROVE DoneIsWritten'
      OBVIOUS
    <2>1. CASE Environment
      BY <2>1 DEF Environment, Connect, Register, Break, Unregister, ChangeMembers, Announce,
         registryVars, handlerVars, reqVars, DoneIsWritten
    <2>2. ASSUME NEW r \in Reqs, Receive(r) \/ Serve(r) PROVE DoneIsWritten'
      <3>1. at[r] \notin {"sent", "ok"} => r # event \/ handler = "idle"
        BY DEF IInv, Base, ServesSent
      <3>2. recipients' = recipients \/ (at[r] = "stored" /\ \A s \in Reqs \ {r} : recipients'[s] = recipients[s])
        BY <2>2 DEF Receive, Serve, Write, WriteReceipt, Address, Fail, Answer, IInv, Base, TypeOK, Goes
      <3>3. UNCHANGED <<registryVars, up, got, handlerVars>>
        BY <2>2 DEF Receive, Serve, Write, WriteReceipt, Address, Fail, Answer, Goes
      <3>4. handler = "push" => event \in Reqs
        BY DEF IInv, Base, ServesSent
      <3>. QED
        BY <3>1, <3>2, <3>3, <3>4 DEF registryVars, handlerVars, DoneIsWritten
    <2>3. ASSUME NEW r \in Reqs, Emit(r) PROVE DoneIsWritten'
      BY <2>3 DEF Emit, DoneIsWritten
    <2>4. CASE StartPush
      BY <2>4 DEF StartPush, HandlerKeeps, reqVars, DoneIsWritten
    <2>5. CASE EndPush
      BY <2>5 DEF EndPush, DoneIsWritten
    <2>6. ASSUME NEW n \in Numbers, WriteToNil(n) PROVE DoneIsWritten'
      BY <2>6 DEF WriteToNil, HandlerKeeps, handlerVars, registryVars, reqVars, DoneIsWritten
    <2>7. ASSUME NEW n \in Numbers, WriteTo(n) PROVE DoneIsWritten'
      <3>1. /\ UNCHANGED <<registryVars, up, recipients, handler, event>>
            /\ reg[n] # None /\ todo' = todo \ {n} /\ handler = "push"
        BY <2>7 DEF WriteTo, HandlerKeeps, reqVars, Lookup
      <3>2. reg[n] \in Conns /\ event \in Reqs
        BY <3>1 DEF IInv, Base, TypeOK, RegistryTypeOK, ServesSent
      <3>3. \A c \in Conns : RangeOf(got[c]) \subseteq RangeOf(got'[c])
        <4>1. ASSUME NEW c \in Conns PROVE RangeOf(Append(got[c], event)) = RangeOf(got[c]) \cup {event}
          BY <3>2, AppendAdds DEF IInv, Base, TypeOK
        <4>. QED
          BY <2>7, <3>2, <4>1 DEF WriteTo, Lookup, IInv, Base, TypeOK
      <3>4. reg[n] \in up => event \in RangeOf(got'[reg[n]])
        <4>1. RangeOf(Append(got[reg[n]], event)) = RangeOf(got[reg[n]]) \cup {event}
          BY <3>2, AppendAdds DEF IInv, Base, TypeOK
        <4>. QED
          BY <2>7, <3>2, <4>1 DEF WriteTo, Lookup, IInv, Base, TypeOK
      <3>5. \A m \in recipients[event] : reg[m] # None => reg[m] \in Conns
        BY <3>2 DEF IInv, Base, TypeOK, RegistryTypeOK
      <3>. QED
        BY <3>1, <3>3, <3>4, <3>5 DEF registryVars, DoneIsWritten
    <2>8. CASE UNCHANGED vars
      BY <2>8 DEF vars, registryVars, reqVars, handlerVars, DoneIsWritten
    <2>. QED
      BY <2>1, <2>2, <2>3, <2>4, <2>5, <2>6, <2>7, <2>8 DEF Next, Push
  <1>3. IInv /\ DoneIsWritten /\ [Next]_vars => [Step]_vars
    <2>. SUFFICES ASSUME DoneIsWritten, [Next]_vars, handler = "push", handler' = "idle"
                  PROVE  Step
      OBVIOUS
    <2>1. CASE Environment \/ \E r \in Reqs : Receive(r) \/ Serve(r)
      BY <2>1 DEF Environment, Connect, Register, Break, Unregister, ChangeMembers, Receive, Serve,
         Write, WriteReceipt, Address, Fail, Answer, handlerVars
    <2>2. CASE \E r \in Reqs : Emit(r)
      BY <2>2 DEF Emit
    <2>3. CASE Push
      <3>1. todo = {}
        BY <2>3 DEF Push, StartPush, EndPush, WriteTo, WriteToNil, handlerVars
      <3>. QED
        BY <3>1 DEF DoneIsWritten
    <2>4. CASE UNCHANGED vars
      BY <2>4 DEF vars, handlerVars
    <2>. QED
      BY <2>1, <2>2, <2>3, <2>4 DEF Next
  <1>. QED
    BY Invariance, <1>1, <1>2, <1>3, PTL DEF Spec, PushSeesOneMap
-----------------------------------------------------------------------------
(* The order of events                                                      *)

Before(s, r, q) == \E i, j \in DOMAIN s : i < j /\ s[i] = r /\ s[j] = q

(* The event being pushed is the last one of whoever has it.                *)
LastIsEvent ==
    handler = "push" =>
        \A c \in Conns : event \in RangeOf(got[c]) => got[c][Len(got[c])] = event

(* What is in a sequence once and last comes behind all the rest.           *)
LEMMA LastComesLast ==
    ASSUME NEW s \in Seq(Reqs), \A i, j \in DOMAIN s : s[i] = s[j] => i = j,
           NEW r \in RangeOf(s), r # s[Len(s)]
    PROVE  Before(s, r, s[Len(s)]) /\ ~Before(s, s[Len(s)], r)
  <1>1. PICK i \in DOMAIN s : s[i] = r
    BY DEF RangeOf
  <1>2. Len(s) \in DOMAIN s /\ DOMAIN s = 1..Len(s) /\ i < Len(s)
    BY <1>1
  <1>3. Before(s, r, s[Len(s)])
    BY <1>1, <1>2 DEF Before
  <1>4. \A j, k \in DOMAIN s : s[j] = s[Len(s)] => j = Len(s) /\ ~(j < k)
    BY <1>2
  <1>. QED
    BY <1>3, <1>4 DEF Before

(* A further event leaves the order of the others.                          *)
LEMMA AppendKeepsOrder ==
    ASSUME NEW s \in Seq(Reqs), NEW e \in Reqs, NEW r, NEW q, r # e, q # e
    PROVE  Before(Append(s, e), r, q) <=> Before(s, r, q)
  <1>1. /\ DOMAIN Append(s, e) = DOMAIN s \cup {Len(s) + 1}
        /\ \A i \in DOMAIN s : Append(s, e)[i] = s[i]
        /\ Append(s, e)[Len(s) + 1] = e
    BY AppendAdds
  <1>. QED
    BY <1>1 DEF Before

(* Who writes, and what of it matters to the order.                         *)
LEMMA OrderStep ==
    ASSUME IInv, [Next]_vars
    PROVE  \/ got' = got /\ handler' = "push" /\ handler = "push" /\ event' = event
           \/ got' = got /\ handler' # "push"
           \/ got' = got /\ handler = "event" /\ event' = event
           \/ /\ handler = "push" /\ handler' = "push" /\ event' = event /\ event \in Reqs
              /\ \E c \in Conns : got' = [got EXCEPT ![c] = Append(@, event)]
  <1>1. CASE Environment
    BY <1>1 DEF Environment, Connect, Register, Break, Unregister, ChangeMembers, handlerVars,
       IInv, Base, TypeOK
  <1>2. ASSUME NEW r \in Reqs, Receive(r) \/ Serve(r)
        PROVE  got' = got /\ handler' = handler /\ event' = event
    BY <1>2 DEF Receive, Serve, Write, WriteReceipt, Address, Fail, Answer, Goes, handlerVars
  <1>3. ASSUME NEW r \in Reqs, Emit(r) PROVE got' = got /\ handler' # "push"
    BY <1>3 DEF Emit, Goes
  <1>4. CASE StartPush
    BY <1>4 DEF StartPush
  <1>5. CASE EndPush
    BY <1>5 DEF EndPush
  <1>6. ASSUME NEW n \in Numbers, WriteToNil(n)
        PROVE  got' = got /\ handler' = "push" /\ handler = "push" /\ event' = event
    BY <1>6 DEF WriteToNil, handlerVars
  <1>7. ASSUME NEW n \in Numbers, WriteTo(n)
        PROVE  /\ handler = "push" /\ handler' = "push" /\ event' = event /\ event \in Reqs
               /\ got' = got \/ \E c \in Conns : got' = [got EXCEPT ![c] = Append(@, event)]
    BY <1>7 DEF WriteTo, Lookup, IInv, Base, TypeOK, RegistryTypeOK, ServesSent
  <1>8. CASE UNCHANGED vars
    BY <1>8 DEF vars, handlerVars, IInv, Base, TypeOK
  <1>. QED
    BY <1>1, <1>2, <1>3, <1>4, <1>5, <1>6, <1>7, <1>8 DEF Next, Push, IInv, Base, TypeOK

(* During a push, who was written to has its event last.                   *)
LEMMA LastIsEventStep ==
    ASSUME IInv, LastIsEvent, [Next]_vars
    PROVE  LastIsEvent'
  <1>1. CASE got' = got /\ handler' = "push" /\ handler = "push" /\ event' = event
    BY <1>1 DEF LastIsEvent
  <1>2. CASE got' = got /\ handler' # "push"
    BY <1>2 DEF LastIsEvent
  <1>3. CASE got' = got /\ handler = "event" /\ event' = event
    BY <1>3 DEF LastIsEvent, IInv, NotYetWritten
  <1>4. ASSUME handler = "push", event' = event, event \in Reqs,
               NEW c \in Conns, got' = [got EXCEPT ![c] = Append(@, event)]
        PROVE  LastIsEvent'
    <2>1. got[c] \in Seq(Reqs) /\ got'[c] = Append(got[c], event)
      BY <1>4 DEF IInv, Base, TypeOK
    <2>2. got'[c][Len(got'[c])] = event
      BY <1>4, <2>1
    <2>3. \A d \in Conns \ {c} : got'[d] = got[d]
      BY <1>4 DEF IInv, Base, TypeOK
    <2>. QED
      BY <1>4, <2>2, <2>3 DEF LastIsEvent
  <1>. QED
    BY OrderStep, <1>1, <1>2, <1>3, <1>4

(* Two clients that get the same two events get them in the same order,     *)
(* whoever connects, leaves or breaks off between and during the pushes.    *)
THEOREM OneOrder == Spec => []SameOrder
  <1>1. Init => LastIsEvent /\ SameOrder
    BY DEF Init, LastIsEvent, SameOrder, RangeOf
  <1>2. IInv /\ LastIsEvent /\ [Next]_vars => LastIsEvent'
    BY LastIsEventStep
  <1>3. IInv /\ IInv' /\ LastIsEvent /\ LastIsEvent' /\ SameOrder /\ [Next]_vars => SameOrder'
    <2>. SUFFICES ASSUME IInv, IInv', LastIsEvent', SameOrder, [Next]_vars,
                         NEW c \in Conns, NEW d \in Conns, NEW r \in Reqs, NEW s \in Reqs, r # s,
                         {r, s} \subseteq RangeOf(got'[c]), {r, s} \subseteq RangeOf(got'[d])
                  PROVE  Before(got'[c], r, s) <=> Before(got'[d], r, s)
      BY DEF SameOrder, RangeOf, Before
    <2>1. CASE got' = got
      BY <2>1 DEF SameOrder, Before
    <2>2. ASSUME handler' = "push", event' = event, event \in Reqs,
                 NEW e \in Conns, got' = [got EXCEPT ![e] = Append(@, event)]
          PROVE  Before(got'[c], r, s) <=> Before(got'[d], r, s)
      <3>1. ASSUME NEW x \in Conns
            PROVE  got[x] \in Seq(Reqs) /\ (got'[x] = got[x] \/ got'[x] = Append(got[x], event))
        BY <2>2 DEF IInv, Base, TypeOK
      <3>2. CASE event \notin {r, s}
        <4>1. ASSUME NEW x \in Conns, {r, s} \subseteq RangeOf(got'[x])
              PROVE  /\ Before(got'[x], r, s) <=> Before(got[x], r, s)
                     /\ {r, s} \subseteq RangeOf(got[x])
          <5>1. CASE got'[x] = got[x]
            BY <4>1, <5>1
          <5>2. CASE got'[x] = Append(got[x], event)
            <6>1. RangeOf(Append(got[x], event)) = RangeOf(got[x]) \cup {event}
              BY <2>2, <3>1, AppendAdds
            <6>2. Before(Append(got[x], event), r, s) <=> Before(got[x], r, s)
              BY <2>2, <3>1, <3>2, AppendKeepsOrder
            <6>. QED
              BY <3>2, <4>1, <5>2, <6>1, <6>2
          <5>. QED
            BY <3>1, <5>1, <5>2
        <4>2. Before(got[c], r, s) <=> Before(got[d], r, s)
          BY <4>1 DEF SameOrder, Before
        <4>. QED
          BY <4>1, <4>2
      <3>3. ASSUME NEW x \in Conns, {r, s} \subseteq RangeOf(got'[x]), event \in {r, s}
            PROVE  Before(got'[x], r, s) <=> s = event
        <4>. DEFINE t == got'[x]
        <4>1. t \in Seq(Reqs) /\ \A i, j \in DOMAIN t : t[i] = t[j] => i = j
          BY DEF IInv, Base, TypeOK, AtMostOnce
        <4>2. t[Len(t)] = event
          BY <2>2, <3>3 DEF LastIsEvent
        <4>. HIDE DEF t
        <4>3. r \in RangeOf(t) /\ s \in RangeOf(t)
          BY <3>3 DEF t
        <4>4. CASE s = event
          BY <4>1, <4>2, <4>3, <4>4, LastComesLast DEF t
        <4>5. CASE r = event
          BY <4>1, <4>2, <4>3, <4>5, LastComesLast DEF t
        <4>. QED
          BY <3>3, <4>4, <4>5
      <3>. QED
        BY <3>2, <3>3
    <2>. QED
      BY OrderStep, <2>1, <2>2
  <1>. QED
    BY Invariance, <1>1, <1>2, <1>3, PTL DEF Spec

(* Whatever is found in the map is found under its own number, and was      *)
(* announced and entered before.                                            *)
THEOREM FoundIsEntered == Spec => []RegisteredIsEntered
  <1>1. IInv => RegisteredIsEntered
    BY DEF IInv, Base
  <1>. QED
    BY Invariance, <1>1, PTL
-----------------------------------------------------------------------------
(* What ends the process                                                    *)

PushesItsOwn == handler = "push" => todo \subseteq recipients[event]

(* Steps that leave a process running: they all are of a running one.       *)
LEMMA CrashStep ==
    ASSUME IInv, [Next]_vars, proc' = "crashed"
    PROVE  \/ UNCHANGED vars
           \/ /\ UNCHANGED <<registryVars, recipients, handlerVars>> /\ handler = "push"
              /\ \E n \in todo : reg[n] = None
  <1>1. CASE Environment
    BY <1>1 DEF Environment, Connect, Register, Break, Unregister, ChangeMembers
  <1>2. ASSUME NEW r \in Reqs, Receive(r) \/ Serve(r) \/ Emit(r) PROVE FALSE
    BY <1>2 DEF Receive, Serve, Write, WriteReceipt, Address, Fail, Answer, Emit, Goes
  <1>3. ASSUME StartPush \/ EndPush \/ \E n \in Numbers : WriteTo(n) PROVE FALSE
    BY <1>3 DEF StartPush, EndPush, WriteTo
  <1>4. ASSUME NEW n \in Numbers, WriteToNil(n)
        PROVE  /\ UNCHANGED <<registryVars, recipients, handlerVars>> /\ handler = "push"
               /\ n \in todo /\ reg[n] = None
    BY <1>4 DEF WriteToNil, HandlerKeeps, Lookup, reqVars
  <1>. QED
    BY <1>1, <1>2, <1>3, <1>4 DEF Next, Push

(* The defect, exactly: only a recipient without a connection ends the      *)
(* process, and it is a recipient of the event that is pushed.              *)
THEOREM CrashCause == Spec => []CrashHasCause
  <1>1. Init => PushesItsOwn /\ CrashHasCause
    BY DEF Init, PushesItsOwn, CrashHasCause
  <1>2. IInv /\ PushesItsOwn /\ [Next]_vars => PushesItsOwn'
    <2>. SUFFICES ASSUME IInv, PushesItsOwn, [Next]_vars PROVE PushesItsOwn'
      OBVIOUS
    <2>1. CASE Environment
      BY <2>1 DEF Environment, Connect, Register, Break, Unregister, ChangeMembers,
         handlerVars, reqVars, PushesItsOwn
    <2>2. ASSUME NEW r \in Reqs, Receive(r) \/ Serve(r) PROVE PushesItsOwn'
      <3>1. at[r] \notin {"sent", "ok"} => r # event \/ handler = "idle"
        BY DEF IInv, Base, ServesSent
      <3>2. recipients' = recipients \/ (at[r] = "stored" /\ \A s \in Reqs \ {r} : recipients'[s] = recipients[s])
        BY <2>2 DEF Receive, Serve, Write, WriteReceipt, Address, Fail, Answer, IInv, Base, TypeOK, Goes
      <3>3. UNCHANGED handlerVars
        BY <2>2 DEF Receive, Serve, Write, WriteReceipt, Address, Fail, Answer
      <3>4. handler = "push" => event \in Reqs
        BY DEF IInv, Base, ServesSent
      <3>. QED
        BY <3>1, <3>2, <3>3, <3>4 DEF handlerVars, PushesItsOwn
    <2>3. ASSUME NEW r \in Reqs, Emit(r) PROVE PushesItsOwn'
      BY <2>3 DEF Emit, PushesItsOwn
    <2>4. CASE Push
      BY <2>4 DEF Push, StartPush, EndPush, WriteTo, WriteToNil, HandlerKeeps, reqVars, handlerVars, PushesItsOwn
    <2>5. CASE UNCHANGED vars
      BY <2>5 DEF vars, reqVars, handlerVars, PushesItsOwn
    <2>. QED
      BY <2>1, <2>2, <2>3, <2>4, <2>5 DEF Next
  <1>3. IInv /\ PushesItsOwn /\ CrashHasCause /\ [Next]_vars => CrashHasCause'
    <2>. SUFFICES ASSUME IInv, PushesItsOwn, CrashHasCause, [Next]_vars, proc' = "crashed"
                  PROVE  CrashHasCause'
      BY DEF CrashHasCause
    <2>1. CASE UNCHANGED vars
      BY <2>1 DEF vars, registryVars, reqVars, handlerVars, CrashHasCause
    <2>2. CASE /\ UNCHANGED <<registryVars, recipients, handlerVars>> /\ handler = "push"
               /\ \E n \in todo : reg[n] = None
      BY <2>2 DEF registryVars, handlerVars, PushesItsOwn, CrashHasCause
    <2>. QED
      BY CrashStep, <2>1, <2>2
  <1>. QED
    BY Invariance, <1>1, <1>2, <1>3, PTL DEF Spec
-----------------------------------------------------------------------------
(* The map of connections under the event handler                           *)

(* Every step is a call of the notification service, or leaves its map.     *)
LEMMA StepUsesRegistry == [Next]_vars => [RegistryNext]_registryVars
  <1>. SUFFICES ASSUME [Next]_vars PROVE RegistryNext \/ UNCHANGED registryVars
    OBVIOUS
  <1>1. CASE Environment
    BY <1>1 DEF Environment, Connect, Register, Break, Unregister, ChangeMembers, RegistryNext
  <1>2. CASE \E r \in Reqs : Receive(r) \/ Serve(r) \/ Emit(r)
    BY <1>2 DEF Receive, Serve, Write, WriteReceipt, Address, Fail, Answer, Emit, Goes
  <1>3. CASE Push
    BY <1>3 DEF Push, StartPush, EndPush, WriteTo, WriteToNil, HandlerKeeps
  <1>4. CASE UNCHANGED vars
    BY <1>4 DEF vars
  <1>. QED
    BY <1>1, <1>2, <1>3, <1>4 DEF Next

(* Delivery uses the map by its calls alone, ...                            *)
THEOREM RegistryUsed == Spec => UsesRegistry
  <1>1. Init => RegistryInit
    BY DEF Init
  <1>. QED
    BY StepUsesRegistry, <1>1, PTL DEF Spec, UsesRegistry, RegistrySpec

(* ... and however its calls are ordered, a connection that left the map    *)
(* does not come back: AddUserConnection comes once to each.                *)
THEOREM RegistryForgets == RegistrySpec => NeverReturns
  <1>1. RegistryInit => RegistryTypeOK
    BY DEF RegistryInit, RegistryTypeOK
  <1>2. RegistryTypeOK /\ [RegistryNext]_registryVars => RegistryTypeOK'
    BY DEF RegistryTypeOK, RegistryNext, registryVars, Announce, Enter, Leave
  <1>3. RegistryTypeOK /\ RegistryNext => \A c \in Conns : Gone(c) => Gone(c)'
    <2>. SUFFICES ASSUME RegistryTypeOK, NEW c \in Conns, c \in seen \ pending, reg[KeyOf[c]] # c,
                         RegistryNext
                  PROVE  c \in seen' \ pending' /\ reg'[KeyOf[c]] # c
      BY DEF Gone, Registered
    <2>1. ASSUME NEW d \in Conns, Announce(d) PROVE c \in seen' \ pending' /\ reg'[KeyOf[c]] # c
      BY <2>1 DEF Announce
    <2>2. ASSUME NEW d \in Conns, Enter(d) PROVE c \in seen' \ pending' /\ reg'[KeyOf[c]] # c
      BY <2>2 DEF Enter, RegistryTypeOK
    <2>3. ASSUME NEW k \in Keys, Leave(k) PROVE c \in seen' \ pending' /\ reg'[KeyOf[c]] # c
      BY <2>3 DEF Leave, RegistryTypeOK
    <2>. QED
      BY <2>1, <2>2, <2>3 DEF RegistryNext
  <1>. QED
    BY <1>1, <1>2, <1>3, PTL DEF RegistrySpec, NeverReturns

(* So an old connection of a user gets no events that a newer one should.   *)
THEOREM OldConnectionsStayOut == Spec => NeverReturns
  BY RegistryUsed, RegistryForgets DEF UsesRegistry
=============================================================================
