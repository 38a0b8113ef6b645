-------------------------- MODULE EventFramesProofs --------------------------
(***************************************************************************)
(* The bytes of an event, for names and structs of every length.            *)
(***************************************************************************)
EXTENDS EventFrames, TLAPS

USE EventFramesAssumption

Total == NameLength[kind] + bodyLength + 1

(* The parts of the response that are in their places.                      *)
NameIn == \A i \in 1 .. NameLength[kind] : buffer[i] = <<"name", i>>
SeparatorIn == buffer[NameLength[kind] + 1] = Separator
NoneAfterFirst == \A i \in 1 .. Total : buffer[i] = Separator => i = 1
BodyIn == \A i \in 1 .. bodyLength : buffer[NameLength[kind] + 1 + i] = <<"body", i>>

(* What the handler has composed, and where it copies next.                 *)
Composing ==
    /\ pc # "idle" => buffer \in [1 .. Total -> Bytes]
    /\ pc # "idle" /\ ~Moves => offset = 0 /\ NoneAfterFirst
    /\ pc = "made" => offset = 0
    /\ pc = "named" /\ Moves => offset = NameLength[kind] /\ NameIn
    /\ pc = "separated" /\ Moves => offset = NameLength[kind] + 1 /\ NameIn /\ SeparatorIn
    /\ pc = "composed" /\ Moves => offset = NameLength[kind] + 1 /\ NameIn /\ SeparatorIn /\ BodyIn

Base ==
    /\ pc \in {"idle", "made", "named", "separated", "composed"}
    /\ kind \in Kinds /\ bodyLength \in 0 .. MaxBody
    /\ buffer \in Seq(Bytes) /\ pushed \in Seq(Bytes)
    /\ offset \in Nat

IInv == Base /\ Composing

(* make([]byte, n), as a function on the first n places, is a slice of n bytes. *)
LEMMA FunctionIsBytes ==
    ASSUME NEW n \in Nat, NEW f \in [1 .. n -> Bytes]
    PROVE  f \in Seq(Bytes) /\ Len(f) = n
  OBVIOUS

(* A slice with the bytes of a part is that part.                          *)
LEMMA SameBytes ==
    ASSUME NEW q \in Seq(Bytes), NEW f \in [1 .. Len(q) -> Bytes], \A i \in 1 .. Len(q) : q[i] = f[i]
    PROVE  q = f
  OBVIOUS

(* The lengths a branch adds up are lengths.                               *)
LEMMA LengthOfTotal ==
    ASSUME Base
    PROVE  NameLength[kind] \in Nat \ {0} /\ bodyLength \in Nat /\ Total \in Nat
  BY DEF Base, Total

(* copy changes bytes of the buffer, and not its length.                    *)
LEMMA CopyKeeps ==
    ASSUME NEW n \in Nat, NEW buf \in [1 .. n -> Bytes], NEW pos \in Nat, NEW m \in Nat,
           NEW bytes \in [1 .. m -> Bytes]
    PROVE  /\ Copied(buf, pos, bytes) \in [1 .. n -> Bytes]
           /\ \A i \in 1 .. n : Copied(buf, pos, bytes)[i] =
                 IF i - pos \in 1 .. m THEN bytes[i - pos] ELSE buf[i]
  BY DEF Copied

(* The name and the struct, byte by byte.                                  *)
LEMMA PartsAreBytes ==
    ASSUME Base
    PROVE  /\ Name(kind) \in [1 .. NameLength[kind] -> Bytes]
           /\ \A i \in 1 .. NameLength[kind] : Name(kind)[i] = <<"name", i>>
           /\ Body(bodyLength) \in [1 .. bodyLength -> Bytes]
           /\ \A i \in 1 .. bodyLength : Body(bodyLength)[i] = <<"body", i>>
           /\ <<Separator>> \in [1 .. 1 -> Bytes] /\ <<Separator>>[1] = Separator
  <1>1. \A i \in Nat : <<"name", i>> \in Bytes /\ <<"body", i>> \in Bytes
    BY DEF Bytes
  <1>2. NameLength[kind] \in Nat /\ bodyLength \in Nat
    BY LengthOfTotal
  <1>3. Separator \in Bytes
    BY DEF Bytes
  <1>. QED
    <2>1. /\ Name(kind) \in [1 .. NameLength[kind] -> Bytes]
          /\ \A i \in 1 .. NameLength[kind] : Name(kind)[i] = <<"name", i>>
      <3>. DEFINE b(i) == <<"name", i>>
                  n == NameLength[kind]
      <3>1. n \in Nat /\ (\A i \in Nat : b(i) \in Bytes) /\ Name(kind) = [i \in 1 .. n |-> b(i)]
        BY <1>1, <1>2 DEF Name
      <3>. HIDE DEF b, n
      <3>2. /\ [i \in 1 .. n |-> b(i)] \in [1 .. n -> Bytes]
            /\ \A j \in 1 .. n : [i \in 1 .. n |-> b(i)][j] = b(j)
        BY <3>1
      <3>. QED
        BY <3>1, <3>2 DEF b, n
    <2>2. /\ Body(bodyLength) \in [1 .. bodyLength -> Bytes]
          /\ \A i \in 1 .. bodyLength : Body(bodyLength)[i] = <<"body", i>>
      <3>. DEFINE b(i) == <<"body", i>>
                  n == bodyLength
      <3>1. n \in Nat /\ (\A i \in Nat : b(i) \in Bytes) /\ Body(bodyLength) = [i \in 1 .. n |-> b(i)]
        BY <1>1, <1>2 DEF Body
      <3>. HIDE DEF b, n
      <3>2. /\ [i \in 1 .. n |-> b(i)] \in [1 .. n -> Bytes]
            /\ \A j \in 1 .. n : [i \in 1 .. n |-> b(i)][j] = b(j)
        BY <3>1
      <3>. QED
        BY <3>1, <3>2 DEF b, n
    <2>3. <<Separator>> \in [1 .. 1 -> Bytes] /\ <<Separator>>[1] = Separator
      BY <1>3
    <2>. QED
      BY <2>1, <2>2, <2>3

(* Making the buffer keeps the invariant.                                  *)
LEMMA MakeStep ==
    ASSUME IInv, NEW k \in Kinds, NEW n \in 0 .. MaxBody, Make(k, n)
    PROVE  IInv'
  <1>. DEFINE t == NameLength[k] + n + 1
              zeros == [i \in 1 .. t |-> Zero]
  <1>1. t \in Nat /\ NameLength[k] \in Nat /\ n \in Nat
    OBVIOUS
  <1>2. zeros \in [1 .. t -> Bytes]
    BY DEF Bytes
  <1>3. zeros \in Seq(Bytes)
    BY <1>1, <1>2, FunctionIsBytes
  <1>4. /\ pc' = "made" /\ kind' = k /\ bodyLength' = n /\ buffer' = zeros /\ offset' = 0
        /\ pushed' = pushed
    BY DEF Make
  <1>5. Base'
    BY <1>3, <1>4 DEF IInv, Base
  <1>6. Composing'
    <2>1. \A i \in 1 .. t : buffer'[i] # Separator
      BY <1>4 DEF Zero, Separator
    <2>. QED
      BY <1>2, <1>4, <2>1 DEF Composing, Total, NoneAfterFirst
  <1>. QED
    BY <1>5, <1>6 DEF IInv

(* A part is copied: the bytes before the offset stay.                      *)
LEMMA CopyStep ==
    ASSUME IInv, NEW m \in Nat, NEW bytes \in [1 .. m -> Bytes], NEW by \in Nat,
           NEW from \in {"made", "named", "separated"}, NEW to \in {"named", "separated", "composed"},
           CopyPart(from, to, bytes, by)
    PROVE  /\ Base' /\ UNCHANGED <<kind, bodyLength, pushed>> /\ pc = from /\ pc' = to
           /\ buffer \in [1 .. Total -> Bytes] /\ buffer' \in [1 .. Total -> Bytes]
           /\ \A i \in 1 .. Total : buffer'[i] =
                 IF i - offset \in 1 .. m THEN bytes[i - offset] ELSE buffer[i]
           /\ offset' = IF Moves THEN offset + by ELSE offset
  <1>1. /\ pc = from /\ pc' = to /\ UNCHANGED <<kind, bodyLength, pushed>>
        /\ buffer' = Copied(buffer, offset, bytes)
        /\ offset' = IF Moves THEN offset + by ELSE offset
    BY DEF CopyPart
  <1>2. buffer \in [1 .. Total -> Bytes] /\ Total \in Nat /\ offset \in Nat
    BY <1>1, LengthOfTotal DEF IInv, Composing, Base
  <1>3. /\ buffer' \in [1 .. Total -> Bytes]
        /\ \A i \in 1 .. Total : buffer'[i] =
              IF i - offset \in 1 .. m THEN bytes[i - offset] ELSE buffer[i]
    BY <1>1, <1>2, CopyKeeps
  <1>4. buffer' \in Seq(Bytes)
    BY <1>2, <1>3, FunctionIsBytes
  <1>5. Base'
    BY <1>1, <1>2, <1>4 DEF IInv, Base
  <1>. QED
    BY <1>1, <1>2, <1>3, <1>5

(* Copying the name keeps the invariant.                                   *)
LEMMA CopyNameStep == IInv /\ CopyName => IInv'
  <1>. SUFFICES ASSUME IInv, CopyName PROVE IInv'
    OBVIOUS
  <1>. DEFINE L == NameLength[kind]
  <1>0. Base /\ L \in Nat \ {0} /\ bodyLength \in Nat /\ Total = L + bodyLength + 1
    BY LengthOfTotal DEF IInv, Total
  <1>1. /\ Name(kind) \in [1 .. L -> Bytes] /\ \A i \in 1 .. L : Name(kind)[i] = <<"name", i>>
    BY <1>0, PartsAreBytes
  <1>2. /\ Base' /\ UNCHANGED <<kind, bodyLength, pushed>> /\ pc = "made" /\ pc' = "named"
        /\ buffer' \in [1 .. Total -> Bytes]
        /\ \A i \in 1 .. Total : buffer'[i] =
              IF i - offset \in 1 .. L THEN Name(kind)[i - offset] ELSE buffer[i]
        /\ offset' = IF Moves THEN offset + L ELSE offset
    BY <1>0, <1>1, CopyStep DEF CopyName
  <1>3. offset = 0
    BY <1>2 DEF IInv, Composing
  <1>4. \A i \in 1 .. L : buffer'[i] = <<"name", i>>
    BY <1>0, <1>1, <1>2, <1>3
  <1>5. ~Moves => NoneAfterFirst'
    <2>1. \A i \in 1 .. L : Name(kind)[i] # Separator
      BY <1>1 DEF Separator
    <2>. QED
      BY <1>0, <1>2, <1>3, <2>1 DEF IInv, Composing, NoneAfterFirst, Total
  <1>6. Composing'
    BY <1>0, <1>2, <1>3, <1>4, <1>5 DEF Composing, Total, Moves, NameIn
  <1>. QED
    BY <1>2, <1>6 DEF IInv

(* Copying the separator keeps the invariant.                              *)
LEMMA CopySeparatorStep == IInv /\ CopySeparator => IInv'
  <1>. SUFFICES ASSUME IInv, CopySeparator PROVE IInv'
    OBVIOUS
  <1>. DEFINE L == NameLength[kind]
  <1>0. Base /\ L \in Nat \ {0} /\ bodyLength \in Nat /\ Total = L + bodyLength + 1
    BY LengthOfTotal DEF IInv, Total
  <1>1. <<Separator>> \in [1 .. 1 -> Bytes] /\ <<Separator>>[1] = Separator
    BY <1>0, PartsAreBytes
  <1>2. /\ Base' /\ UNCHANGED <<kind, bodyLength, pushed>> /\ pc = "named" /\ pc' = "separated"
        /\ buffer' \in [1 .. Total -> Bytes]
        /\ \A i \in 1 .. Total : buffer'[i] =
              IF i - offset \in 1 .. 1 THEN <<Separator>>[i - offset] ELSE buffer[i]
        /\ offset' = IF Moves THEN offset + 1 ELSE offset
    BY <1>1, CopyStep DEF CopySeparator
  <1>3. CASE Moves
    <2>1. offset = L /\ \A i \in 1 .. L : buffer[i] = <<"name", i>>
      BY <1>2, <1>3 DEF IInv, Composing, NameIn
    <2>2. /\ \A i \in 1 .. L : buffer'[i] = <<"name", i>>
          /\ buffer'[L + 1] = Separator
      <3>1. ASSUME NEW i \in 1 .. L PROVE buffer'[i] = <<"name", i>>
        <4>1. i \in 1 .. Total /\ i - offset \notin 1 .. 1
          BY <1>0, <2>1
        <4>. QED
          BY <1>2, <2>1, <4>1
      <3>2. L + 1 \in 1 .. Total /\ (L + 1) - offset = 1
        BY <1>0, <2>1
      <3>3. buffer'[L + 1] = <<Separator>>[(L + 1) - offset]
        BY <1>2, <3>2
      <3>. QED
        BY <1>1, <3>1, <3>2, <3>3
    <2>3. Composing'
      BY <1>0, <1>2, <1>3, <2>1, <2>2 DEF Composing, Total, Moves, NameIn, SeparatorIn
    <2>. QED
      BY <1>2, <2>3 DEF IInv
  <1>4. CASE ~Moves
    <2>1. NoneAfterFirst'
      BY <1>0, <1>2, <1>4 DEF IInv, Composing, NoneAfterFirst, Total
    <2>2. Composing'
      BY <1>2, <1>4, <2>1 DEF IInv, Composing, Total, Moves
    <2>. QED
      BY <1>2, <2>2 DEF IInv
  <1>. QED
    BY <1>3, <1>4

(* Copying the struct keeps the invariant.                                 *)
LEMMA CopyBodyStep == IInv /\ CopyBody => IInv'
  <1>. SUFFICES ASSUME IInv, CopyBody PROVE IInv'
    OBVIOUS
  <1>. DEFINE L == NameLength[kind]
  <1>0. Base /\ L \in Nat \ {0} /\ bodyLength \in Nat /\ Total = L + bodyLength + 1
    BY LengthOfTotal DEF IInv, Total
  <1>1. /\ Body(bodyLength) \in [1 .. bodyLength -> Bytes]
        /\ \A i \in 1 .. bodyLength : Body(bodyLength)[i] = <<"body", i>>
    BY <1>0, PartsAreBytes
  <1>2. /\ Base' /\ UNCHANGED <<kind, bodyLength, pushed>> /\ pc = "separated" /\ pc' = "composed"
        /\ buffer' \in [1 .. Total -> Bytes]
        /\ \A i \in 1 .. Total : buffer'[i] =
              IF i - offset \in 1 .. bodyLength THEN Body(bodyLength)[i - offset] ELSE buffer[i]
        /\ offset' = IF Moves THEN offset + 0 ELSE offset
    BY <1>0, <1>1, CopyStep DEF CopyBody
  <1>3. CASE Moves
    <2>1. /\ offset = L + 1 /\ \A i \in 1 .. L : buffer[i] = <<"name", i>>
          /\ buffer[L + 1] = Separator
      BY <1>2, <1>3 DEF IInv, Composing, NameIn, SeparatorIn
    <2>2. /\ \A i \in 1 .. L : buffer'[i] = <<"name", i>>
          /\ buffer'[L + 1] = Separator
          /\ \A i \in 1 .. bodyLength : buffer'[L + 1 + i] = <<"body", i>>
      <3>1. ASSUME NEW i \in 1 .. (L + 1) PROVE buffer'[i] = buffer[i]
        <4>1. i \in 1 .. Total /\ i - offset \notin 1 .. bodyLength
          BY <1>0, <2>1
        <4>. QED
          BY <1>2, <4>1
      <3>2. ASSUME NEW i \in 1 .. bodyLength PROVE buffer'[L + 1 + i] = <<"body", i>>
        <4>1. L + 1 + i \in 1 .. Total /\ (L + 1 + i) - offset = i
          BY <1>0, <2>1
        <4>2. buffer'[L + 1 + i] = Body(bodyLength)[(L + 1 + i) - offset]
          BY <1>2, <4>1
        <4>. QED
          BY <1>1, <4>1, <4>2
      <3>3. ASSUME NEW i \in 1 .. L PROVE buffer'[i] = <<"name", i>>
        <4>1. i \in 1 .. (L + 1)
          BY <1>0
        <4>. QED
          BY <2>1, <3>1, <4>1
      <3>4. buffer'[L + 1] = Separator
        <4>1. L + 1 \in 1 .. (L + 1)
          BY <1>0
        <4>. QED
          BY <2>1, <3>1, <4>1
      <3>. QED
        BY <3>2, <3>3, <3>4
    <2>3. Composing'
      BY <1>0, <1>2, <1>3, <2>1, <2>2 DEF Composing, Total, Moves, NameIn, SeparatorIn, BodyIn
    <2>. QED
      BY <1>2, <2>3 DEF IInv
  <1>4. CASE ~Moves
    <2>1. \A i \in 1 .. bodyLength : Body(bodyLength)[i] # Separator
      BY <1>1 DEF Separator
    <2>2. NoneAfterFirst'
      BY <1>0, <1>2, <1>4, <2>1 DEF IInv, Composing, NoneAfterFirst, Total
    <2>3. Composing'
      BY <1>2, <1>4, <2>2 DEF IInv, Composing, Total, Moves
    <2>. QED
      BY <1>2, <2>3 DEF IInv
  <1>. QED
    BY <1>3, <1>4

(* Pushing what was composed keeps the invariant.                          *)
LEMMA PushStep == IInv /\ Push => IInv'
  <1>. SUFFICES ASSUME IInv, Push PROVE IInv'
    OBVIOUS
  <1>1. Body(bodyLength) \in Seq(Bytes)
    BY PartsAreBytes, LengthOfTotal, FunctionIsBytes DEF IInv
  <1>. QED
    BY <1>1 DEF Push, IInv, Base, Composing

(* The inductive invariant behind the theorems below.                       *)
THEOREM Invariance == Spec => []IInv
  <1>1. Init => IInv
    BY DEF Init, IInv, Base, Composing
  <1>2. IInv /\ [Next]_vars => IInv'
    <2>1. ASSUME IInv, UNCHANGED vars PROVE IInv'
      BY <2>1 DEF vars, IInv, Base, Composing, Total, Moves, NameIn, SeparatorIn, BodyIn,
         NoneAfterFirst
    <2>. QED
      BY <2>1, MakeStep, CopyNameStep, CopySeparatorStep, CopyBodyStep, PushStep DEF Next
  <1>. QED
    BY <1>1, <1>2, PTL DEF Spec

(* Buffer and offset keep their types, and every part fits into what is    *)
(* left of the buffer, although lengths and offsets are added up by hand.   *)
THEOREM TypeCorrect == Spec => []TypeOK
  <1>1. IInv => TypeOK
    <2>. SUFFICES ASSUME IInv PROVE TypeOK
      OBVIOUS
    <2>1. ASSUME pc \in {"made", "named", "separated"} PROVE NothingIsCut
      <3>1. Total \in Nat /\ buffer \in [1 .. Total -> Bytes]
        BY <2>1, LengthOfTotal DEF IInv, Composing
      <3>2. Len(buffer) = Total
        BY <3>1, FunctionIsBytes
      <3>3. /\ pc = "made" => offset = 0
            /\ pc = "named" => offset \in {0, NameLength[kind]}
            /\ pc = "separated" => offset \in {0, NameLength[kind] + 1}
        BY DEF IInv, Composing
      <3>. QED
        BY <3>2, <3>3, LengthOfTotal DEF IInv, Total, NothingIsCut
    <2>. QED
      BY <2>1 DEF IInv, Base, TypeOK, NothingIsCut
  <1>. QED
    BY Invariance, <1>1, PTL

(* What is composed for an event of MessageEventHandler splits into its own *)
(* name and its own struct, whatever their lengths and whatever was served  *)
(* before, unless it is GROUP_MESSAGE_RECEIVED.                             *)
THEOREM Framed == Spec => OthersAreFramed
  <1>1. IInv /\ [Next]_vars => [ServedIsFramed(MessageKinds \ {ReceivedKind})]_vars
    <2>. SUFFICES ASSUME IInv, [Next]_vars, pc = "composed", pc' = "idle",
                         kind \in MessageKinds \ {ReceivedKind}
                  PROVE  Splits(pushed', Name(kind), Body(bodyLength))
      BY DEF ServedIsFramed
    <2>. DEFINE L == NameLength[kind]
                s == buffer
    <2>1. pushed' = s
      BY DEF Next, Make, CopyName, CopySeparator, CopyBody, CopyPart, Push, vars
    <2>2. /\ L \in Nat \ {0} /\ bodyLength \in Nat /\ Total = L + bodyLength + 1
          /\ s \in [1 .. Total -> Bytes]
      BY LengthOfTotal DEF IInv, Composing, Total
    <2>3. /\ \A i \in 1 .. L : s[i] = <<"name", i>>
          /\ s[L + 1] = Separator
          /\ \A i \in 1 .. bodyLength : s[L + 1 + i] = <<"body", i>>
      BY DEF IInv, Composing, Moves, NameIn, SeparatorIn, BodyIn
    <2>4. s \in Seq(Bytes) /\ Len(s) = L + bodyLength + 1
      BY <2>2, FunctionIsBytes
    <2>5. \A i \in 1 .. L : s[i] # Separator
      BY <2>3 DEF Separator
    <2>6. SubSeq(s, 1, L) = Name(kind)
      <3>. DEFINE a == SubSeq(s, 1, L)
      <3>1. /\ a \in Seq(Bytes) /\ Len(a) = L
            /\ \A i \in 1 .. L : a[i] = s[i]
        BY <2>2, <2>4
      <3>2. /\ Name(kind) \in [1 .. L -> Bytes]
            /\ \A i \in 1 .. L : Name(kind)[i] = <<"name", i>>
        BY PartsAreBytes DEF IInv
      <3>3. a = Name(kind)
        <4>1. \A i \in 1 .. Len(a) : a[i] = Name(kind)[i]
          BY <2>2, <2>3, <3>1, <3>2
        <4>. HIDE DEF a
        <4>. QED
          BY <3>1, <3>2, <4>1, SameBytes
      <3>. QED
        BY <3>3
    <2>7. SubSeq(s, L + 2, Len(s)) = Body(bodyLength)
      <3>. DEFINE b == SubSeq(s, L + 2, Len(s))
      <3>1. /\ b \in Seq(Bytes) /\ Len(b) = bodyLength
            /\ \A i \in 1 .. bodyLength : b[i] = s[L + 1 + i]
        BY SMTT(30), <2>2, <2>4
      <3>2. /\ Body(bodyLength) \in [1 .. bodyLength -> Bytes]
            /\ \A i \in 1 .. bodyLength : Body(bodyLength)[i] = <<"body", i>>
        BY PartsAreBytes DEF IInv
      <3>3. b = Body(bodyLength)
        <4>1. \A i \in 1 .. Len(b) : b[i] = Body(bodyLength)[i]
          BY <2>2, <2>3, <3>1, <3>2
        <4>. HIDE DEF b
        <4>. QED
          BY <3>1, <3>2, <4>1, SameBytes
      <3>. QED
        BY <3>3
    <2>8. L + 1 \in DOMAIN s /\ (L + 1) - 1 = L /\ (L + 1) + 1 = L + 2
      BY <2>2
    <2>. QED
      BY <2>1, <2>3, <2>5, <2>6, <2>7, <2>8 DEF Splits
  <1>. QED
    BY Invariance, <1>1, PTL DEF Spec, OthersAreFramed

(* What the two handlers push of group events and of GROUP_MESSAGE_RECEIVED *)
(* never splits into name and struct: of a group event nothing but the      *)
(* struct is pushed, and the parts of GROUP_MESSAGE_RECEIVED are all copied *)
(* to the front, where the first byte is no end of its name.                *)
THEOREM NeverFramed == Spec => OthersAreNot
  <1>1. IInv /\ [Next]_vars =>
           [pc = "composed" /\ pc' = "idle" /\ kind \in GroupKinds \cup {ReceivedKind} =>
              ~Splits(pushed', Name(kind), Body(bodyLength))]_vars
    <2>. SUFFICES ASSUME IInv, [Next]_vars, pc = "composed", pc' = "idle",
                         kind \in GroupKinds \cup {ReceivedKind},
                         Splits(pushed', Name(kind), Body(bodyLength))
                  PROVE  FALSE
      OBVIOUS
    <2>1. Push
      BY DEF Next, Make, CopyName, CopySeparator, CopyBody, CopyPart, vars
    <2>2. NameLength[kind] \in Nat \ {0} /\ bodyLength \in Nat
      BY LengthOfTotal DEF IInv
    <2>3. PICK at \in DOMAIN pushed' : /\ pushed'[at] = Separator
                                       /\ SubSeq(pushed', 1, at - 1) = Name(kind)
      BY DEF Splits
    <2>4. CASE kind \in GroupKinds
      <3>1. pushed' = Body(bodyLength)
        BY <2>1, <2>4 DEF Push
      <3>2. at \in 1 .. bodyLength /\ pushed'[at] = <<"body", at>>
        BY <2>3, <3>1, PartsAreBytes DEF IInv
      <3>. QED
        BY <2>3, <3>2 DEF Separator
    <2>5. CASE kind \notin GroupKinds
      <3>1. pushed' = buffer /\ ~Moves
        BY <2>1, <2>5 DEF Push, Moves
      <3>2. buffer \in [1 .. Total -> Bytes] /\ NoneAfterFirst
        BY <3>1 DEF IInv, Composing
      <3>3. at = 1
        BY <2>3, <3>1, <3>2 DEF NoneAfterFirst
      <3>4. Name(kind) = << >>
        BY <2>3, <3>3
      <3>5. DOMAIN Name(kind) = 1 .. NameLength[kind]
        BY DEF Name
      <3>. QED
        BY <2>2, <3>4, <3>5
    <2>. QED
      BY <2>4, <2>5
  <1>. QED
    BY Invariance, <1>1, PTL DEF Spec, OthersAreNot
=============================================================================
