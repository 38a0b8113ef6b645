---------------------------- MODULE GroupsProofs ----------------------------
(***************************************************************************)
(* What Groups guarantees for any number of users, groups and requests.     *)
(***************************************************************************)
EXTENDS Groups, TLAPS

USE GroupsAssumption

(* What the place of a request says of it.                                  *)
Progress ==
    \A r \in Reqs :
        /\ at[r] \in {"created", "undo"} => ask[r].kind = "create"
        /\ at[r] \in {"checked", "changed", "addressed"} => ask[r].kind # "create"
        /\ at[r] = "checked" => <<ask[r].by, ask[r].group>> \in wasAdmin
        /\ at[r] \in {"changed", "addressed"} => r \in InSeq(changes)

(* While a group has no first admin, nobody but its creator can name it: so *)
(* it is still there when its creator becomes admin.                        *)
Fresh ==
    /\ wasAdmin \subseteq Users \X used
    /\ \A r \in Reqs : at[r] \in {"created", "undo"} => ask[r].group \in used
    /\ \A r \in Reqs : at[r] = "created" =>
          ask[r].group \in groups /\ \A u \in Users : <<u, ask[r].group>> \notin wasAdmin
    /\ \A r, s \in Reqs :
          /\ at[r] \in {"created", "undo"} /\ at[s] \in {"created", "undo"}
          /\ ask[r].group = ask[s].group
          => r = s

(* What the two histories say of a request.                                 *)
Logged ==
    /\ \A r \in InSeq(changes) : ask[r].kind # "create" /\ at[r] \in {"changed", "addressed", "ok", "error"}
    /\ \A r \in InSeq(told) : at[r] = "ok"

IInv == TypeOK /\ Progress /\ Fresh /\ Logged /\ ChangedByAdmins /\ ToldOnce /\ AdminlessHasCause

(* The invariant holds of the first state.                                 *)
LEMMA InitInvariant == Init => IInv
  <1>. SUFFICES ASSUME Init PROVE IInv
    OBVIOUS
  <1>1. InSeq(changes) = {} /\ InSeq(told) = {}
    BY DEF Init, InSeq
  <1>2. TypeOK
    BY DEF Init, TypeOK, Places
  <1>3. Progress /\ Fresh
    BY DEF Init, Progress, Fresh
  <1>4. Logged /\ ChangedByAdmins /\ ToldOnce
    <2>1. DOMAIN told = {}
      BY DEF Init
    <2>. QED
      BY <1>1, <2>1 DEF Logged, ChangedByAdmins, ToldOnce
  <1>5. AdminlessHasCause
    <2>1. \A g \in groups : <<Founder, g>> \in admins /\ Founder \in Users
      BY DEF Init
    <2>. QED
      BY <2>1 DEF AdminlessHasCause
  <1>. QED
    BY <1>2, <1>3, <1>4, <1>5 DEF IInv

(* A history with one more request.                                         *)
LEMMA OneMore ==
    ASSUME NEW s \in Seq(Reqs), NEW r \in Reqs
    PROVE  /\ Append(s, r) \in Seq(Reqs)
           /\ InSeq(Append(s, r)) = InSeq(s) \cup {r}
           /\ r \notin InSeq(s) /\ (\A i, j \in DOMAIN s : s[i] = s[j] => i = j) =>
                 \A i, j \in DOMAIN Append(s, r) : Append(s, r)[i] = Append(s, r)[j] => i = j
  <1>1. /\ Append(s, r) \in Seq(Reqs)
        /\ DOMAIN Append(s, r) = DOMAIN s \cup {Len(s) + 1}
        /\ \A i \in DOMAIN s : Append(s, r)[i] = s[i]
        /\ Append(s, r)[Len(s) + 1] = r
    OBVIOUS
  <1>. QED
    BY <1>1 DEF InSeq

(* Both histories consist of requests.                                     *)
LEMMA InSeqTyped ==
    ASSUME TypeOK
    PROVE  InSeq(changes) \subseteq Reqs /\ InSeq(told) \subseteq Reqs
  <1>1. \A s \in Seq(Reqs) : \A i \in DOMAIN s : s[i] \in Reqs
    OBVIOUS
  <1>. QED
    BY <1>1 DEF TypeOK, InSeq

(* Steps that change no table, no history and no request.                   *)
LEMMA QuietStep ==
    ASSUME IInv, NEW r \in Reqs,
           \/ Fail(r) \/ CreatorNotAdmin(r) \/ UndoFails(r) \/ CheckAdmin(r) \/ Rename(r) \/ Address(r)
    PROVE  IInv'
  <1>. USE DEF IInv, TypeOK, Progress, Fresh, Logged, ChangedByAdmins, ToldOnce, AdminlessHasCause,
               tables, people, history, Places
  <1>0. InSeq(changes) \subseteq Reqs /\ InSeq(told) \subseteq Reqs
    BY InSeqTyped
  <1>1. CASE Fail(r)
    <2>1. /\ at[r] \in {"start", "checked", "changed"} /\ at' = [at EXCEPT ![r] = "error"]
          /\ UNCHANGED <<used, tables, people, ask, called, history>>
      BY <1>1 DEF Fail, Goes
    <2>2. TypeOK' /\ Progress'
      BY <2>1
    <2>3. Fresh'
      BY <2>1
    <2>4. Logged' /\ ChangedByAdmins'
      BY <1>0, <2>1
    <2>5. ToldOnce'
      BY <1>0, <2>1
    <2>6. AdminlessHasCause'
      BY <1>0, <2>1
    <2>. QED
      BY <2>2, <2>3, <2>4, <2>5, <2>6
  <1>2. CASE CreatorNotAdmin(r)
    <2>1. /\ at[r] = "created" /\ at' = [at EXCEPT ![r] = "undo"]
          /\ UNCHANGED <<used, tables, people, ask, called, history>>
      BY <1>2 DEF CreatorNotAdmin, Goes
    <2>2. TypeOK' /\ Progress'
      BY <2>1
    <2>3. Fresh'
      BY <2>1
    <2>4. Logged' /\ ChangedByAdmins' /\ ToldOnce'
      BY <1>0, <2>1
    <2>5. AdminlessHasCause'
      BY <1>0, <2>1
    <2>. QED
      BY <2>2, <2>3, <2>4, <2>5
  <1>6. CASE UndoFails(r)
    BY SMTT(30), <1>0, <1>6 DEF UndoFails, Goes
  <1>3. CASE CheckAdmin(r)
    <2>1. /\ at[r] = "start" /\ at' = [at EXCEPT ![r] = "checked"]
          /\ ask[r].kind # "create" /\ <<ask[r].by, ask[r].group>> \in admins
          /\ UNCHANGED <<used, tables, people, ask, called, history>>
      BY <1>3 DEF CheckAdmin, Calls, Goes
    <2>2. TypeOK' /\ Progress' /\ Fresh'
      BY SMTT(30), <2>1
    <2>3. Logged' /\ ChangedByAdmins' /\ ToldOnce'
      BY <1>0, <2>1
    <2>4. AdminlessHasCause'
      BY <1>0, <2>1
    <2>. QED
      BY <2>2, <2>3, <2>4
  <1>4. CASE Rename(r)
    BY <1>0, <1>4 DEF Rename, Calls, Goes
  <1>5. CASE Address(r)
    <2>1. /\ at[r] = "changed" /\ at' = [at EXCEPT ![r] = "addressed"]
          /\ UNCHANGED <<used, tables, people, ask, called, history>>
      BY <1>5 DEF Address, Calls, Goes
    <2>2. TypeOK' /\ Progress'
      BY <2>1
    <2>3. Fresh'
      BY <2>1
    <2>4. Logged' /\ ChangedByAdmins'
      BY <1>0, <2>1
    <2>5. ToldOnce'
      BY <1>0, <2>1
    <2>6. AdminlessHasCause'
      BY <1>0, <2>1
    <2>. QED
      BY <2>2, <2>3, <2>4, <2>5, <2>6
  <1>. QED
    BY <1>1, <1>2, <1>3, <1>4, <1>5, <1>6

(* The steps of a creation.                                                 *)
LEMMA CreateStep ==
    ASSUME IInv, NEW r \in Reqs, CreateGroup(r) \/ MakeCreatorAdmin(r) \/ UndoCreate(r)
    PROVE  IInv'
  <1>. USE DEF IInv, TypeOK, Progress, Fresh, Logged, ChangedByAdmins, ToldOnce, AdminlessHasCause,
               tables, people, history, Places
  <1>0. InSeq(changes) \subseteq Reqs /\ InSeq(told) \subseteq Reqs
    BY InSeqTyped
  <1>1. CASE CreateGroup(r)
    <2>1. /\ at[r] = "start" /\ at' \in [Reqs -> Places]
          /\ at'[r] \in {"created", "error"} /\ \A s \in Reqs \ {r} : at'[s] = at[s]
          /\ UNCHANGED <<people, called, admins, members, history>>
          /\ ask[r].kind = "create"
      BY <1>1 DEF CreateGroup, Calls, Goes
    <2>2. PICK g \in GroupIds \ used :
            /\ used' = used \cup {g} /\ groups' = groups \cup {g}
            /\ ask' = [ask EXCEPT ![r].group = g]
      BY <1>1 DEF CreateGroup
    <2>3. /\ ask' \in [Reqs -> Ask] /\ ask'[r].group = g /\ ask'[r].kind = "create"
          /\ \A s \in Reqs \ {r} : ask'[s] = ask[s]
      <3>1. [ask[r] EXCEPT !.group = g] \in Ask
        <4>1. ask[r] \in Ask /\ g \in GroupIds
          BY <2>2
        <4>2. \A a \in Ask : [a EXCEPT !.group = g] \in Ask
          BY <4>1 DEF Ask
        <4>. QED
          BY <4>1, <4>2
      <3>2. ask' = [ask EXCEPT ![r] = [ask[r] EXCEPT !.group = g]]
        BY <2>2
      <3>3. [ask[r] EXCEPT !.group = g].group = g /\ [ask[r] EXCEPT !.group = g].kind = "create"
        BY <2>1 DEF Ask
      <3>. QED
        BY <3>1, <3>2, <3>3
    <2>4. r \notin InSeq(changes) /\ r \notin InSeq(told)
      BY <2>1
    <2>5. TypeOK'
      BY <2>1, <2>2, <2>3
    <2>6. Progress'
      BY <2>1, <2>3, <2>4
    <2>7. Fresh'
      BY <2>1, <2>2, <2>3, <2>4
    <2>8. Logged' /\ ChangedByAdmins' /\ ToldOnce'
      <3>1. \A s \in InSeq(changes) : s # r /\ ask'[s] = ask[s] /\ at'[s] = at[s]
        BY <1>0, <2>1, <2>3, <2>4
      <3>2. \A s \in InSeq(told) : s # r /\ at'[s] = at[s]
        BY <1>0, <2>1, <2>4
      <3>3. InSeq(changes)' = InSeq(changes) /\ InSeq(told)' = InSeq(told)
        BY <2>1 DEF InSeq
      <3>4. Logged'
        BY <3>1, <3>2, <3>3
      <3>5. ChangedByAdmins'
        BY <2>1, <3>1, <3>3
      <3>6. ToldOnce'
        BY <2>1, <3>1, <3>3
      <3>. QED
        BY <3>4, <3>5, <3>6
    <2>9. AdminlessHasCause'
      <3>1. /\ \A q \in Reqs : ask'[q].kind = ask[q].kind
            /\ \A q \in InSeq(changes) : q \in Reqs \ {r}
            /\ InSeq(changes)' = InSeq(changes)
        BY <1>0, <2>1, <2>3, <2>4 DEF InSeq
      <3>2. ASSUME NEW h \in groups, \A u \in Users : <<u, h>> \notin admins'
            PROVE  \/ \E q \in Reqs : /\ ask'[q].kind = "create" /\ ask'[q].group = h
                                         /\ at'[q] \in {"created", "undo", "error"}
                   \/ \E q \in InSeq(changes) : ask'[q].kind = "remove_admin" /\ ask'[q].group = h
                   \/ \E u \in Users \ accounts : <<u, h>> \in wasAdmin
        <4>1. CASE \E q \in Reqs : /\ ask[q].kind = "create" /\ ask[q].group = h
                                    /\ at[q] \in {"created", "undo", "error"}
          BY <2>1, <2>3, <4>1
        <4>2. CASE \E q \in InSeq(changes) : ask[q].kind = "remove_admin" /\ ask[q].group = h
          BY <2>3, <3>1, <4>2
        <4>. QED
          BY <2>1, <3>2, <4>1, <4>2
      <3>3. \E q \in Reqs : /\ ask'[q].kind = "create" /\ ask'[q].group = g
                            /\ at'[q] \in {"created", "undo", "error"}
        BY <2>1, <2>3
      <3>4. groups' = groups \cup {g} /\ UNCHANGED <<accounts, wasAdmin>>
        BY <2>1, <2>2
      <3>. HIDE DEF IInv, TypeOK, Progress, Fresh, Logged, ChangedByAdmins, ToldOnce
      <3>. QED
        BY <3>1, <3>2, <3>3, <3>4
    <2>. QED
      BY <2>5, <2>6, <2>7, <2>8, <2>9
  <1>2. CASE MakeCreatorAdmin(r)
    <2>1. /\ at[r] = "created" /\ ask[r].by \in accounts /\ at' \in [Reqs -> Places]
          /\ at'[r] \in {"ok", "undo"} /\ \A s \in Reqs \ {r} : at'[s] = at[s]
          /\ admins' = admins \cup {<<ask[r].by, ask[r].group>>}
          /\ wasAdmin' = wasAdmin \cup {<<ask[r].by, ask[r].group>>}
          /\ first' = first \cup {<<ask[r].by, ask[r].group>>}
          /\ UNCHANGED <<people, called, used, groups, members, ask, changes, told>>
      BY <1>2 DEF MakeCreatorAdmin, Creator, Calls, Goes
    <2>2. ask[r].by \in Users /\ ask[r].group \in groups
      BY <2>1 DEF Ask
    <2>3. TypeOK'
      BY <2>1, <2>2
    <2>4. Progress' /\ Logged' /\ ChangedByAdmins'
      <3>1. \A s \in InSeq(changes) \cup InSeq(told) : s # r /\ at'[s] = at[s]
        BY <1>0, <2>1
      <3>2. InSeq(changes)' = InSeq(changes) /\ InSeq(told)' = InSeq(told)
        BY <2>1 DEF InSeq
      <3>3. Progress'
        BY <2>1, <3>2
      <3>4. Logged'
        BY <2>1, <3>1, <3>2
      <3>5. ChangedByAdmins'
        BY <2>1, <3>2
      <3>. QED
        BY <3>3, <3>4, <3>5
    <2>5. Fresh'
      <3>1. \A s \in Reqs : at'[s] = "created" => s # r /\ ask[s].group # ask[r].group
        BY <2>1
      <3>2. wasAdmin' \subseteq Users \X used'
        BY <2>1, <2>2
      <3>. QED
        BY <2>1, <3>1, <3>2
    <2>6. ToldOnce'
      BY <1>0, <2>1
    <2>7. AdminlessHasCause'
      BY SMTT(30), <1>0, <2>1, <2>2
    <2>. QED
      BY <2>3, <2>4, <2>5, <2>6, <2>7
  <1>3. CASE UndoCreate(r)
    <2>1. /\ at[r] = "undo" /\ at' = [at EXCEPT ![r] = "error"]
          /\ (\A u \in Users : <<u, ask[r].group>> \notin written) /\ groups' = groups \ {ask[r].group}
          /\ admins' = {a \in admins : a[2] # ask[r].group}
          /\ members' = {m \in members : m[2] # ask[r].group}
          /\ UNCHANGED <<people, called, used, ask, history>>
      BY <1>3 DEF UndoCreate, Calls, Goes, Delete
    <2>2. TypeOK'
      BY <2>1
    <2>3. Progress' /\ Logged' /\ ChangedByAdmins'
      BY <1>0, <2>1
    <2>4. Fresh'
      BY <2>1
    <2>5. ToldOnce'
      BY <1>0, <2>1
    <2>6. AdminlessHasCause'
      BY <1>0, <2>1
    <2>. QED
      BY <2>2, <2>3, <2>4, <2>5, <2>6
  <1>. QED
    BY <1>1, <1>2, <1>3

(* The group goes, and its rows with it.                                    *)
LEMMA RemoveGroupStep ==
    ASSUME IInv, NEW r \in Reqs, RemoveGroup(r)
    PROVE  IInv'
  <1>. USE DEF IInv, TypeOK, Progress, Fresh, Logged, ChangedByAdmins, ToldOnce, AdminlessHasCause,
               tables, people, history, Places
  <1>0. InSeq(changes) \subseteq Reqs /\ InSeq(told) \subseteq Reqs
    BY InSeqTyped
  <1>1. /\ at[r] = "checked" /\ at' \in [Reqs -> Places]
        /\ at'[r] \in {"ok", "error"} /\ \A s \in Reqs \ {r} : at'[s] = at[s]
        /\ (\A u \in Users : <<u, ask[r].group>> \notin written) /\ groups' = groups \ {ask[r].group}
        /\ admins' = {a \in admins : a[2] # ask[r].group}
        /\ members' = {m \in members : m[2] # ask[r].group}
        /\ UNCHANGED <<people, called, used, ask, history>>
    BY DEF RemoveGroup, Calls, Goes, Delete
  <1>2. TypeOK'
    BY <1>1
  <1>3. Progress' /\ Logged' /\ ChangedByAdmins'
    <2>1. InSeq(changes)' = InSeq(changes) /\ InSeq(told)' = InSeq(told)
      BY <1>1 DEF InSeq
    <2>2. Progress'
      BY <1>1, <2>1
    <2>3. Logged' /\ ChangedByAdmins'
      BY <1>0, <1>1, <2>1
    <2>. QED
      BY <2>2, <2>3
  <1>7. \A s \in Reqs : at[s] = "created" => ask[s].group # ask[r].group
    <2>1. <<ask[r].by, ask[r].group>> \in wasAdmin /\ ask[r].by \in Users
      BY <1>1 DEF Ask
    <2>. QED
      BY <2>1
  <1>4. Fresh'
    BY <1>1, <1>7
  <1>5. ToldOnce'
    BY <1>0, <1>1
  <1>6. AdminlessHasCause'
    <2>1. /\ InSeq(changes)' = InSeq(changes)
          /\ \A s \in Reqs : at[s] \in {"created", "undo", "error"} => at'[s] = at[s]
      BY <1>1 DEF InSeq
    <2>2. \A g \in groups' : g \in groups /\ \A u \in Users : <<u, g>> \in admins => <<u, g>> \in admins'
      BY <1>1
    <2>3. ASSUME NEW g \in groups', \A u \in Users : <<u, g>> \notin admins'
          PROVE  \/ \E q \in Reqs : /\ ask[q].kind = "create" /\ ask[q].group = g
                                       /\ at'[q] \in {"created", "undo", "error"}
                 \/ \E q \in InSeq(changes) : ask[q].kind = "remove_admin" /\ ask[q].group = g
                 \/ \E u \in Users \ accounts : <<u, g>> \in wasAdmin
      BY <2>1, <2>2, <2>3
    <2>. QED
      BY <1>1, <2>1, <2>3
  <1>. QED
    BY <1>2, <1>3, <1>4, <1>5, <1>6

(* A change by somebody who was found to be an admin.                       *)
LEMMA ChangeStep ==
    ASSUME IInv, NEW r \in Reqs, NEW kind, Changes(r, kind), kind # "create",
           members' \subseteq accounts \X groups,
           admins' \subseteq accounts \X groups, wasAdmin \subseteq wasAdmin',
           wasAdmin' \subseteq wasAdmin \cup admins', admins' \subseteq wasAdmin',
           \A s \in Reqs, u \in Users : at[s] = "created" => <<u, ask[s].group>> \notin admins',
           (kind = "remove_admin" /\ admins' = admins \ {Row(r)}) \/ admins \subseteq admins'
    PROVE  IInv'
  <1>. USE DEF IInv, TypeOK, Progress, Fresh, Logged, ChangedByAdmins, ToldOnce, AdminlessHasCause,
               people, Places
  <1>0. InSeq(changes) \subseteq Reqs /\ InSeq(told) \subseteq Reqs
    BY InSeqTyped
  <1>1. /\ at[r] = "checked" /\ at' = [at EXCEPT ![r] = "changed"] /\ ask[r].kind = kind
        /\ UNCHANGED <<people, called, used, groups, ask, first, told>>
    BY DEF Changes, Calls, Goes
  <1>2. changes' \in Seq(Reqs) /\ InSeq(changes') = InSeq(changes) \cup {r}
    BY OneMore DEF Changes
  <1>3. /\ at'[r] = "changed" /\ \A s \in Reqs \ {r} : at'[s] = at[s]
        /\ InSeq(changes)' = InSeq(changes) \cup {r} /\ InSeq(told)' = InSeq(told)
    <2>1. InSeq(changes)' = InSeq(changes') /\ InSeq(told)' = InSeq(told)
      BY <1>1 DEF InSeq
    <2>. QED
      BY <1>1, <1>2, <2>1
  <1>4. TypeOK'
    BY <1>1, <1>2
  <1>5. Progress'
    BY <1>1, <1>3
  <1>6. Fresh'
    BY <1>1, <1>3
  <1>7. Logged' /\ ChangedByAdmins'
    BY <1>0, <1>1, <1>3
  <1>8. ToldOnce'
    BY <1>0, <1>1, <1>3
  <1>9. AdminlessHasCause'
    BY <1>0, <1>1, <1>3 DEF Row
  <1>. QED
    BY <1>4, <1>5, <1>6, <1>7, <1>8, <1>9

(* The event is taken by GroupActionsEventHandler.                          *)
LEMMA EmitStep ==
    ASSUME IInv, NEW r \in Reqs, Emit(r)
    PROVE  IInv'
  <1>. USE DEF IInv, TypeOK, Progress, Fresh, Logged, ChangedByAdmins, ToldOnce, AdminlessHasCause,
               tables, people, Places
  <1>0. InSeq(changes) \subseteq Reqs /\ InSeq(told) \subseteq Reqs
    BY InSeqTyped
  <1>1. /\ at[r] = "addressed" /\ at' = [at EXCEPT ![r] = "ok"]
        /\ told' = Append(told, r)
        /\ UNCHANGED <<people, called, used, groups, admins, members, ask, wasAdmin, first, changes>>
    BY DEF Emit, Goes
  <1>2. r \notin InSeq(told) /\ r \in InSeq(changes)
    BY <1>1
  <1>3. /\ told' \in Seq(Reqs) /\ InSeq(told') = InSeq(told) \cup {r}
        /\ \A i, j \in DOMAIN told' : told'[i] = told'[j] => i = j
    BY <1>1, <1>2, OneMore
  <1>4. /\ at'[r] = "ok" /\ \A s \in Reqs \ {r} : at'[s] = at[s]
        /\ InSeq(changes)' = InSeq(changes) /\ InSeq(told)' = InSeq(told) \cup {r}
    <2>1. InSeq(told)' = InSeq(told') /\ InSeq(changes)' = InSeq(changes)
      BY <1>1 DEF InSeq
    <2>. QED
      BY <1>1, <1>3, <2>1
  <1>5. TypeOK'
    BY <1>1, <1>3
  <1>6. Progress' /\ Fresh'
    BY <1>1, <1>4
  <1>7. Logged' /\ ChangedByAdmins'
    BY <1>0, <1>1, <1>2, <1>4
  <1>8. ToldOnce'
    BY <1>0, <1>1, <1>2, <1>3, <1>4
  <1>9. AdminlessHasCause'
    BY SMTT(30), <1>0, <1>1, <1>4
  <1>. QED
    BY <1>5, <1>6, <1>7, <1>8, <1>9

(* The changes one by one.                                                  *)
LEMMA RowsStep ==
    ASSUME IInv, NEW r \in Reqs,
           \/ AddUserToGroup(r) \/ RemoveUserFromGroup(r) \/ MakeUserAdmin(r) \/ RemoveUserFromAdmin(r)
    PROVE  IInv'
  <1>. USE DEF IInv, TypeOK
  <1>0. /\ ask[r].who \in Users /\ Row(r) = <<ask[r].who, ask[r].group>>
        /\ \A s \in Reqs, u \in Users :
              at[s] = "created" => <<u, ask[s].group>> \notin wasAdmin
    BY DEF Ask, Row, Fresh
  <1>1. CASE AddUserToGroup(r)
    <2>1. /\ Changes(r, "add_user") /\ admins' = admins /\ wasAdmin' = wasAdmin
          /\ members' \subseteq accounts \X groups
      BY <1>0, <1>1 DEF AddUserToGroup, CanInsert
    <2>. QED
      BY <1>0, <2>1, ChangeStep
  <1>2. CASE RemoveUserFromGroup(r)
    <2>1. /\ Changes(r, "remove_user") /\ admins' = admins /\ wasAdmin' = wasAdmin
          /\ members' \subseteq accounts \X groups
      BY <1>0, <1>2 DEF RemoveUserFromGroup
    <2>. QED
      BY <1>0, <2>1, ChangeStep
  <1>3. CASE MakeUserAdmin(r)
    <2>1. /\ Changes(r, "make_admin") /\ members' = members
          /\ admins' = admins \cup {Row(r)} /\ wasAdmin' = wasAdmin \cup {Row(r)}
          /\ Row(r) \in accounts \X groups /\ at[r] = "checked"
      BY <1>3 DEF MakeUserAdmin, CanInsert, Changes, Calls, Goes
    <2>2. <<ask[r].by, ask[r].group>> \in wasAdmin /\ ask[r].by \in Users
      BY <2>1 DEF Progress, Ask
    <2>3. \A s \in Reqs : at[s] = "created" => ask[s].group # ask[r].group
      BY <1>0, <2>2
    <2>. QED
      BY SMTT(30), <1>0, <2>1, <2>3, ChangeStep
  <1>4. CASE RemoveUserFromAdmin(r)
    <2>1. /\ Changes(r, "remove_admin") /\ members' = members
          /\ admins' = admins \ {Row(r)} /\ wasAdmin' = wasAdmin
      BY <1>4 DEF RemoveUserFromAdmin
    <2>. QED
      BY <1>0, <2>1, ChangeStep
  <1>. QED
    BY <1>1, <1>2, <1>3, <1>4

(* An account goes with its rows.  A group it leaves without an admin had it *)
(* as one.                                                                  *)
LEMMA RemoveAccountStep ==
    ASSUME IInv, NEW v \in Users, RemoveAccount(v)
    PROVE  IInv'
  <1>1. /\ accounts' = accounts \ {v} /\ v \in accounts
        /\ \A row : row \in admins' <=> row \in admins /\ row[1] # v
        /\ \A row : row \in members' <=> row \in members /\ row[1] # v
        /\ \A row : row \in written' <=> row \in written /\ row[1] # v
        /\ UNCHANGED <<used, groups, ask, at, called, wasAdmin, first, changes, told>>
    BY DEF RemoveAccount, OfOthers, history
  <1>2. InSeq(changes)' = InSeq(changes) /\ InSeq(told)' = InSeq(told)
    BY <1>1 DEF InSeq
  <1>3. TypeOK'
    BY <1>1 DEF IInv, TypeOK
  <1>4. Progress' /\ Fresh' /\ Logged' /\ ChangedByAdmins' /\ ToldOnce'
    BY <1>1, <1>2 DEF IInv, Progress, Fresh, Logged, ChangedByAdmins, ToldOnce
  <1>5. AdminlessHasCause'
    <2>. SUFFICES ASSUME NEW g \in groups, \A u \in Users : <<u, g>> \notin admins'
                  PROVE  \/ \E r \in Reqs : /\ ask[r].kind = "create" /\ ask[r].group = g
                                             /\ at[r] \in {"created", "undo", "error"}
                         \/ \E r \in InSeq(changes) : ask[r].kind = "remove_admin" /\ ask[r].group = g
                         \/ \E u \in Users \ accounts' : <<u, g>> \in wasAdmin
      BY <1>1, <1>2 DEF AdminlessHasCause
    <2>1. CASE <<v, g>> \in admins
      BY <1>1, <2>1 DEF IInv, TypeOK
    <2>2. CASE <<v, g>> \notin admins
      <3>1. \A u \in Users : <<u, g>> \notin admins
        BY <1>1, <2>2
      <3>. QED
        BY <1>1, <3>1 DEF IInv, AdminlessHasCause
    <2>. QED
      BY <2>1, <2>2
  <1>. QED
    BY <1>3, <1>4, <1>5 DEF IInv

(* Clients that hang up and messages that refer to a group.                 *)
LEMMA OutsideStep ==
    ASSUME IInv,
           \/ \E r \in Reqs : HangUp(r)
           \/ \E u \in Users, g \in GroupIds : SendMessage(u, g)
           \/ UNCHANGED vars
    PROVE  IInv'
  <1>. DEFINE Same == UNCHANGED <<accounts, used, groups, admins, members, ask, at, wasAdmin, first, changes, told>>
  <1>1. Same /\ written' \subseteq accounts \X groups /\ called' \subseteq Reqs
    <2>1. CASE \E r \in Reqs : HangUp(r)
      BY <2>1 DEF HangUp, tables, people, history, IInv, TypeOK
    <2>2. CASE \E u \in Users, g \in GroupIds : SendMessage(u, g)
      BY <2>2 DEF SendMessage, tables, history, IInv, TypeOK
    <2>3. CASE UNCHANGED vars
      BY <2>3 DEF vars, tables, people, history, IInv, TypeOK
    <2>. QED
      BY <2>1, <2>2, <2>3
  <1>2. InSeq(changes)' = InSeq(changes) /\ InSeq(told)' = InSeq(told)
    BY <1>1 DEF InSeq
  <1>4. TypeOK'
    BY <1>1 DEF IInv, TypeOK
  <1>5. Progress' /\ Fresh'
    BY <1>1, <1>2 DEF IInv, Progress, Fresh
  <1>6. AdminlessHasCause'
    BY <1>1, <1>2 DEF IInv, AdminlessHasCause
  <1>3. Logged' /\ ChangedByAdmins' /\ ToldOnce'
    BY <1>1, <1>2 DEF IInv, Logged, ChangedByAdmins, ToldOnce
  <1>. QED
    BY <1>3, <1>4, <1>5, <1>6 DEF IInv
-----------------------------------------------------------------------------
(* Why the tables are what the changes say: whoever is an admin without a   *)
(* change was made one when the group was, and nobody could change a group  *)
(* before it had an admin.                                                  *)
LastInv == LastChangeDecides

(* Nothing was changed in a group nobody has been an admin of.              *)
LEMMA ChangedHadAdmins ==
    ASSUME IInv, NEW g, \A u \in Users : <<u, g>> \notin wasAdmin
    PROVE  \A r \in InSeq(changes) : ask[r].group # g
  <1>1. \A r \in InSeq(changes) : <<ask[r].by, ask[r].group>> \in wasAdmin /\ ask[r].by \in Users
    BY InSeqTyped DEF IInv, TypeOK, Ask, ChangedByAdmins
  <1>. QED
    BY <1>1

(* Where no change is about a row, none is the last.                        *)
LEMMA NoneIsLast ==
    ASSUME NEW seq, NEW row, \A r \in InSeq(seq) : Row(r) # row, NEW kind, NEW other
    PROVE  ~LastIs(seq, kind, other, row)
  BY DEF LastIs, InSeq

(* What one more change makes the last.                                     *)
LEMMA OneMoreLast ==
    ASSUME NEW seq \in Seq(Reqs), NEW r \in Reqs, NEW row, NEW kind, NEW other, kind # other
    PROVE  LastIs(Append(seq, r), kind, other, row) <=>
              \/ Row(r) = row /\ ask[r].kind = kind
              \/ ~(Row(r) = row /\ ask[r].kind \in {kind, other}) /\ LastIs(seq, kind, other, row)
  <1>. DEFINE n == Len(seq) + 1
              more == Append(seq, r)
  <1>1. /\ DOMAIN more = DOMAIN seq \cup {n} /\ more[n] = r
        /\ \A i \in DOMAIN seq : more[i] = seq[i] /\ i \in Nat /\ i < n
        /\ n \in Nat
    OBVIOUS
  <1>. HIDE DEF n, more
  <1>2. CASE Row(r) = row /\ ask[r].kind = kind
    <2>1. \A j \in DOMAIN more : ~(j > n)
      BY <1>1
    <2>. QED
      BY <1>1, <1>2, <2>1 DEF LastIs, more
  <1>3. CASE Row(r) = row /\ ask[r].kind = other
    <2>1. ASSUME NEW i \in DOMAIN more, Row(more[i]) = row, ask[more[i]].kind = kind
          PROVE  i \in DOMAIN seq /\ n > i
      BY <1>1, <1>3, <2>1
    <2>2. ~LastIs(more, kind, other, row)
      BY <1>1, <1>3, <2>1 DEF LastIs
    <2>. QED
      BY <1>3, <2>2 DEF more
  <1>4. CASE ~(Row(r) = row /\ ask[r].kind \in {kind, other})
    <2>1. LastIs(more, kind, other, row) => LastIs(seq, kind, other, row)
      BY <1>1, <1>4 DEF LastIs
    <2>2. LastIs(seq, kind, other, row) => LastIs(more, kind, other, row)
      BY <1>1, <1>4 DEF LastIs
    <2>. QED
      BY <1>4, <2>1, <2>2 DEF more
  <1>. QED
    BY <1>2, <1>3, <1>4

(* Steps that commit no change and touch no row of a group that stays.      *)
LEMMA KeepsLast ==
    ASSUME IInv, LastInv, changes' = changes,
           \A r \in InSeq(changes) : ask'[r] = ask[r],
           UNCHANGED <<accounts, first>>, groups' \subseteq groups,
           \A row \in Users \X groups' :
              (row \in members' <=> row \in members) /\ (row \in admins' <=> row \in admins)
    PROVE  LastInv'
  <1>1. /\ \A i \in DOMAIN changes : Row(changes[i])' = Row(changes[i])
                                     /\ ask'[changes[i]].kind = ask[changes[i]].kind
        /\ InSeq(changes)' = InSeq(changes)
    BY DEF InSeq, Row
  <1>2. ASSUME NEW row, NEW kind, NEW other
        PROVE  LastIs(changes, kind, other, row)' <=> LastIs(changes, kind, other, row)
    BY <1>1 DEF LastIs
  <1>3. \A r \in InSeq(changes) : Row(r)' = Row(r) /\ ask'[r].kind = ask[r].kind
    BY DEF Row
  <1>. QED
    BY <1>1, <1>2, <1>3 DEF LastInv, LastChangeDecides

(* The steps that commit no change but the creation of a group.             *)
LEMMA OthersKeepLast ==
    ASSUME IInv, LastInv, NEW r \in Reqs,
           \/ Fail(r) \/ CreatorNotAdmin(r) \/ UndoCreate(r) \/ UndoFails(r)
           \/ CheckAdmin(r) \/ Rename(r) \/ RemoveGroup(r) \/ Address(r) \/ Emit(r)
    PROVE  LastInv'
  <1>. USE DEF tables, people, history
  <1>1. /\ UNCHANGED <<accounts, ask, changes, first>>
        /\ \/ UNCHANGED tables
           \/ Delete(ask[r].group)
    BY DEF Fail, CreatorNotAdmin, UndoCreate, UndoFails, CheckAdmin, Rename, RemoveGroup, Address, Emit,
           Calls, Goes
  <1>4. /\ groups' \subseteq groups
        /\ \A row \in Users \X groups' :
              (row \in members' <=> row \in members) /\ (row \in admins' <=> row \in admins)
    BY <1>1 DEF Delete
  <1>. QED
    BY <1>1, <1>4, KeepsLast

(* The new group has no members and no admins, and is in no change.         *)
LEMMA CreateKeepsLast ==
    ASSUME IInv, LastInv, NEW r \in Reqs, CreateGroup(r)
    PROVE  LastInv'
  <1>1. /\ at[r] = "start" /\ ask[r].kind = "create"
        /\ UNCHANGED <<accounts, admins, members, changes, first>>
    BY DEF CreateGroup, Calls, Goes, people, history
  <1>2. PICK g \in GroupIds \ used :
          groups' = groups \cup {g} /\ ask' = [ask EXCEPT ![r].group = g]
    BY DEF CreateGroup
  <1>3. InSeq(changes) \subseteq Reqs /\ r \notin InSeq(changes)
    BY <1>1, InSeqTyped DEF IInv, Logged
  <1>4. \A s \in Reqs \ {r} : ask'[s] = ask[s]
    BY <1>1, <1>2 DEF IInv, TypeOK
  <1>6. /\ \A i \in DOMAIN changes : Row(changes[i])' = Row(changes[i])
                                     /\ ask'[changes[i]].kind = ask[changes[i]].kind
        /\ InSeq(changes)' = InSeq(changes)
        /\ \A s \in InSeq(changes) : Row(s)' = Row(s) /\ ask'[s].kind = ask[s].kind
    BY <1>1, <1>3, <1>4 DEF InSeq, Row
  <1>7. ASSUME NEW row, NEW kind, NEW other
        PROVE  LastIs(changes, kind, other, row)' <=> LastIs(changes, kind, other, row)
    BY <1>1, <1>6 DEF LastIs
  <1>8. ASSUME NEW row \in Users \X groups PROVE row \in Users \X groups'
    BY <1>2
  <1>9. ASSUME NEW u \in Users, NEW kind, NEW other
        PROVE  ~LastIs(changes, kind, other, <<u, g>>)
    <2>1. \A v \in Users : <<v, g>> \notin wasAdmin
      BY <1>2 DEF IInv, Fresh
    <2>2. \A s \in InSeq(changes) : Row(s) # <<u, g>>
      BY <2>1, ChangedHadAdmins DEF Row
    <2>. QED
      BY <2>2, NoneIsLast
  <1>10. \A u \in Users : <<u, g>> \notin members /\ <<u, g>> \notin admins /\ <<u, g>> \notin first
    BY <1>2 DEF IInv, TypeOK, Fresh
  <1>11. LastChangeDecides'
    <2>. SUFFICES ASSUME NEW row \in Users \X groups'
                  PROVE  /\ row \in members <=>
                              row[1] \in accounts /\ LastIs(changes, "add_user", "remove_user", row)
                         /\ row \in admins <=>
                              /\ row[1] \in accounts
                              /\ \/ LastIs(changes, "make_admin", "remove_admin", row)
                                 \/ /\ row \in first
                                    /\ \A s \in InSeq(changes) : Row(s) = row => ask[s].kind # "remove_admin"
      BY <1>1, <1>6, <1>7 DEF LastChangeDecides
    <2>1. CASE row \in Users \X groups
      BY <2>1 DEF LastInv, LastChangeDecides
    <2>2. CASE row \notin Users \X groups
      <3>1. PICK u \in Users : row = <<u, g>>
        BY <1>2, <2>2
      <3>. QED
        BY <1>9, <1>10, <3>1
    <2>. QED
      BY <2>1, <2>2
  <1>. QED
    BY <1>11 DEF LastInv

(* The creator becomes the first admin, before any change of the group.     *)
LEMMA CreatorKeepsLast ==
    ASSUME IInv, LastInv, NEW r \in Reqs, MakeCreatorAdmin(r)
    PROVE  LastInv'
  <1>. DEFINE me == <<ask[r].by, ask[r].group>>
  <1>1. /\ at[r] = "created" /\ ask[r].kind = "create" /\ ask[r].by \in accounts
        /\ admins' = admins \cup {me} /\ first' = first \cup {me}
        /\ UNCHANGED <<accounts, groups, members, ask, changes>>
    BY DEF MakeCreatorAdmin, Creator, Calls, Goes, people, IInv, Progress
  <1>3. \A s \in InSeq(changes) : Row(s) # me
    <2>1. \A u \in Users : <<u, ask[r].group>> \notin wasAdmin
      BY <1>1 DEF IInv, Fresh
    <2>. QED
      BY <2>1, ChangedHadAdmins DEF Row
  <1>4. /\ InSeq(changes)' = InSeq(changes)
        /\ \A s : Row(s)' = Row(s)
    BY <1>1 DEF InSeq, Row
  <1>5. ASSUME NEW row, NEW kind, NEW other
        PROVE  LastIs(changes, kind, other, row)' <=> LastIs(changes, kind, other, row)
    BY <1>1, <1>4 DEF LastIs
  <1>6. ASSUME NEW row \in Users \X groups, row # me
        PROVE  /\ row \in members' <=> row \in members
               /\ row \in admins' <=> row \in admins
               /\ row \in first' <=> row \in first
    BY <1>1, <1>6
  <1>7. LastChangeDecides'
    BY <1>1, <1>3, <1>4, <1>5, <1>6 DEF LastChangeDecides, LastInv
  <1>. QED
    BY <1>7 DEF LastInv

(* A committed change of one row.                                           *)
LEMMA ChangeKeepsLast ==
    ASSUME IInv, LastInv, NEW r \in Reqs, UNCHANGED <<accounts, ask, groups, first>>,
           changes' = Append(changes, r),
           ask[r].kind \in {"add_user", "make_admin"} => Row(r)[1] \in accounts,
           \A row \in Users \X groups :
              /\ row \in members' <=>
                    \/ Row(r) = row /\ ask[r].kind = "add_user"
                    \/ ~(Row(r) = row /\ ask[r].kind \in {"add_user", "remove_user"}) /\ row \in members
              /\ row \in admins' <=>
                    \/ Row(r) = row /\ ask[r].kind = "make_admin"
                    \/ ~(Row(r) = row /\ ask[r].kind \in {"make_admin", "remove_admin"}) /\ row \in admins
    PROVE  LastInv'
  <1>1. /\ changes \in Seq(Reqs)
        /\ InSeq(changes') = InSeq(changes) \cup {r}
    BY OneMore DEF IInv, TypeOK
  <1>2. /\ InSeq(changes)' = InSeq(changes')
        /\ \A s : Row(s)' = Row(s)
    BY DEF InSeq, Row
  <1>3. ASSUME NEW row, NEW kind, NEW other
        PROVE  LastIs(changes, kind, other, row)' <=> LastIs(Append(changes, r), kind, other, row)
    BY <1>2 DEF LastIs
  <1>4. ASSUME NEW row \in Users \X groups
        PROVE  row \in members' <=>
                  row[1] \in accounts /\ LastIs(Append(changes, r), "add_user", "remove_user", row)
    <2>1. row \in members <=> row[1] \in accounts /\ LastIs(changes, "add_user", "remove_user", row)
      BY DEF LastInv, LastChangeDecides
    <2>2. LastIs(Append(changes, r), "add_user", "remove_user", row) <=>
            \/ Row(r) = row /\ ask[r].kind = "add_user"
            \/ /\ ~(Row(r) = row /\ ask[r].kind \in {"add_user", "remove_user"})
               /\ LastIs(changes, "add_user", "remove_user", row)
      BY <1>1, OneMoreLast
    <2>. QED
      BY <2>1, <2>2
  <1>5. ASSUME NEW row \in Users \X groups
        PROVE  row \in admins' <=>
                  /\ row[1] \in accounts
                  /\ \/ LastIs(Append(changes, r), "make_admin", "remove_admin", row)
                     \/ /\ row \in first
                        /\ \A s \in InSeq(changes') : Row(s) = row => ask[s].kind # "remove_admin"
    <2>1. row \in admins <=>
            /\ row[1] \in accounts
            /\ \/ LastIs(changes, "make_admin", "remove_admin", row)
               \/ /\ row \in first
                  /\ \A s \in InSeq(changes) : Row(s) = row => ask[s].kind # "remove_admin"
      BY DEF LastInv, LastChangeDecides
    <2>2. LastIs(Append(changes, r), "make_admin", "remove_admin", row) <=>
            \/ Row(r) = row /\ ask[r].kind = "make_admin"
            \/ /\ ~(Row(r) = row /\ ask[r].kind \in {"make_admin", "remove_admin"})
               /\ LastIs(changes, "make_admin", "remove_admin", row)
      BY <1>1, OneMoreLast
    <2>3. CASE Row(r) = row /\ ask[r].kind = "remove_admin"
      BY <1>1, <2>2, <2>3
    <2>4. CASE ~(Row(r) = row /\ ask[r].kind = "remove_admin")
      <3>1. (\A s \in InSeq(changes') : Row(s) = row => ask[s].kind # "remove_admin") <=>
            (\A s \in InSeq(changes) : Row(s) = row => ask[s].kind # "remove_admin")
        BY <1>1, <2>4
      <3>. QED
        BY <2>1, <2>2, <2>4, <3>1
    <2>. QED
      BY <2>3, <2>4
  <1>6. LastChangeDecides'
    BY <1>2, <1>3, <1>4, <1>5 DEF LastChangeDecides
  <1>. QED
    BY <1>6 DEF LastInv

(* The four changes: each makes its row what its kind says, and only that.  *)
LEMMA RowsKeepLast ==
    ASSUME IInv, LastInv, NEW r \in Reqs,
           \/ AddUserToGroup(r) \/ RemoveUserFromGroup(r) \/ MakeUserAdmin(r) \/ RemoveUserFromAdmin(r)
    PROVE  LastInv'
  <1>1. UNCHANGED <<accounts, ask, groups, first>> /\ changes' = Append(changes, r)
    BY DEF AddUserToGroup, RemoveUserFromGroup, MakeUserAdmin, RemoveUserFromAdmin, Changes, Calls, Goes, people
  <1>3. CASE AddUserToGroup(r)
    <2>1. /\ ask[r].kind = "add_user" /\ members' = members \cup {Row(r)} /\ admins' = admins
          /\ Row(r) \in accounts \X groups
      BY <1>3 DEF AddUserToGroup, CanInsert, Changes
    <2>. QED
      BY <1>1, <2>1, ChangeKeepsLast
  <1>4. CASE RemoveUserFromGroup(r)
    <2>1. ask[r].kind = "remove_user" /\ members' = members \ {Row(r)} /\ admins' = admins
      BY <1>4 DEF RemoveUserFromGroup, Changes
    <2>. QED
      BY <1>1, <2>1, ChangeKeepsLast
  <1>5. CASE MakeUserAdmin(r)
    <2>1. /\ ask[r].kind = "make_admin" /\ admins' = admins \cup {Row(r)} /\ members' = members
          /\ Row(r) \in accounts \X groups
      BY <1>5 DEF MakeUserAdmin, CanInsert, Changes
    <2>. QED
      BY <1>1, <2>1, ChangeKeepsLast
  <1>6. CASE RemoveUserFromAdmin(r)
    <2>1. ask[r].kind = "remove_admin" /\ admins' = admins \ {Row(r)} /\ members' = members
      BY <1>6 DEF RemoveUserFromAdmin, Changes
    <2>. QED
      BY <1>1, <2>1, ChangeKeepsLast
  <1>. QED
    BY <1>3, <1>4, <1>5, <1>6

(* Clients that hang up and messages that refer to a group.                 *)
LEMMA OutsideKeepsLast ==
    ASSUME IInv, LastInv,
           \/ \E r \in Reqs : HangUp(r)
           \/ \E u \in Users, g \in GroupIds : SendMessage(u, g)
           \/ UNCHANGED vars
    PROVE  LastInv'
  <1>1. UNCHANGED <<accounts, groups, admins, members, ask, first, changes>>
    BY DEF HangUp, SendMessage, vars, tables, people, history
  <1>. QED
    BY <1>1, KeepsLast

(* An account takes its own rows; those of the others are still decided by  *)
(* the last change.                                                         *)
LEMMA AccountKeepsLast ==
    ASSUME IInv, LastInv, NEW v \in Users, RemoveAccount(v)
    PROVE  LastInv'
  <1>1. /\ accounts' = accounts \ {v}
        /\ \A row : row \in admins' <=> row \in admins /\ row[1] # v
        /\ \A row : row \in members' <=> row \in members /\ row[1] # v
        /\ UNCHANGED <<groups, ask, first, changes>>
    BY DEF RemoveAccount, OfOthers, history
  <1>2. InSeq(changes)' = InSeq(changes) /\ \A s : Row(s)' = Row(s)
    BY <1>1 DEF InSeq, Row
  <1>3. ASSUME NEW row, NEW kind, NEW other
        PROVE  LastIs(changes, kind, other, row)' <=> LastIs(changes, kind, other, row)
    BY <1>1, <1>2 DEF LastIs
  <1>4. ASSUME NEW row \in Users \X groups
        PROVE  row[1] \in accounts' <=> row[1] \in accounts /\ row[1] # v
    BY <1>1
  <1>. QED
    BY <1>1, <1>2, <1>3, <1>4 DEF LastInv, LastChangeDecides

(* At the start the founder's groups have their first admin and no member.  *)
LEMMA InitLast == Init => LastInv
  <1>. SUFFICES ASSUME Init PROVE LastInv
    OBVIOUS
  <1>1. InSeq(changes) = {}
    BY DEF Init, InSeq
  <1>2. \A row, kind, other : ~LastIs(changes, kind, other, row)
    BY <1>1, NoneIsLast
  <1>3. ASSUME NEW row \in Users \X groups
        PROVE  row[1] \in accounts /\ row \notin members /\ (row \in admins <=> row \in first)
    BY <1>3 DEF Init
  <1>. QED
    BY <1>1, <1>2, <1>3 DEF LastInv, LastChangeDecides

-----------------------------------------------------------------------------
(* The inductive invariant behind the theorems below.                       *)
THEOREM Invariance == Spec => []IInv
  <1>1. IInv /\ [Next]_vars => IInv'
    BY QuietStep, CreateStep, RemoveGroupStep, EmitStep, RowsStep, RemoveAccountStep, OutsideStep
       DEF Next, Create, Change
  <1>. QED
    BY InitInvariant, <1>1, PTL DEF Spec

(* Rows of admins and members belong to groups that exist, also when the    *)
(* group goes between the check and the change of another request, or       *)
(* between the creation of a group and its first admin.                     *)
THEOREM TypeCorrect == Spec => []TypeOK
  BY Invariance, PTL DEF IInv

(* Whoever changes a group has been its admin.                              *)
THEOREM AdminsChange == Spec => []ChangedByAdmins
  BY Invariance, PTL DEF IInv

(* Every event tells of a change that was committed, and tells it once; a   *)
(* change nobody is told of was answered with an error, or is on its way.   *)
THEOREM TellsOnce == Spec => []ToldOnce
  BY Invariance, PTL DEF IInv

(* A group without admins is one whose creation did not come to its end,    *)
(* one from which somebody removed an admin, or one with an admin who has   *)
(* removed their account.                                                   *)
THEOREM AdminlessCaused == Spec => []AdminlessHasCause
  BY Invariance, PTL DEF IInv

(* The order in which changes were committed decides which of the accounts  *)
(* that are there are members and admins, whatever is checked, fails, is    *)
(* answered wrongly or deleted in between.                                  *)
THEOREM LastDecides == Spec => []LastChangeDecides
  <1>1. IInv /\ LastInv /\ [Next]_vars => LastInv'
    BY OthersKeepLast, CreateKeepsLast, CreatorKeepsLast, RowsKeepLast, AccountKeepsLast, OutsideKeepsLast
       DEF Next, Create, Change
  <1>2. LastInv => LastChangeDecides
    BY DEF LastInv
  <1>. QED
    BY Invariance, InitLast, <1>1, <1>2, PTL DEF Spec

(* Who is told of every change, in the order of the commits, knows the      *)
(* members by following the events, but for those who have removed their    *)
(* account since, of whom there is no event: it is the order of the events  *)
(* and the removal of accounts that make a following client wrong.          *)
THEOREM FollowedInOrder ==
    Spec => [](told = changes =>
                  \A row \in Users \X groups :
                      row \in members <=>
                          row[1] \in accounts /\ LastIs(told, "add_user", "remove_user", row))
  <1>1. LastChangeDecides =>
          (told = changes =>
              \A row \in Users \X groups :
                  row \in members <=>
                      row[1] \in accounts /\ LastIs(told, "add_user", "remove_user", row))
    BY DEF LastChangeDecides
  <1>. QED
    BY LastDecides, <1>1, PTL
=============================================================================
