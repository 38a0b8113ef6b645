---------------------------- MODULE AccountsProofs ----------------------------
(***************************************************************************)
(* What Accounts and its OTP service guarantee for any number of accounts,  *)
(* phone numbers, requests and restarts.                                    *)
(***************************************************************************)
EXTENDS Accounts, TLAPS

IInv == TypeOK /\ PassedOncePerEntry /\ SessionFollowsPassword

USE AccountsAssumption
-----------------------------------------------------------------------------
(* The OTP service alone                                                    *)

OtpInv == OtpTypeOK /\ PassedOncePerEntry

OtpStep == OtpNext \/ UNCHANGED otpVars

(* In whatever order its operations are called, the OTP service accepts one *)
(* check for an entry and no more.                                          *)
LEMMA OtpKeeps ==
    ASSUME OtpInv, OtpStep
    PROVE  OtpInv'
  <1>. USE DEF OtpInv, OtpTypeOK, PassedOncePerEntry
  <1>1. ASSUME NEW n \in Numbers, CreateVerification(n) \/ ApproveCode(n) \/ CodeLapses(n)
        PROVE  OtpInv'
    BY <1>1 DEF CreateVerification, ApproveCode, CodeLapses
  <1>2. ASSUME NEW n \in Numbers, SetEntry(n) PROVE OtpInv'
    BY <1>2 DEF SetEntry
  <1>3. ASSUME NEW n \in Numbers, AcceptApproved(n) PROVE OtpInv'
    BY <1>3 DEF AcceptApproved
  <1>4. ASSUME NEW n \in Numbers, DropEntry(n) \/ EntryExpires(n) PROVE OtpInv'
    BY <1>4 DEF DropEntry, EntryExpires
  <1>5. CASE CheckAndRemove \/ ForgetEntries
    BY <1>5 DEF CheckAndRemove, ForgetEntries
  <1>6. CASE UNCHANGED otpVars
    BY <1>6 DEF otpVars
  <1>. QED
    BY <1>1, <1>2, <1>3, <1>4, <1>5, <1>6 DEF OtpStep, OtpNext

(* The OTP service by itself, whoever calls it, accepts one check for an    *)
(* entry and no more.                                                       *)
THEOREM ServiceOncePerEntry == OtpSpec => []PassedOncePerEntry
  <1>1. OtpInit => OtpInv
    BY DEF OtpInit, OtpInv, OtpTypeOK, PassedOncePerEntry
  <1>2. OtpInv /\ [OtpNext]_otpVars => OtpInv'
    BY OtpKeeps DEF OtpStep
  <1>3. OtpInv => PassedOncePerEntry
    BY DEF OtpInv
  <1>. QED
    BY <1>1, <1>2, <1>3, PTL DEF OtpSpec
-----------------------------------------------------------------------------
(* The invariant holds of the first state.                                 *)
LEMMA InitInvariant == Init => IInv
  <1>. SUFFICES ASSUME Init PROVE IInv
    OBVIOUS
  <1>1. OtpTypeOK /\ PassedOncePerEntry
    BY DEF Init, OtpInit, OtpTypeOK, PassedOncePerEntry
  <1>2. TypeOK
    <2>1. \A r \in Reqs : ask[r].number \in Numbers /\ ask[r].user \in Users
      BY DEF Init, Ask
    <2>. QED
      BY <1>1, <2>1 DEF Init, TypeOK, Places
  <1>3. SessionFollowsPassword
    BY DEF Init, SessionFollowsPassword
  <1>. QED
    BY <1>1, <1>2, <1>3 DEF IInv

(* A step of request r that leaves accounts and sessions alone: its place   *)
(* changes, and if it had changed a password it is still known to have.     *)
Moves(r) ==
    /\ at' \in [Reqs -> Places]
    /\ \A s \in Reqs : at[s] \in {"changed", "left"} => at'[s] \in {"changed", "left"}
    /\ UNCHANGED <<users, sessions, ask>>

(* Such a step keeps everything if it keeps the types of what else it       *)
(* changes.                                                                 *)
LEMMA MoveKeeps ==
    ASSUME IInv, NEW r, Moves(r), OtpStep,
           about' \in [Reqs -> Numbers], target' \in [Reqs -> Users], seen' \in [Reqs -> Nat],
           renewed' \subseteq Reqs, token' \in [Users -> {"none", "fresh", "old"}],
           restarts' \in 0..MaxRestarts
    PROVE  IInv'
  <1>1. OtpInv'
    BY OtpKeeps DEF OtpInv, IInv, TypeOK
  <1>2. TypeOK'
    BY <1>1 DEF IInv, TypeOK, OtpInv, Moves, users, sessions
  <1>3. SessionFollowsPassword'
    BY DEF IInv, SessionFollowsPassword, Moves, users, sessions
  <1>. QED
    BY <1>1, <1>2, <1>3 DEF IInv, OtpInv

(* Goes moves one request, and one that had changed a password only from    *)
(* "changed" on.                                                            *)
LEMMA GoesMoves ==
    ASSUME TypeOK, NEW r \in Reqs, NEW from, NEW to \in Places, Goes(r, from, to),
           from \in {"changed", "left"} => to \in {"changed", "left"}
    PROVE  /\ at' \in [Reqs -> Places]
           /\ \A s \in Reqs : at[s] \in {"changed", "left"} => at'[s] \in {"changed", "left"}
           /\ UNCHANGED <<ask, restarts>>
  BY DEF TypeOK, Goes

(* Steps of a request that leave accounts and sessions alone.               *)
LEMMA QuietStep ==
    ASSUME IInv, NEW r \in Reqs,
           \/ Admit(r) \/ Begin(r) \/ AllowSend(r) \/ SendCode(r) \/ NoteCode(r)
           \/ CheckApproved(r) \/ Accept(r) \/ CheckFailed(r) \/ CheckExpired(r) \/ Drop(r)
           \/ CheckOther(r) \/ CheckFree(r) \/ Compare(r) \/ KeepSession(r) \/ FindNoSession(r)
           \/ Rename(r) \/ Fail(r)
    PROVE  IInv'
  <1>. USE DEF IInv, RestStays
  <1>0. /\ about \in [Reqs -> Numbers] /\ target \in [Reqs -> Users] /\ seen \in [Reqs -> Nat]
        /\ renewed \subseteq Reqs /\ token \in [Users -> {"none", "fresh", "old"}]
        /\ restarts \in 0..MaxRestarts /\ about[r] \in Numbers
        /\ ask[r].user \in Users
    BY DEF TypeOK, Ask
  <1>1. CASE Admit(r) \/ Begin(r)
    <2>1. /\ \E from, to \in Places : Goes(r, from, to) /\ from \notin {"changed", "left"}
          /\ UNCHANGED <<otpVars, users, sessions, token, target, seen>>
      BY <1>1 DEF Admit, Begin, Places
    <2>2. Moves(r) /\ UNCHANGED restarts
      BY <2>1, GoesMoves DEF Moves
    <2>3. renewed' \subseteq Reqs
      BY <1>0, <1>1 DEF Admit, Begin
    <2>4. about' \in [Reqs -> Numbers]
      BY <1>0, <1>1 DEF Admit, Begin, Exists, TypeOK
    <2>. QED
      BY <1>0, <2>1, <2>2, <2>3, <2>4, MoveKeeps DEF OtpStep, OtpNext
  <1>2. CASE AllowSend(r) \/ CheckFailed(r) \/ CheckExpired(r) \/ CheckOther(r) \/ CheckFree(r)
             \/ FindNoSession(r) \/ Fail(r)
    <2>1. \E from, to \in Places : /\ Goes(r, from, to)
                                   /\ from \in {"changed", "left"} => to \in {"changed", "left"}
      BY <1>2 DEF AllowSend, CheckFailed, CheckExpired, CheckOther, CheckFree, FindNoSession, Fail,
         Places, Ended, TypeOK
    <2>2. UNCHANGED otpVars /\ RestStays
      BY <1>2 DEF AllowSend, CheckFailed, CheckExpired, CheckOther, CheckFree, FindNoSession, Fail
    <2>3. Moves(r) /\ UNCHANGED restarts
      BY <2>1, <2>2, GoesMoves DEF Moves
    <2>. QED
      BY <1>0, <2>2, <2>3, MoveKeeps DEF OtpStep, OtpNext, reqVars
  <1>3. CASE SendCode(r) \/ NoteCode(r) \/ CheckApproved(r) \/ Accept(r) \/ Drop(r)
    <2>1. \E from, to \in Places : Goes(r, from, to) /\ from \notin {"changed", "left"}
      BY <1>3 DEF SendCode, NoteCode, CheckApproved, Accept, Drop, Places
    <2>2. OtpStep /\ RestStays
      BY <1>0, <1>3 DEF SendCode, NoteCode, CheckApproved, Accept, Drop, OtpStep, OtpNext
    <2>3. Moves(r) /\ UNCHANGED restarts
      BY <2>1, <2>2, GoesMoves DEF Moves
    <2>. QED
      BY <1>0, <2>2, <2>3, MoveKeeps DEF reqVars
  <1>4. CASE Compare(r)
    <2>1. Goes(r, "start", "compared") /\ UNCHANGED <<otpVars, users, sessions, token, about, renewed>>
      BY <1>4 DEF Compare
    <2>2. Moves(r) /\ UNCHANGED restarts
      BY <2>1, GoesMoves DEF Moves, Places
    <2>3. target' \in [Reqs -> Users] /\ seen' \in [Reqs -> Nat]
      BY <1>0, <1>4 DEF Compare, TypeOK
    <2>. QED
      BY <1>0, <2>1, <2>2, <2>3, MoveKeeps DEF OtpStep, OtpNext
  <1>5. CASE KeepSession(r) \/ Rename(r)
    <2>1. \E from, to \in Places : Goes(r, from, to) /\ from \notin {"changed", "left"}
      BY <1>5 DEF KeepSession, Rename, Places
    <2>2. UNCHANGED <<otpVars, users, sessions, reqVars>>
      BY <1>5 DEF KeepSession, Rename
    <2>3. token' \in [Users -> {"none", "fresh", "old"}]
      BY <1>0, <1>5 DEF KeepSession, Rename, HandsOut
    <2>4. Moves(r) /\ UNCHANGED restarts
      BY <2>1, <2>2, GoesMoves DEF Moves
    <2>. QED
      BY <1>0, <2>2, <2>3, <2>4, MoveKeeps DEF OtpStep, OtpNext, reqVars
  <1>. QED
    BY <1>1, <1>2, <1>3, <1>4, <1>5
-----------------------------------------------------------------------------
(* Steps that change accounts or sessions                                   *)

(* Registration and change of number leave sessions alone.                  *)
LEMMA NumberStep ==
    ASSUME IInv, NEW r \in Reqs, CreateUser(r) \/ ChangeNumber(r)
    PROVE  IInv'
  <1>. USE DEF IInv
  <1>1. about[r] \in Numbers /\ ask[r].user \in Users
    BY DEF TypeOK, Ask
  <1>2. \E u \in Users, n \in Numbers :
            /\ number' \in {number, [number EXCEPT ![u] = n]}
            /\ \A v \in Users \ {u} : number[v] # n
            /\ number[u] # "gone"
            \/ UNCHANGED number
    BY <1>1 DEF CreateUser, ChangeNumber, Taken, Exists
  <1>3. /\ UNCHANGED <<otpVars, version, sessions, token, reqVars, ask, restarts>>
        /\ at' \in [Reqs -> Places]
        /\ \A s \in Reqs : at[s] \in {"changed", "left"} => at'[s] \in {"changed", "left"}
    BY GoesMoves DEF CreateUser, ChangeNumber, Goes, Places
  <1>4. OtpInv'
    BY <1>3, OtpKeeps DEF OtpInv, OtpStep, OtpNext, TypeOK
  <1>5. TypeOK'
    BY <1>2, <1>3, <1>4 DEF TypeOK, OtpInv, sessions, reqVars
  <1>6. SessionFollowsPassword'
    BY <1>3 DEF SessionFollowsPassword, sessions
  <1>. QED
    BY <1>4, <1>5, <1>6 DEF OtpInv

(* A new password leaves a session that does not follow it, as long as the  *)
(* request has not removed the session.                                     *)
LEMMA PasswordStep ==
    ASSUME IInv, NEW r \in Reqs, ChangePassword(r)
    PROVE  IInv'
  <1>. USE DEF IInv
  <1>1. ask[r].user \in Users
    BY DEF TypeOK, Ask
  <1>2. /\ UNCHANGED <<otpVars, number, sessions, token, reqVars, ask, restarts>>
        /\ at' \in [Reqs -> Places] /\ at'[r] = "changed" /\ ask[r].kind = "password"
        /\ \A s \in Reqs : at[s] \in {"changed", "left"} => at'[s] \in {"changed", "left"}
    BY DEF ChangePassword, Goes, Places, TypeOK
  <1>3. version' \in [Users -> Nat] /\ \A u \in Users \ {ask[r].user} : version'[u] = version[u]
    BY <1>1 DEF ChangePassword, TypeOK
  <1>4. OtpInv'
    BY <1>2, OtpKeeps DEF OtpInv, OtpStep, OtpNext, TypeOK
  <1>5. TypeOK'
    BY <1>2, <1>3, <1>4 DEF TypeOK, OtpInv, sessions, reqVars
  <1>6. SessionFollowsPassword'
    BY <1>1, <1>2, <1>3 DEF SessionFollowsPassword, sessions
  <1>. QED
    BY <1>4, <1>5, <1>6 DEF OtpInv

(* A session that begins follows the password its login saw, or is late.    *)
LEMMA SessionStep ==
    ASSUME IInv, NEW r \in Reqs, CreateSession(r)
    PROVE  IInv'
  <1>. USE DEF IInv
  <1>1. /\ target[r] \in Users /\ seen[r] \in Nat /\ number[target[r]] \in Numbers
        /\ session' = [session EXCEPT ![target[r]] = "live"]
        /\ born' = [born EXCEPT ![target[r]] = seen[r]]
        /\ late' = IF seen[r] # version[target[r]] THEN late \cup {target[r]} ELSE late \ {target[r]}
        /\ token' = [token EXCEPT ![target[r]] = "fresh"]
    BY DEF CreateSession, Exists, TypeOK, HandsOut
  <1>2. /\ UNCHANGED <<otpVars, users, reqVars, ask, restarts>>
        /\ at' \in [Reqs -> Places]
        /\ \A s \in Reqs : at[s] \in {"changed", "left"} => at'[s] \in {"changed", "left"}
    BY DEF CreateSession, Goes, Places, TypeOK
  <1>4. OtpInv'
    BY <1>2, OtpKeeps DEF OtpInv, OtpStep, OtpNext, TypeOK
  <1>5. TypeOK'
    BY <1>1, <1>2, <1>4 DEF TypeOK, OtpInv, users, reqVars
  <1>6. SessionFollowsPassword'
    BY <1>1, <1>2 DEF SessionFollowsPassword, users, TypeOK
  <1>. QED
    BY <1>4, <1>5, <1>6 DEF OtpInv

(* The request that removes a session, or the account with it, leaves none  *)
(* behind.                                                                  *)
LEMMA RemoveStep ==
    ASSUME IInv, NEW r \in Reqs, RemoveSession(r) \/ RemoveUser(r)
    PROVE  IInv'
  <1>. USE DEF IInv
  <1>1. /\ ask[r].user \in Users
        /\ session' = [session EXCEPT ![ask[r].user] = "none"]
        /\ UNCHANGED <<otpVars, version, born, late, about, target, seen, ask, restarts>>
        /\ token' \in [Users -> {"none", "fresh", "old"}] /\ renewed' \subseteq Reqs
    BY DEF RemoveSession, RemoveUser, TypeOK, Ask, Goes, HandsOut, reqVars, users
  <1>2. number' = number \/ number' = [number EXCEPT ![ask[r].user] = "gone"]
    BY DEF RemoveSession, RemoveUser, users
  <1>3. at' \in [Reqs -> Places] /\ \A s \in Reqs \ {r} : at'[s] = at[s]
    BY DEF RemoveSession, RemoveUser, Goes, Places, TypeOK
  <1>4. OtpInv'
    BY <1>1, OtpKeeps DEF OtpInv, OtpStep, OtpNext, TypeOK
  <1>5. TypeOK'
    BY <1>1, <1>2, <1>3, <1>4 DEF TypeOK, OtpInv
  <1>6. SessionFollowsPassword'
    BY <1>1, <1>3 DEF SessionFollowsPassword, TypeOK
  <1>. QED
    BY <1>4, <1>5, <1>6 DEF OtpInv

(* Time passes, the monitor looks at the entries, the process restarts.     *)
LEMMA OtherStep ==
    ASSUME IInv,
           \/ \E u \in Users : SessionExpires(u) \/ TokenExpires(u)
           \/ \E n \in Numbers : OtpClock(n)
           \/ Monitor \/ Restart \/ UNCHANGED vars
    PROVE  IInv'
  <1>. USE DEF IInv, ClockKeeps, RestStays
  <1>1. CASE \E u \in Users : SessionExpires(u)
    <2>1. OtpInv'
      BY <1>1, OtpKeeps DEF SessionExpires, OtpInv, OtpStep, OtpNext, TypeOK
    <2>2. TypeOK'
      BY <1>1, <2>1 DEF SessionExpires, TypeOK, OtpInv, users, reqVars
    <2>3. SessionFollowsPassword'
      BY <1>1 DEF SessionExpires, SessionFollowsPassword, users, TypeOK
    <2>. QED
      BY <2>1, <2>2, <2>3 DEF OtpInv
  <1>2. ASSUME NEW r, \/ \E u \in Users : TokenExpires(u)
                      \/ \E n \in Numbers : OtpClock(n)
                      \/ Monitor \/ UNCHANGED vars
        PROVE  IInv'
    <2>1. OtpStep /\ Moves(r)
      BY <1>2 DEF TokenExpires, OtpClock, Monitor, OtpStep, OtpNext, Moves, vars, sessions, TypeOK
    <2>2. token' \in [Users -> {"none", "fresh", "old"}]
      BY <1>2 DEF TokenExpires, OtpClock, Monitor, vars, TypeOK
    <2>3. UNCHANGED <<reqVars, restarts>>
      BY <1>2 DEF TokenExpires, OtpClock, Monitor, vars
    <2>. QED
      BY <2>1, <2>2, <2>3, MoveKeeps DEF TypeOK, reqVars
  <1>3. CASE Restart
    <2>1. restarts' \in 0..MaxRestarts /\ UNCHANGED <<reqVars, token>> /\ OtpStep
      BY <1>3 DEF Restart, OtpStep, OtpNext, TypeOK
    <2>2. ASSUME NEW r PROVE Moves(r)
      BY <1>3 DEF Restart, Moves, Places, Ended, TypeOK
    <2>. QED
      BY <2>1, <2>2, MoveKeeps DEF TypeOK, reqVars
  <1>. QED
    BY <1>1, <1>2, <1>3

(* The inductive invariant behind the theorems below.                       *)
THEOREM Invariance == Spec => []IInv
  <1>1. IInv /\ [Next]_vars => IInv'
    BY QuietStep, NumberStep, PasswordStep, SessionStep, RemoveStep, OtherStep DEF Next, Serve
  <1>. QED
    BY InitInvariant, <1>1, PTL DEF Spec

(* Every variable keeps its type, and a session belongs to an account that  *)
(* exists.                                                                  *)
THEOREM TypeCorrect == Spec => []TypeOK
  BY Invariance, PTL DEF IInv

(* An entry of the OTP cache lets one check through, whatever is sent,      *)
(* checked, dropped or forgotten in between.                                *)
THEOREM OncePerEntry == Spec => []PassedOncePerEntry
  BY Invariance, PTL DEF IInv

(* A session that does not follow the account's password is the work of a   *)
(* late login or of a change that has not removed it.                       *)
THEOREM SessionsFollow == Spec => []SessionFollowsPassword
  BY Invariance, PTL DEF IInv
-----------------------------------------------------------------------------
(* What the handlers do to codes and entries                                *)

LEMMA EveryOtpStep ==
    ASSUME TypeOK, [Next]_vars
    PROVE  [OtpNext]_otpVars
  <1>1. ASSUME NEW r \in Reqs, Serve(r) PROVE [OtpNext]_otpVars
    <2>1. about[r] \in Numbers
      BY DEF TypeOK
    <2>2. CASE SendCode(r) \/ NoteCode(r) \/ CheckApproved(r) \/ Accept(r) \/ Drop(r)
      BY <2>1, <2>2 DEF SendCode, NoteCode, CheckApproved, Accept, Drop, OtpNext
    <2>3. CASE \/ Admit(r) \/ Begin(r) \/ AllowSend(r) \/ CheckFailed(r) \/ CheckExpired(r)
               \/ CheckOther(r) \/ CheckFree(r) \/ Fail(r)
      BY <2>3 DEF Admit, Begin, AllowSend, CheckFailed, CheckExpired, CheckOther, CheckFree, Fail
    <2>4. CASE \/ CreateUser(r) \/ Compare(r) \/ KeepSession(r) \/ FindNoSession(r)
               \/ CreateSession(r) \/ ChangeNumber(r) \/ ChangePassword(r)
               \/ RemoveSession(r) \/ Rename(r) \/ RemoveUser(r)
      BY <2>4 DEF CreateUser, Compare, KeepSession, FindNoSession, CreateSession, ChangeNumber,
         ChangePassword, RemoveSession, Rename, RemoveUser
    <2>. QED
      BY <1>1, <2>2, <2>3, <2>4 DEF Serve
  <1>2. CASE \E n \in Numbers : OtpClock(n)
    BY <1>2 DEF OtpClock, OtpNext
  <1>3. CASE Monitor \/ Restart
    BY <1>3 DEF Monitor, Restart, OtpNext
  <1>4. CASE (\E u \in Users : SessionExpires(u) \/ TokenExpires(u)) \/ UNCHANGED vars
    BY <1>4 DEF SessionExpires, TokenExpires, vars
  <1>. QED
    BY <1>1, <1>2, <1>3, <1>4 DEF Next

(* What requests, clocks, the monitor and restarts do to codes and entries  *)
(* is what the OTP service allows, and nothing else touches them.           *)
THEOREM OtpServiceUsed == Spec => UsesOtpService
  <1>1. Init => OtpInit
    BY DEF Init
  <1>2. TypeOK /\ [Next]_vars => [OtpNext]_otpVars
    BY EveryOtpStep
  <1>. QED
    BY <1>1, <1>2, TypeCorrect, PTL DEF Spec, OtpSpec, UsesOtpService
-----------------------------------------------------------------------------
(* What happens to accounts                                                 *)

EndsForGood ==
    \A u \in Users :
        /\ number[u] = "gone" => number'[u] = "gone" /\ session'[u] = "none"
        /\ number'[u] = "new" => number[u] = "new"

LEMMA EveryAccountStep ==
    ASSUME TypeOK, [Next]_vars
    PROVE  EndsForGood
  <1>0. /\ \A u \in Users : number[u] = "gone" => session[u] = "none"
        /\ \A r \in Reqs : about[r] \in Numbers /\ target[r] \in Users /\ ask[r].user \in Users
        /\ number \in [Users -> Numbers \cup {"new", "gone"}]
        /\ session \in [Users -> {"none", "live", "expired"}]
    BY DEF TypeOK, Ask
  <1>1. CASE UNCHANGED <<number, session>>
    BY <1>0, <1>1 DEF EndsForGood
  <1>2. ASSUME NEW r \in Reqs, CreateUser(r) \/ ChangeNumber(r) PROVE EndsForGood
    BY <1>0, <1>2 DEF CreateUser, ChangeNumber, Exists, sessions, EndsForGood
  <1>3. ASSUME NEW r \in Reqs, CreateSession(r) PROVE EndsForGood
    BY <1>0, <1>3 DEF CreateSession, Exists, users, EndsForGood
  <1>4. ASSUME NEW r \in Reqs, RemoveSession(r) \/ RemoveUser(r) PROVE EndsForGood
    BY <1>0, <1>4 DEF RemoveSession, RemoveUser, Exists, users, EndsForGood
  <1>5. ASSUME NEW u \in Users, SessionExpires(u) PROVE EndsForGood
    BY <1>0, <1>5 DEF SessionExpires, ClockKeeps, users, EndsForGood
  <1>6. ASSUME NEW r \in Reqs, Serve(r) PROVE EndsForGood
    <2>1. CASE \/ Admit(r) \/ Begin(r) \/ AllowSend(r) \/ SendCode(r) \/ NoteCode(r) \/ CheckApproved(r)
               \/ Accept(r) \/ CheckFailed(r) \/ CheckExpired(r) \/ Drop(r) \/ CheckOther(r)
               \/ CheckFree(r) \/ Fail(r)
      BY <1>1, <2>1 DEF Admit, Begin, AllowSend, SendCode, NoteCode, CheckApproved, Accept, CheckFailed,
         CheckExpired, Drop, CheckOther, CheckFree, Fail, RestStays, users, sessions
    <2>2. CASE Compare(r) \/ KeepSession(r) \/ FindNoSession(r) \/ ChangePassword(r) \/ Rename(r)
      BY <1>1, <2>2 DEF Compare, KeepSession, FindNoSession, ChangePassword, Rename, RestStays,
         users, sessions
    <2>. QED
      BY <1>2, <1>3, <1>4, <1>6, <2>1, <2>2 DEF Serve
  <1>7. CASE \/ \E u \in Users : TokenExpires(u)
             \/ \E n \in Numbers : OtpClock(n)
             \/ Monitor \/ Restart \/ UNCHANGED vars
    BY <1>1, <1>7 DEF TokenExpires, OtpClock, Monitor, Restart, ClockKeeps, RestStays, users,
       sessions, vars
  <1>. QED
    BY <1>5, <1>6, <1>7 DEF Next

(* No login, registration, change or restart that was under way when an     *)
(* account was removed brings it or a session of it back.                   *)
THEOREM RemovedForGood == Spec => GoneForGood
  <1>1. TypeOK /\ [Next]_vars => [EndsForGood]_vars
    BY EveryAccountStep
  <1>. QED
    BY <1>1, TypeCorrect, PTL DEF Spec, GoneForGood, EndsForGood
=============================================================================
