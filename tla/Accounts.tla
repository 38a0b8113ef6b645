------------------------------- MODULE Accounts -------------------------------
(***************************************************************************)
(* Accounts, passwords and sessions: the handlers of                        *)
(* controllers/authentication.controller.go and user.controller.go with the *)
(* statements they run on users and refresh_token, the OTP service they     *)
(* call, and the middleware in front of them.  A session is the row of      *)
(* refresh_token that renews access tokens.  Between any two statements     *)
(* other requests run, and the process may restart.                         *)
(***************************************************************************)
EXTENDS OtpService

CONSTANTS
    Reqs,           \* requests
    Users,          \* ids of accounts
    Asked,          \* what requests ask for
    Registered,     \* accounts there are at the start, with their numbers
    MaxRestarts     \* bound: restarts of the process

Authenticated == {"resend", "phone", "password", "rename", "remove"}

(* user: whose access token comes with the request; number: the number the  *)
(* request names.                                                           *)
Ask == [kind : {"send", "register", "login"} \cup Authenticated, user : Users, number : Numbers]

ASSUME AccountsAssumption ==
    /\ "new" \notin Numbers /\ "gone" \notin Numbers
    /\ Asked \subseteq Ask
    /\ Registered \in [Users -> Numbers \cup {"new"}]
    /\ \A u, v \in Users : Registered[u] = Registered[v] => (u = v \/ Registered[u] = "new")
    /\ MaxRestarts \in Nat

VARIABLES
    number,     \* table users: account -> its number; "new" before, "gone" after
    version,    \* table users: account -> how often its password was changed
    session,    \* table refresh_token: account -> none, live or expired
    token,      \* newest access token its clients hold: none, fresh or old
    ask, at,    \* request -> what it asks for, and its place
    about,      \* request -> number it verifies or sends to
    target,     \* login -> the account it found
    seen,       \* login -> version of the password it compared with
    renewed,    \* requests the middleware has made a new access token for
    restarts,
    born,       \* history: account -> version that the login of its session saw
    late        \* history: accounts whose session was late: its login had seen
                \* a password that was changed before the session was stored

users == <<number, version>>
sessions == <<session, born, late>>
reqVars == <<about, target, seen, renewed>>
vars == <<otpVars, users, sessions, token, ask, at, reqVars, restarts>>

Places == {"start", "admitted", "begun", "allowed", "created", "approved", "drop", "verified", "free",
           "compared", "lacks", "changed", "left", "ok", "error"}
Ended == {"ok", "error", "left"}

(* Types; sessions belong to accounts.                                      *)
TypeOK ==
    /\ OtpTypeOK
    /\ number \in [Users -> Numbers \cup {"new", "gone"}]
    /\ version \in [Users -> Nat]
    /\ session \in [Users -> {"none", "live", "expired"}]
    /\ token \in [Users -> {"none", "fresh", "old"}]
    /\ ask \in [Reqs -> Asked]
    /\ at \in [Reqs -> Places]
    /\ about \in [Reqs -> Numbers]
    /\ target \in [Reqs -> Users]
    /\ seen \in [Reqs -> Nat]
    /\ renewed \subseteq Reqs
    /\ restarts \in 0..MaxRestarts
    /\ born \in [Users -> Nat]
    /\ late \subseteq Users
    /\ \A u \in Users : session[u] # "none" => number[u] \in Numbers

Init ==
    /\ OtpInit
    /\ number = Registered
    /\ version = [u \in Users |-> 0]
    /\ session \in [Users -> {"none", "live"}]
    /\ token \in [Users -> {"none", "fresh"}]
    /\ \A u \in Users : number[u] = "new" => session[u] = "none" /\ token[u] = "none"
    /\ ask \in [Reqs -> Asked]
    /\ at = [r \in Reqs |-> "start"]
    /\ about = [r \in Reqs |-> ask[r].number]
    /\ target = [r \in Reqs |-> ask[r].user]
    /\ seen = [r \in Reqs |-> 0]
    /\ renewed = {}
    /\ restarts = 0
    /\ born = [u \in Users |-> 0]
    /\ late = {}
-----------------------------------------------------------------------------
Goes(r, from, to) ==
    /\ at[r] = from
    /\ at' = [at EXCEPT ![r] = to]
    /\ UNCHANGED <<ask, restarts>>

Exists(u) == number[u] \in Numbers
Taken(n) == \E u \in Users : number[u] = n

(* The middleware ValidateJWT: an access token that has not expired, or one *)
(* that has and a session that has not; then the handler is given a new one *)
(* for its answer.  The handler's statements come later.                    *)
Admit(r) ==
    LET u == ask[r].user
    IN  /\ ask[r].kind \in Authenticated
        /\ Goes(r, "start", "admitted")
        /\ \/ token[u] = "fresh" /\ UNCHANGED renewed
           \/ token[u] = "old" /\ session[u] = "live" /\ renewed' = renewed \cup {r}
        /\ UNCHANGED <<otpVars, users, sessions, token, about, target, seen>>

HandsOut(u) == token' = [token EXCEPT ![u] = "fresh"]

(* The number a code is sent to or checked for: the account's own, read     *)
(* here, or the one in the request.                                         *)
Begin(r) ==
    LET q == ask[r]
    IN  /\ q.kind \in {"send", "resend", "register", "phone", "password"}
        /\ Goes(r, IF q.kind \in Authenticated THEN "admitted" ELSE "start", "begun")
        /\ IF q.kind \in {"resend", "password"}
           THEN Exists(q.user) /\ about' = [about EXCEPT ![r] = number[q.user]]
           ELSE UNCHANGED about
        /\ UNCHANGED <<otpVars, users, sessions, token, target, seen, renewed>>

RestStays == UNCHANGED <<users, sessions, token, reqVars>>

(* HandleSendOTP, HandleSendOTPTORegisteredPhonenumber                      *)

AllowSend(r) ==
    /\ Goes(r, "begun", "allowed")
    /\ ask[r].kind \in {"send", "resend"}
    /\ IsResendAllowed(about[r])
    /\ UNCHANGED otpVars /\ RestStays

SendCode(r) == Goes(r, "allowed", "created") /\ CreateVerification(about[r]) /\ RestStays

NoteCode(r) == Goes(r, "created", "ok") /\ SetEntry(about[r]) /\ RestStays
-----------------------------------------------------------------------------
(* VerifyOTP in HandleRegisterUser, UpdatePhonenumber and UpdatePassword    *)

Verifies(r) == ask[r].kind \in {"register", "phone", "password"}

CheckApproved(r) ==
    /\ Verifies(r)
    /\ Goes(r, "begun", "approved")
    /\ ApproveCode(about[r])
    /\ RestStays

(* Without an entry, remove fails and so does the request (see Fail).       *)
Accept(r) == Goes(r, "approved", "verified") /\ AcceptApproved(about[r]) /\ RestStays

(* Status failed: the entry is looked at here and removed, if it has        *)
(* expired, in a step of its own.                                           *)
CheckFailed(r) ==
    /\ Verifies(r)
    /\ Goes(r, "begun", IF entry[about[r]] = "stale" THEN "drop" ELSE "error")
    /\ UNCHANGED otpVars /\ RestStays

CheckExpired(r) ==
    /\ Verifies(r) /\ code[about[r]] = "none"
    /\ Goes(r, "begun", "drop")
    /\ UNCHANGED otpVars /\ RestStays

Drop(r) == Goes(r, "drop", "error") /\ DropEntry(about[r]) /\ RestStays

(* Any other status: the switch has no further case.                        *)
CheckOther(r) ==
    /\ Verifies(r) /\ code[about[r]] = "pending"
    /\ Goes(r, "begun", "verified")
    /\ UNCHANGED otpVars /\ RestStays
-----------------------------------------------------------------------------
(* HandleRegisterUser.  A number for which DoesUserExist finds no row, or   *)
(* fails, is taken to be free.                                              *)
CheckFree(r) ==
    /\ ask[r].kind = "register"
    /\ Goes(r, "verified", "free")
    /\ UNCHANGED otpVars /\ RestStays

CreateUser(r) ==
    /\ Goes(r, "free", "ok")
    /\ ~Taken(about[r])
    /\ \E u \in Users : number[u] = "new" /\ number' = [number EXCEPT ![u] = about[r]]
    /\ UNCHANGED <<otpVars, version, sessions, token, reqVars>>

(* HandleLoginUser, with the account's password.                            *)
Compare(r) ==
    /\ ask[r].kind = "login"
    /\ Goes(r, "start", "compared")
    /\ \E u \in Users :
        /\ number[u] = ask[r].number
        /\ target' = [target EXCEPT ![r] = u]
        /\ seen' = [seen EXCEPT ![r] = version[u]]
    /\ UNCHANGED <<otpVars, users, sessions, token, about, renewed>>

(* There is a session, whether it has expired or not: only one that expires *)
(* at this very instant would be replaced.                                  *)
KeepSession(r) ==
    /\ Goes(r, "compared", "ok")
    /\ session[target[r]] # "none"
    /\ HandsOut(target[r])
    /\ UNCHANGED <<otpVars, users, sessions, reqVars>>

(* There is none, or the query failed.                                      *)
FindNoSession(r) ==
    /\ Goes(r, "compared", "lacks")
    /\ UNCHANGED otpVars /\ RestStays

(* CreateRefreshToken: one row for an account, and none without one.        *)
CreateSession(r) ==
    LET u == target[r]
    IN  /\ Goes(r, "lacks", "ok")
        /\ session[u] = "none" /\ Exists(u)
        /\ session' = [session EXCEPT ![u] = "live"]
        /\ born' = [born EXCEPT ![u] = seen[r]]
        /\ late' = IF seen[r] # version[u] THEN late \cup {u} ELSE late \ {u}
        /\ HandsOut(u)
        /\ UNCHANGED <<otpVars, users, reqVars>>
-----------------------------------------------------------------------------
(* UpdatePhonenumber and UpdatePassword                                     *)

(* Mutant of ChangeNumber: the row is written whether it is there or not.   *)
ChangeNumberOrInsert(r) ==
    LET u == ask[r].user
    IN  /\ ask[r].kind = "phone"
        /\ Goes(r, "verified", "changed")
        /\ \A v \in Users \ {u} : number[v] # about[r]
        /\ number' = [number EXCEPT ![u] = about[r]]
        /\ UNCHANGED <<otpVars, version, sessions, token, reqVars>>

(* An UPDATE of an account that is gone changes no row, and is no error.    *)
ChangeNumber(r) ==
    LET u == ask[r].user
    IN  /\ ask[r].kind = "phone"
        /\ Goes(r, "verified", "changed")
        /\ IF Exists(u)
           THEN /\ \A v \in Users \ {u} : number[v] # about[r]
                /\ number' = [number EXCEPT ![u] = about[r]]
           ELSE UNCHANGED number
        /\ UNCHANGED <<otpVars, version, sessions, token, reqVars>>

ChangePassword(r) ==
    LET u == ask[r].user
    IN  /\ ask[r].kind = "password"
        /\ Goes(r, "verified", "changed")
        /\ version' = IF Exists(u) THEN [version EXCEPT ![u] = @ + 1] ELSE version
        /\ UNCHANGED <<otpVars, number, sessions, token, reqVars>>

(* Mutant of RemoveSession: only a session that has not expired is removed. *)
RemoveLiveSession(r) ==
    LET u == ask[r].user
    IN  /\ Goes(r, "changed", "ok")
        /\ session' = IF session[u] = "live" THEN [session EXCEPT ![u] = "none"] ELSE session
        /\ IF ask[r].kind = "phone" /\ r \in renewed THEN HandsOut(u) ELSE UNCHANGED token
        /\ UNCHANGED <<otpVars, users, born, late, reqVars>>

(* RemoveRefreshToken, and the answer: UpdatePhonenumber's carries the new  *)
(* access token.                                                            *)
RemoveSession(r) ==
    LET u == ask[r].user
    IN  /\ Goes(r, "changed", "ok")
        /\ session' = [session EXCEPT ![u] = "none"]
        /\ IF ask[r].kind = "phone" /\ r \in renewed THEN HandsOut(u) ELSE UNCHANGED token
        /\ UNCHANGED <<otpVars, users, born, late, reqVars>>

(* UpdateUsername; names are not modelled.                                  *)
Rename(r) ==
    LET u == ask[r].user
    IN  /\ ask[r].kind = "rename"
        /\ Goes(r, "admitted", "ok")
        /\ Exists(u)
        /\ IF r \in renewed THEN HandsOut(u) ELSE UNCHANGED token
        /\ UNCHANGED <<otpVars, users, sessions, reqVars>>

(* Mutant of RemoveUser: refresh_token does not delete on cascade.          *)
RemoveUserOnly(r) ==
    LET u == ask[r].user
    IN  /\ ask[r].kind = "remove"
        /\ Goes(r, "admitted", "ok")
        /\ number' = IF Exists(u) THEN [number EXCEPT ![u] = "gone"] ELSE number
        /\ UNCHANGED <<otpVars, version, sessions, token, reqVars>>

RemoveUser(r) ==
    LET u == ask[r].user
    IN  /\ ask[r].kind = "remove"
        /\ Goes(r, "admitted", "ok")
        /\ number' = IF Exists(u) THEN [number EXCEPT ![u] = "gone"] ELSE number
        /\ session' = [session EXCEPT ![u] = "none"]
        /\ UNCHANGED <<otpVars, version, born, late, token, reqVars>>
-----------------------------------------------------------------------------
(* Validation, Twilio, the cache or a statement refuses; what was committed *)
(* stays.                                                                   *)
Fail(r) ==
    /\ at[r] \notin Ended \cup {"created", "drop"}
    /\ Goes(r, at[r], IF at[r] = "changed" THEN "left" ELSE "error")
    /\ UNCHANGED otpVars /\ RestStays

ClockKeeps == UNCHANGED <<users, born, late, ask, at, reqVars, restarts>>

SessionExpires(u) ==
    /\ session[u] = "live"
    /\ session' = [session EXCEPT ![u] = "expired"]
    /\ UNCHANGED <<otpVars, token>> /\ ClockKeeps

TokenExpires(u) ==
    /\ token[u] = "fresh"
    /\ token' = [token EXCEPT ![u] = "old"]
    /\ UNCHANGED <<otpVars, session>> /\ ClockKeeps

OtpClock(n) == (EntryExpires(n) \/ CodeLapses(n)) /\ UNCHANGED <<session, token>> /\ ClockKeeps

Monitor == CheckAndRemove /\ UNCHANGED <<session, token>> /\ ClockKeeps

(* The process ends, in order or not, and starts again.                     *)
Restart ==
    /\ restarts < MaxRestarts
    /\ restarts' = restarts + 1
    /\ ForgetEntries
    /\ at' = [r \in Reqs |-> IF at[r] \in Ended \cup {"start"} THEN at[r]
                             ELSE IF at[r] = "changed" THEN "left" ELSE "error"]
    /\ RestStays /\ UNCHANGED ask

Serve(r) ==
    \/ Admit(r) \/ Begin(r) \/ AllowSend(r) \/ SendCode(r) \/ NoteCode(r)
    \/ CheckApproved(r) \/ Accept(r) \/ CheckFailed(r) \/ CheckExpired(r) \/ Drop(r)
    \/ CheckOther(r)
    \/ CheckFree(r) \/ CreateUser(r)
    \/ Compare(r) \/ KeepSession(r) \/ FindNoSession(r) \/ CreateSession(r)
    \/ ChangeNumber(r) \/ ChangePassword(r) \/ RemoveSession(r)
    \/ Rename(r) \/ RemoveUser(r)
    \/ Fail(r)

Next ==
    \/ \E r \in Reqs : Serve(r)
    \/ \E u \in Users : SessionExpires(u) \/ TokenExpires(u)
    \/ \E n \in Numbers : OtpClock(n)
    \/ Monitor
    \/ Restart

Spec == Init /\ [][Next]_vars

(* The ticker of the monitor keeps ticking.                                 *)
FairSpec == Spec /\ WF_vars(Monitor)
-----------------------------------------------------------------------------
(* A session was begun with the account's password, unless that password    *)
(* was replaced while the login was between reading the account and storing *)
(* the session, or the request that replaced it is between its two          *)
(* statements or failed there.                                              *)
SessionFollowsPassword ==
    \A u \in Users : session[u] # "none" /\ born[u] # version[u] =>
        \/ u \in late
        \/ \E r \in Reqs : /\ ask[r].kind = "password" /\ ask[r].user = u
                           /\ at[r] \in {"changed", "left"}

(* An expired entry of the cache does not stay.                             *)
StaleEntriesGo == \A n \in Numbers : entry[n] = "stale" ~> entry[n] # "stale"

(* What the handlers do to the codes and their entries are steps of the OTP *)
(* service.                                                                 *)
UsesOtpService == OtpSpec

(* An account that was removed does not come back, whatever logins          *)
(* (authentication.controller.go:229), changes of its number or password    *)
(* (user.controller.go:91, 163) and registrations had begun: its row and    *)
(* its session stay away, and no account becomes unregistered again.        *)
GoneForGood ==
    [][\A u \in Users :
          /\ number[u] = "gone" => number'[u] = "gone" /\ session'[u] = "none"
          /\ number'[u] = "new" => number[u] = "new"]_vars

(* jwt_validation.middleware.go:76, "Please login again": whoever logged in *)
(* again has a session that has not expired.                                *)
LoginRenews ==
    [][\A r \in Reqs : at[r] # "ok" /\ at'[r] = "ok" /\ ask[r].kind = "login" =>
          session'[target[r]] = "live"]_vars

(* otp.service.go:179, "if it fails then before returning check if otp is   *)
(* expired then remove it from cache": a failed check removes no entry that *)
(* has not expired.                                                         *)
FreshEntriesStay ==
    [][\A r \in Reqs, n \in Numbers :
          at[r] = "drop" /\ at'[r] = "error" /\ code[n] = "pending" /\ entry[n] = "fresh"
              => entry'[n] = "fresh"]_vars
===============================================================================
