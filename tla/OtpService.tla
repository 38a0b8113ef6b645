------------------------------ MODULE OtpService ------------------------------
(***************************************************************************)
(* The OTP service (internal/services/otp.service.go): the codes Twilio      *)
(* has sent, the cache of their expiration times, and the monitor that       *)
(* drops stale entries.  Each operator is one step; a request of Accounts    *)
(* runs other requests between the answer of Twilio and its cache.           *)
(***************************************************************************)
EXTENDS Naturals

CONSTANT Numbers    \* phone numbers

VARIABLES
    code,       \* Twilio: number -> whether a code waits for its check
    entry,      \* otpcache: number -> no entry, one before its expiration, or after
    put,        \* history: number -> entries set
    passed      \* history: number -> checks accepted as approved

otpVars == <<code, entry, put, passed>>

OtpTypeOK ==
    /\ code \in [Numbers -> {"none", "pending"}]
    /\ entry \in [Numbers -> {"none", "fresh", "stale"}]
    /\ put \in [Numbers -> Nat]
    /\ passed \in [Numbers -> Nat]

OtpInit ==
    /\ code = [n \in Numbers |-> "none"]
    /\ entry = [n \in Numbers |-> "none"]
    /\ put = [n \in Numbers |-> 0]
    /\ passed = [n \in Numbers |-> 0]

(* IsResendAllowed: there is no entry, or an expired one.                    *)
IsResendAllowed(n) == entry[n] # "fresh"

(* SendOTP: Twilio sends a code (again, while one is pending), ...           *)
CreateVerification(n) ==
    /\ code' = [code EXCEPT ![n] = "pending"]
    /\ UNCHANGED <<entry, put, passed>>

(* ... then the service notes when it expires.                               *)
SetEntry(n) ==
    /\ entry' = [entry EXCEPT ![n] = "fresh"]
    /\ put' = [put EXCEPT ![n] = @ + 1]
    /\ UNCHANGED <<code, passed>>

(* VerifyOTP: Twilio approves a pending code once, ...                       *)
ApproveCode(n) ==
    /\ code[n] = "pending"
    /\ code' = [code EXCEPT ![n] = "none"]
    /\ UNCHANGED <<entry, put, passed>>

(* Mutant of AcceptApproved: an entry that is not there any more is no error.*)
AcceptAnyway(n) ==
    /\ entry' = [entry EXCEPT ![n] = "none"]
    /\ passed' = [passed EXCEPT ![n] = @ + 1]
    /\ UNCHANGED <<code, put>>

(* ... and the service accepts that if there is an entry to remove.          *)
AcceptApproved(n) ==
    /\ entry[n] # "none"
    /\ entry' = [entry EXCEPT ![n] = "none"]
    /\ passed' = [passed EXCEPT ![n] = @ + 1]
    /\ UNCHANGED <<code, put>>

(* remove, after a check that was not approved.                              *)
DropEntry(n) ==
    /\ entry' = [entry EXCEPT ![n] = "none"]
    /\ UNCHANGED <<code, put, passed>>

(* checkAndRemove, called by the monitor every ten minutes.                  *)
CheckAndRemove ==
    /\ \E n \in Numbers : entry[n] = "stale"
    /\ entry' = [n \in Numbers |-> IF entry[n] = "stale" THEN "none" ELSE entry[n]]
    /\ UNCHANGED <<code, put, passed>>

EntryExpires(n) ==
    /\ entry[n] = "fresh"
    /\ entry' = [entry EXCEPT ![n] = "stale"]
    /\ UNCHANGED <<code, put, passed>>

(* Twilio gives a pending code up, after its time or too many wrong checks.  *)
CodeLapses(n) ==
    /\ code[n] = "pending"
    /\ code' = [code EXCEPT ![n] = "none"]
    /\ UNCHANGED <<entry, put, passed>>

(* A new process begins with an empty cache.                                 *)
ForgetEntries ==
    /\ entry' = [n \in Numbers |-> "none"]
    /\ UNCHANGED <<code, put, passed>>

(* Any step of the service, on one number or on all.                         *)
OtpNext ==
    \/ \E n \in Numbers : \/ CreateVerification(n) \/ SetEntry(n)
                          \/ ApproveCode(n) \/ AcceptApproved(n) \/ DropEntry(n)
                          \/ EntryExpires(n) \/ CodeLapses(n)
    \/ CheckAndRemove \/ ForgetEntries

OtpSpec == OtpInit /\ [][OtpNext]_otpVars
-------------------------------------------------------------------------------
(* However sends, checks, expirations, the monitor and restarts interleave,  *)
(* a number has no more accepted approvals than entries were set for it,     *)
(* minus the one that is still there.                                        *)
PassedOncePerEntry ==
    \A n \in Numbers : passed[n] + (IF entry[n] = "none" THEN 0 ELSE 1) <= put[n]
===============================================================================
