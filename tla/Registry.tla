------------------------------ MODULE Registry ------------------------------
(***************************************************************************)
(* What the notification service promises about its map of connections    *)
(* (internal/services/notification.service.go): it is a map from keys to   *)
(* connections; a connection is announced once, entered once at some later *)
(* moment, and leaves when its key is removed or taken by another          *)
(* connection.  Nothing is promised about the order in which announced     *)
(* connections are entered: every AddUserConnection runs in a goroutine of *)
(* its own.                                                                *)
(***************************************************************************)

CONSTANTS
    Conns,      \* accepted TLS connections
    Keys,       \* keys of the map
    KeyOf,      \* key under which a connection is entered
    None        \* no connection

ASSUME RegistryAssumption ==
    /\ KeyOf \in [Conns -> Keys]
    /\ None \notin Conns

VARIABLES
    reg,        \* the map: key -> connection or None
    pending,    \* announced, not yet entered
    seen        \* announced at some time

registryVars == <<reg, pending, seen>>

RegistryTypeOK ==
    /\ reg \in [Keys -> Conns \cup {None}]
    /\ pending \subseteq seen
    /\ seen \subseteq Conns

RegistryInit ==
    /\ reg = [k \in Keys |-> None]
    /\ pending = {}
    /\ seen = {}

Announce(c) ==
    /\ c \notin seen
    /\ seen' = seen \cup {c}
    /\ pending' = pending \cup {c}
    /\ UNCHANGED reg

(* Mutant of Enter: what was entered is still to be entered.               *)
EnterAgain(c) ==
    /\ c \in pending
    /\ reg' = [reg EXCEPT ![KeyOf[c]] = c]
    /\ UNCHANGED <<pending, seen>>

Enter(c) ==
    /\ c \in pending
    /\ pending' = pending \ {c}
    /\ reg' = [reg EXCEPT ![KeyOf[c]] = c]
    /\ UNCHANGED seen

Leave(k) ==
    /\ reg' = [reg EXCEPT ![k] = None]
    /\ UNCHANGED <<pending, seen>>

RegistryNext ==
    \/ \E c \in Conns : Announce(c) \/ Enter(c)
    \/ \E k \in Keys : Leave(k)

RegistrySpec == RegistryInit /\ [][RegistryNext]_registryVars
-----------------------------------------------------------------------------
Registered(c) == reg[KeyOf[c]] = c

(* A connection is found under its own key and under no other, and only    *)
(* after it was announced and entered: AddUserConnection is the one writer. *)
RegisteredIsEntered ==
    \A k \in Keys : reg[k] # None =>
        reg[k] \in seen \ pending /\ KeyOf[reg[k]] = k

Gone(c) == c \in seen \ pending /\ ~Registered(c)

(* A connection that was entered and has left the map is neither there nor *)
(* about to be entered ever again: an old connection of a user cannot      *)
(* displace a newer one later on.                                          *)
NeverReturns == [][\A c \in Conns : Gone(c) => Gone(c)']_registryVars
=============================================================================
