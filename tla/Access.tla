------------------------------- MODULE Access -------------------------------
(***************************************************************************)
(* Who may use the daemon: esd_validate_source() and the handlers that     *)
(* call it (connect, lock, unlock, standby, resume), -promiscuous, and the *)
(* SIGHUP handler.                                                         *)
(*                                                                         *)
(* The daemon has one thread, but reset_daemon() runs between any two of   *)
(* its statements.  A request is therefore cut where a reset makes a       *)
(* difference: before the check, between storing the first client's key    *)
(* and esd_is_owned = 1, and between a passed check and what the handler   *)
(* does then.  A reset frees the client whose request is being handled;    *)
(* the handler goes on with the freed esd_client_t, whose proto_data may   *)
(* or may not still hold the submitted key.                                *)
(*                                                                         *)
(* What a request does once it is allowed is in CommLoop and Samples.      *)
(***************************************************************************)
CONSTANTS Clients,    \* connection slots
          Keys,       \* contents of the clients' ~/.esd_auth files
          Scrambled,  \* a key no client has: rand() of reset_daemon(), freed memory
          Zero,       \* esd_owner_key as the loader leaves it
          NoOwner     \* abstract value, see AccessControl

ASSUME AccessAssumption ==
    /\ Clients # {}
    /\ Scrambled \notin Keys /\ Zero \notin Keys /\ Zero # Scrambled
    /\ NoOwner \notin Keys \cup {Scrambled, Zero}

VARIABLES
    is_owned,   \* esd_is_owned
    is_locked,  \* esd_is_locked
    owner_key,  \* esd_owner_key
    state,      \* slot -> what the daemon knows of the connection
    key,        \* slot -> key of the user behind the connection
    step,       \* how far the request in hand has come
    cur,        \* slot of the request in hand
    req,        \* the request in hand
    opened      \* history: -promiscuous, or unlocked since there is an owner

handler == <<step, cur, req>>
vars == <<is_owned, is_locked, owner_key, state, key, handler, opened>>

States == {"none", "connecting", "admitted"}
Steps == {"idle", "validate", "claim", "act"}

\* ESD_PROTO_CONNECT and the requests that are for the owner only; "device" is
\* standby or resume.
OwnerRequests == {"lock", "unlock", "device"}
Requests == OwnerRequests \cup {"connect"}

Admitted == {c \in Clients : state[c] = "admitted"}

\* Without options, and with -promiscuous.
Init ==
    /\ \/ is_owned = FALSE /\ is_locked = TRUE /\ opened = FALSE
       \/ is_owned = TRUE /\ is_locked = FALSE /\ opened = TRUE
    /\ owner_key = Zero
    /\ state = [c \in Clients |-> "none"]
    /\ key \in [Clients -> Keys]
    /\ step = "idle"
    /\ cur \in Clients
    /\ req = "connect"

----------------------------------------------------------------------------
(* Connections come, send requests and go.                                 *)

\* get_new_clients(): a user's program connects.
Accept(c, k) ==
    /\ step = "idle"
    /\ state[c] = "none"
    /\ state' = [state EXCEPT ![c] = "connecting"]
    /\ key' = [key EXCEPT ![c] = k]
    /\ UNCHANGED <<is_owned, is_locked, owner_key, handler, opened>>

\* Mutant: a new connection need not begin with the handshake.
MayRequestAnything(c, r) == state[c] # "none"

\* ESD_CLIENT_STATE of a new connection only lets ESD_PROTO_CONNECT through.
MayRequest(c, r) ==
    \/ state[c] = "connecting" /\ r = "connect"
    \/ state[c] = "admitted" /\ r \in OwnerRequests

\* poll_client_requests() has read request r and calls its handler, which
\* calls esd_validate_source().
Request(c, r) ==
    /\ step = "idle"
    /\ MayRequest(c, r)
    /\ step' = "validate" /\ cur' = c /\ req' = r
    /\ UNCHANGED <<is_owned, is_locked, owner_key, state, key, opened>>

\* poll_client_requests() finds the connection closed.
Disconnect(c) ==
    /\ step = "idle"
    /\ state[c] # "none"
    /\ state' = [state EXCEPT ![c] = "none"]
    /\ UNCHANGED <<is_owned, is_locked, owner_key, key, handler, opened>>

----------------------------------------------------------------------------
(* esd_validate_source().                                                  *)

\* What proto_data may hold.
Submitted == IF state[cur] = "none" THEN {key[cur], Scrambled} ELSE {key[cur]}

\* Mutant: the lock keeps nobody from connecting.
AuthorizedUnlocked(k, owner_only) == ~owner_only \/ k = owner_key

\* Mutant: an unlocked daemon has everybody for its owner.
AuthorizedOpen(k, owner_only) == ~is_locked \/ k = owner_key

\* An owned daemon accepts key k.
Authorized(k, owner_only) == (~is_locked /\ ~owner_only) \/ k = owner_key

\* Mutant: any client may claim the daemon.
UnclaimedAlways == TRUE

\* Nobody owns the daemon yet: the first client claims it.
Unclaimed == ~is_owned

\* The claim up to its last assignment.
ValidateClaims ==
    /\ step = "validate"
    /\ Unclaimed
    /\ is_locked' = TRUE
    /\ owner_key' \in Submitted
    /\ step' = "claim"
    /\ UNCHANGED <<is_owned, state, key, cur, req, opened>>

\* esd_is_owned = 1.
FinishClaim ==
    /\ step = "claim"
    /\ is_owned' = TRUE
    /\ opened' = FALSE
    /\ step' = "act"
    /\ UNCHANGED <<is_locked, owner_key, state, key, cur, req>>

ValidateAccepts ==
    /\ step = "validate"
    /\ is_owned
    /\ Authorized(key[cur], req # "connect")
    /\ step' = "act"
    /\ UNCHANGED <<is_owned, is_locked, owner_key, state, key, cur, req, opened>>

\* The handler returns 0 and poll_client_requests() erases the client.
ValidateRefuses ==
    /\ step = "validate"
    /\ is_owned
    /\ ~Authorized(key[cur], req # "connect")
    /\ state' = [state EXCEPT ![cur] = "none"]
    /\ step' = "idle"
    /\ UNCHANGED <<is_owned, is_locked, owner_key, key, cur, req, opened>>

----------------------------------------------------------------------------
(* The handlers after the check.  A handler that returns 0 has its client  *)
(* erased; one a reset has erased already is not on the list any more.     *)

\* esd_proto_connect(): with an unknown endian key the connection is dropped,
\* but a daemon it has claimed stays owned.
ActConnect ==
    /\ step = "act" /\ req = "connect"
    /\ \/ /\ state[cur] = "connecting"
          /\ \E s \in {"admitted", "none"} : state' = [state EXCEPT ![cur] = s]
       \/ state[cur] # "connecting" /\ UNCHANGED state
    /\ step' = "idle"
    /\ UNCHANGED <<is_owned, is_locked, owner_key, key, cur, req, opened>>

\* esd_proto_lock() and esd_proto_unlock().
ActLock ==
    /\ step = "act" /\ req \in {"lock", "unlock"}
    /\ is_locked' = (req = "lock")
    /\ opened' = (opened \/ req = "unlock")
    /\ step' = "idle"
    /\ UNCHANGED <<is_owned, owner_key, state, key, cur, req>>

\* esd_proto_standby() and esd_proto_resume(), which may fail.
ActDevice ==
    /\ step = "act" /\ req = "device"
    /\ \E s \in {state[cur], "none"} : state' = [state EXCEPT ![cur] = s]
    /\ step' = "idle"
    /\ UNCHANGED <<is_owned, is_locked, owner_key, key, cur, req, opened>>

----------------------------------------------------------------------------
\* Mutant: the clients are not closed.
ResetKeepsClients ==
    /\ is_owned' = FALSE /\ is_locked' = TRUE
    /\ owner_key' = Scrambled
    /\ opened' = FALSE
    /\ UNCHANGED <<state, key, handler>>

\* reset_daemon(), as far as access goes; the request in hand goes on.
Reset ==
    /\ is_owned' = FALSE /\ is_locked' = TRUE
    /\ owner_key' = Scrambled
    /\ state' = [c \in Clients |-> "none"]
    /\ opened' = FALSE
    /\ UNCHANGED <<key, handler>>

Next ==
    \/ \E c \in Clients :
         \/ \E k \in Keys : Accept(c, k)
         \/ \E r \in Requests : Request(c, r)
         \/ Disconnect(c)
    \/ ValidateClaims \/ FinishClaim \/ ValidateAccepts \/ ValidateRefuses
    \/ ActConnect \/ ActLock \/ ActDevice
    \/ Reset

Spec == Init /\ [][Next]_vars

----------------------------------------------------------------------------
(* Properties.                                                             *)

\* Every variable has its type, and the request in hand is one its connection
\* may make, unless a reset has closed the connection.
TypeOK ==
    /\ is_owned \in BOOLEAN /\ is_locked \in BOOLEAN /\ opened \in BOOLEAN
    /\ owner_key \in Keys \cup {Scrambled, Zero}
    /\ state \in [Clients -> States]
    /\ key \in [Clients -> Keys]
    /\ step \in Steps /\ cur \in Clients /\ req \in Requests
    /\ step # "idle" => \/ state[cur] = "none"
                        \/ state[cur] = "connecting" /\ req = "connect"
                        \/ state[cur] = "admitted" /\ req # "connect"

\* A daemon without owner serves nobody, wherever SIGHUP strikes.
UnownedServesNobody == ~is_owned => Admitted = {}

\* As long as the daemon has not been opened since it got its owner, every
\* admitted connection has the owner's key.  A reset in the middle of a claim,
\* which leaves a daemon owned by a random key, admits nobody.
OnlyOwnerUntilOpened == ~opened => \A c \in Admitted : key[c] = owner_key

\* The owner of a daemon changes only through SIGHUP.
OwnerStays == [][is_owned => owner_key' = owner_key \/ ~is_owned']_vars

\* The abstract view of the daemon: who owns it, whether it is open, and which
\* connections are admitted.
Abstract == INSTANCE AccessControl WITH
    Nobody <- Scrambled,
    owner <- IF ~is_owned THEN NoOwner
             ELSE IF owner_key \in Keys THEN owner_key ELSE Scrambled,
    open <- is_owned /\ ~is_locked,
    admitted <- {<<c, key[c]>> : c \in Admitted}

\* The handlers and the SIGHUP handler, interleaved at their statements,
\* implement AccessControl.
ImplementsAccessControl == Abstract!Spec
=============================================================================
