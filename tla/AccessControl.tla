---------------------------- MODULE AccessControl ----------------------------
(***************************************************************************)
(* What the daemon promises about access: a key that is submitted when     *)
(* there is no owner becomes the owner's; only connections with that key   *)
(* are admitted unless the owner has opened the daemon; only the owner     *)
(* opens and closes it; a reset forgets the owner and drops everybody.     *)
(*                                                                         *)
(* What it does not promise: a reset that strikes while a request is being *)
(* handled may leave a daemon owned by a key nobody has, or open for       *)
(* everybody; at that moment nobody is admitted.                           *)
(***************************************************************************)
CONSTANTS Clients,  \* connections
          Keys,     \* keys clients may submit
          NoOwner,  \* nobody owns the daemon
          Nobody    \* the daemon has an owner whose key no client has

VARIABLES owner,     \* the owner's key, NoOwner or Nobody
          open,      \* anybody may connect
          admitted   \* <<connection, key>> of those that have passed the handshake

vars == <<owner, open, admitted>>

Init ==
    /\ \/ owner = NoOwner /\ open = FALSE
       \/ owner = Nobody /\ open = TRUE
    /\ admitted = {}

Claim(k) ==
    /\ owner = NoOwner
    /\ owner' = k
    /\ UNCHANGED <<open, admitted>>

Admit(c, k) ==
    /\ owner # NoOwner
    /\ open \/ k = owner
    /\ admitted' = admitted \cup {<<c, k>>}
    /\ UNCHANGED <<owner, open>>

\* Lock and unlock, by a connection of the owner or by a request that was in
\* hand when a reset closed all connections.
SetOpen ==
    /\ owner # NoOwner
    /\ admitted = {} \/ \E c \in Clients : <<c, owner>> \in admitted
    /\ open' \in BOOLEAN
    /\ UNCHANGED <<owner, admitted>>

Leave(c) ==
    /\ admitted' = {a \in admitted : a[1] # c}
    /\ UNCHANGED <<owner, open>>

Reset ==
    /\ owner' = NoOwner
    /\ open' = FALSE
    /\ admitted' = {}

Next ==
    \/ \E k \in Keys \cup {Nobody} : Claim(k)
    \/ \E c \in Clients, k \in Keys : Admit(c, k)
    \/ \E c \in Clients : Leave(c)
    \/ SetOpen \/ Reset

Spec == Init /\ [][Next]_vars
=============================================================================
