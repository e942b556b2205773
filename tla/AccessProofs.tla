---------------------------- MODULE AccessProofs ----------------------------
(***************************************************************************)
(* Proofs about Access, for any connections and keys: its invariants, that *)
(* the owner stays, and that it implements AccessControl.                  *)
(*                                                                         *)
(* HandlerInv is what makes the invariants inductive.  It says what a      *)
(* request in hand may rely on, however often SIGHUP has struck since it   *)
(* was read.                                                               *)
(***************************************************************************)
EXTENDS Access, TLAPS

\* A daemon whose owner has not opened it is locked.
LockedInv == is_owned /\ ~opened => is_locked

\* The connection of a request in hand is gone only if a reset has closed all.
GoneInv == step # "idle" /\ state[cur] = "none" => Admitted = {}

\* A claim in progress belongs to a daemon without owner, which is locked; the
\* key stored is the claiming connection's, or scrambled once that is gone.
ClaimInv ==
    step = "claim" =>
        /\ ~is_owned /\ is_locked
        /\ owner_key \in {key[cur], Scrambled}
        /\ state[cur] = "connecting" => owner_key = key[cur]

\* A request that has passed the check was right to, and the daemon has an owner
\* unless a reset has closed its connection since.
ActInv ==
    step = "act" =>
        /\ state[cur] = "connecting" => is_owned /\ (~is_locked \/ key[cur] = owner_key)
        /\ state[cur] = "admitted" => key[cur] = owner_key

HandlerInv == LockedInv /\ GoneInv /\ ClaimInv /\ ActInv

IInv == TypeOK /\ UnownedServesNobody /\ OnlyOwnerUntilOpened /\ HandlerInv

\* The daemon starts without clients, with or without -promiscuous.
LEMMA InitIInv == Init => IInv
<1> SUFFICES ASSUME Init PROVE IInv
  OBVIOUS
<1>1. Admitted = {} /\ step = "idle"
  BY DEF Init, Admitted
<1>2. TypeOK
  BY DEF Init, TypeOK, States, Steps, Requests
<1>3. LockedInv
  <2>1. CASE is_owned = FALSE
    BY <2>1 DEF LockedInv
  <2>2. CASE opened = TRUE
    BY <2>2 DEF LockedInv
  <2> QED BY <2>1, <2>2 DEF Init
<1>4. UnownedServesNobody /\ OnlyOwnerUntilOpened /\ GoneInv /\ ClaimInv /\ ActInv
  BY <1>1 DEF UnownedServesNobody, OnlyOwnerUntilOpened, GoneInv, ClaimInv, ActInv
<1> QED BY <1>2, <1>3, <1>4 DEF IInv, HandlerInv

\* A connection that is dropped leaves the admitted ones, and nothing else.
LEMMA DropFacts ==
    ASSUME TypeOK, NEW c \in Clients, state' = [state EXCEPT ![c] = "none"]
    PROVE  Admitted' = Admitted \ {c} /\ state' \in [Clients -> States]
  BY DEF TypeOK, Admitted, States

\* A connection that is admitted.
LEMMA AdmitFacts ==
    ASSUME TypeOK, NEW c \in Clients, state' = [state EXCEPT ![c] = "admitted"]
    PROVE  Admitted' = Admitted \cup {c} /\ state' \in [Clients -> States]
  BY DEF TypeOK, Admitted, States

\* Accepting a connection admits nobody and changes the key of nobody admitted.
LEMMA AcceptFacts ==
    ASSUME TypeOK, NEW c \in Clients, NEW k \in Keys, Accept(c, k)
    PROVE  /\ Admitted' = Admitted /\ state' \in [Clients -> States]
           /\ key' \in [Clients -> Keys]
           /\ \A d \in Admitted : key'[d] = key[d]
  BY DEF Accept, TypeOK, Admitted, States

\* get_new_clients() preserves the invariant.
LEMMA AcceptIInv ==
    ASSUME IInv, NEW c \in Clients, NEW k \in Keys, Accept(c, k)
    PROVE  IInv'
<1>1. /\ step = "idle"
      /\ UNCHANGED <<is_owned, is_locked, owner_key, step, cur, req, opened>>
  BY DEF Accept, handler
<1>2. /\ Admitted' = Admitted /\ state' \in [Clients -> States]
      /\ key' \in [Clients -> Keys] /\ \A d \in Admitted : key'[d] = key[d]
  BY AcceptFacts DEF IInv
<1>3. TypeOK'
  BY <1>1, <1>2 DEF IInv, TypeOK
<1>4. UnownedServesNobody' /\ OnlyOwnerUntilOpened'
  BY <1>1, <1>2 DEF IInv, UnownedServesNobody, OnlyOwnerUntilOpened
<1>5. HandlerInv'
  BY <1>1 DEF IInv, HandlerInv, LockedInv, GoneInv, ClaimInv, ActInv
<1> QED BY <1>3, <1>4, <1>5 DEF IInv

\* A request is read.
LEMMA RequestIInv ==
    ASSUME IInv, NEW c \in Clients, NEW r \in Requests, Request(c, r)
    PROVE  IInv'
<1>1. /\ step' = "validate" /\ cur' = c /\ req' = r
      /\ UNCHANGED <<is_owned, is_locked, owner_key, state, key, opened>>
      /\ \/ state[c] = "connecting" /\ r = "connect"
         \/ state[c] = "admitted" /\ r \in OwnerRequests
  BY DEF Request, MayRequest
<1>2. Admitted' = Admitted
  BY <1>1 DEF Admitted
<1>3. r \in OwnerRequests => r # "connect"
  BY DEF OwnerRequests
<1>4. TypeOK'
  BY <1>1, <1>3 DEF IInv, TypeOK, Steps
<1>5. UnownedServesNobody' /\ OnlyOwnerUntilOpened'
  BY <1>1, <1>2 DEF IInv, UnownedServesNobody, OnlyOwnerUntilOpened
<1>6. HandlerInv'
  BY <1>1 DEF IInv, HandlerInv, LockedInv, GoneInv, ClaimInv, ActInv
<1> QED BY <1>4, <1>5, <1>6 DEF IInv

\* A connection is dropped and no request is in hand any more.
LEMMA DropIInv ==
    ASSUME IInv, NEW c \in Clients, state' = [state EXCEPT ![c] = "none"],
           step' = "idle",
           UNCHANGED <<is_owned, is_locked, owner_key, key, cur, req, opened>>
    PROVE  IInv'
<1>1. Admitted' = Admitted \ {c} /\ state' \in [Clients -> States]
  BY DropFacts DEF IInv
<1>2. TypeOK'
  BY <1>1 DEF IInv, TypeOK, Steps
<1>3. UnownedServesNobody' /\ OnlyOwnerUntilOpened'
  BY <1>1 DEF IInv, UnownedServesNobody, OnlyOwnerUntilOpened
<1>4. HandlerInv'
  BY DEF IInv, HandlerInv, LockedInv, GoneInv, ClaimInv, ActInv
<1> QED BY <1>2, <1>3, <1>4 DEF IInv

\* Storing the key of the first client.
LEMMA ValidateClaimsIInv ==
    ASSUME IInv, ValidateClaims
    PROVE  IInv'
<1>1. /\ step = "validate" /\ ~is_owned
      /\ is_locked' = TRUE /\ owner_key' \in Submitted /\ step' = "claim"
      /\ UNCHANGED <<is_owned, state, key, cur, req, opened>>
  BY DEF ValidateClaims, Unclaimed
<1>2. Admitted' = Admitted /\ Admitted = {}
  BY <1>1 DEF IInv, UnownedServesNobody, Admitted
<1>3. /\ owner_key' \in {key[cur], Scrambled}
      /\ state[cur] # "none" => owner_key' = key[cur]
  BY <1>1 DEF Submitted
<1>4. TypeOK'
  BY <1>1, <1>3 DEF IInv, TypeOK, Steps
<1>5. UnownedServesNobody' /\ OnlyOwnerUntilOpened'
  BY <1>1, <1>2 DEF UnownedServesNobody, OnlyOwnerUntilOpened
<1>6. LockedInv' /\ GoneInv' /\ ActInv'
  BY <1>1, <1>2 DEF LockedInv, GoneInv, ActInv
<1>7. ClaimInv'
  BY <1>1, <1>3 DEF ClaimInv
<1> QED BY <1>4, <1>5, <1>6, <1>7 DEF IInv, HandlerInv

\* Setting esd_is_owned: nobody is admitted, and the daemon is locked.
LEMMA FinishClaimIInv ==
    ASSUME IInv, FinishClaim
    PROVE  IInv'
<1>1. /\ step = "claim" /\ is_owned' = TRUE /\ opened' = FALSE /\ step' = "act"
      /\ UNCHANGED <<is_locked, owner_key, state, key, cur, req>>
  BY DEF FinishClaim
<1>2. /\ ~is_owned /\ is_locked
      /\ state[cur] = "connecting" => owner_key = key[cur]
  BY <1>1 DEF IInv, HandlerInv, ClaimInv
<1>3. Admitted' = {} /\ state[cur] # "admitted"
  BY <1>1, <1>2 DEF IInv, TypeOK, UnownedServesNobody, Admitted
<1>4. TypeOK'
  BY <1>1 DEF IInv, TypeOK, Steps
<1>5. UnownedServesNobody' /\ OnlyOwnerUntilOpened' /\ LockedInv' /\ GoneInv'
  BY <1>1, <1>2, <1>3 DEF UnownedServesNobody, OnlyOwnerUntilOpened, LockedInv, GoneInv
<1>6. ClaimInv' /\ ActInv'
  BY <1>1, <1>2, <1>3 DEF ClaimInv, ActInv
<1> QED BY <1>4, <1>5, <1>6 DEF IInv, HandlerInv

\* The check of an owned daemon is passed.
LEMMA ValidateAcceptsIInv ==
    ASSUME IInv, ValidateAccepts
    PROVE  IInv'
<1>1. /\ step = "validate" /\ is_owned /\ step' = "act"
      /\ (~is_locked /\ req = "connect") \/ key[cur] = owner_key
      /\ UNCHANGED <<is_owned, is_locked, owner_key, state, key, cur, req, opened>>
  BY DEF ValidateAccepts, Authorized
<1>2. Admitted' = Admitted
  BY <1>1 DEF Admitted
<1>3. TypeOK'
  BY <1>1 DEF IInv, TypeOK, Steps
<1>4. UnownedServesNobody' /\ OnlyOwnerUntilOpened' /\ LockedInv' /\ GoneInv'
  BY <1>1, <1>2 DEF IInv, HandlerInv, UnownedServesNobody, OnlyOwnerUntilOpened,
                    LockedInv, GoneInv
<1>5. state[cur] = "admitted" => req # "connect"
  BY <1>1 DEF IInv, TypeOK
<1>6. ClaimInv' /\ ActInv'
  BY <1>1, <1>5 DEF ClaimInv, ActInv
<1> QED BY <1>3, <1>4, <1>6 DEF IInv, HandlerInv

\* A connection that has passed the check is admitted: the daemon is open, or
\* the connection is the owner's.
LEMMA ActConnectIInv ==
    ASSUME IInv, ActConnect
    PROVE  IInv'
<1>1. /\ step = "act" /\ step' = "idle"
      /\ UNCHANGED <<is_owned, is_locked, owner_key, key, cur, req, opened>>
  BY DEF ActConnect
<1>2. cur \in Clients
  BY DEF IInv, TypeOK
<1>3. CASE state' = [state EXCEPT ![cur] = "none"]
  BY <1>1, <1>2, <1>3, DropIInv
<1>4. CASE state[cur] = "connecting" /\ state' = [state EXCEPT ![cur] = "admitted"]
  <2>1. Admitted' = Admitted \cup {cur} /\ state' \in [Clients -> States]
    BY <1>2, <1>4, AdmitFacts DEF IInv
  <2>2. is_owned
    BY <1>1, <1>4 DEF IInv, HandlerInv, ActInv
  <2>3. ~is_locked \/ key[cur] = owner_key
    BY <1>1, <1>4 DEF IInv, HandlerInv, ActInv
  <2>4. TypeOK'
    BY <1>1, <2>1 DEF IInv, TypeOK, Steps
  <2>5. UnownedServesNobody' /\ HandlerInv'
    BY <1>1, <2>2 DEF IInv, UnownedServesNobody, HandlerInv, LockedInv, GoneInv,
                      ClaimInv, ActInv
  <2>6. OnlyOwnerUntilOpened'
    BY <1>1, <2>1, <2>2, <2>3 DEF IInv, OnlyOwnerUntilOpened, HandlerInv, LockedInv
  <2> QED BY <2>4, <2>5, <2>6 DEF IInv
<1>5. CASE UNCHANGED state
  <2>1. Admitted' = Admitted
    BY <1>5 DEF Admitted
  <2>2. TypeOK'
    BY <1>1, <1>5 DEF IInv, TypeOK, Steps
  <2>3. UnownedServesNobody' /\ OnlyOwnerUntilOpened' /\ HandlerInv'
    BY <1>1, <2>1 DEF IInv, UnownedServesNobody, OnlyOwnerUntilOpened, HandlerInv,
                      LockedInv, GoneInv, ClaimInv, ActInv
  <2> QED BY <2>2, <2>3 DEF IInv
<1> QED BY <1>3, <1>4, <1>5 DEF ActConnect

\* esd_is_locked is set or cleared.
LEMMA ActLockIInv ==
    ASSUME IInv, ActLock
    PROVE  IInv'
<1>1. /\ step' = "idle"
      /\ is_locked' = (req = "lock") /\ opened' = (opened \/ req = "unlock")
      /\ req \in {"lock", "unlock"}
      /\ UNCHANGED <<is_owned, owner_key, state, key, cur, req>>
  BY DEF ActLock
<1>2. Admitted' = Admitted
  BY <1>1 DEF Admitted
<1>3. TypeOK'
  BY <1>1 DEF IInv, TypeOK, Steps
<1>4. LockedInv'
  BY <1>1 DEF LockedInv
<1>5. /\ UnownedServesNobody' /\ OnlyOwnerUntilOpened'
      /\ GoneInv' /\ ClaimInv' /\ ActInv'
  BY <1>1, <1>2 DEF IInv, UnownedServesNobody, OnlyOwnerUntilOpened, GoneInv,
                    ClaimInv, ActInv
<1> QED BY <1>3, <1>4, <1>5 DEF IInv, HandlerInv

\* Standby and resume, done or failed.
LEMMA ActDeviceIInv ==
    ASSUME IInv, ActDevice
    PROVE  IInv'
<1>1. /\ step' = "idle"
      /\ UNCHANGED <<is_owned, is_locked, owner_key, key, cur, req, opened>>
  BY DEF ActDevice
<1>2. cur \in Clients
  BY DEF IInv, TypeOK
<1>3. CASE state' = [state EXCEPT ![cur] = "none"]
  BY <1>1, <1>2, <1>3, DropIInv
<1>4. CASE state' = [state EXCEPT ![cur] = state[cur]]
  <2>1. state' = state
    BY <1>2, <1>4 DEF IInv, TypeOK
  <2>2. Admitted' = Admitted
    BY <2>1 DEF Admitted
  <2>3. TypeOK'
    BY <1>1, <2>1 DEF IInv, TypeOK, Steps
  <2>4. UnownedServesNobody' /\ OnlyOwnerUntilOpened' /\ HandlerInv'
    BY <1>1, <2>2 DEF IInv, UnownedServesNobody, OnlyOwnerUntilOpened, HandlerInv,
                      LockedInv, GoneInv, ClaimInv, ActInv
  <2> QED BY <2>3, <2>4 DEF IInv
<1> QED BY <1>3, <1>4 DEF ActDevice

\* reset_daemon(), at any moment.
LEMMA ResetIInv ==
    ASSUME IInv, Reset
    PROVE  IInv' /\ Admitted' = {}
<1>1. /\ is_owned' = FALSE /\ is_locked' = TRUE /\ owner_key' = Scrambled
      /\ state' = [c \in Clients |-> "none"] /\ opened' = FALSE
      /\ UNCHANGED <<key, step, cur, req>>
  BY DEF Reset, handler
<1>2. cur \in Clients
  BY DEF IInv, TypeOK
<1>3. Admitted' = {} /\ state'[cur'] = "none"
  BY <1>1, <1>2 DEF Admitted
<1>4. TypeOK'
  BY <1>1, <1>3 DEF IInv, TypeOK, States
<1>5. UnownedServesNobody' /\ OnlyOwnerUntilOpened' /\ LockedInv' /\ GoneInv'
  BY <1>1, <1>3 DEF UnownedServesNobody, OnlyOwnerUntilOpened, LockedInv, GoneInv
<1>6. ClaimInv' /\ ActInv'
  BY <1>1, <1>3 DEF ClaimInv, ActInv
<1> QED BY <1>3, <1>4, <1>5, <1>6 DEF IInv, HandlerInv

\* IInv is inductive.
LEMMA NextIInv == IInv /\ [Next]_vars => IInv'
<1> SUFFICES ASSUME IInv, [Next]_vars PROVE IInv'
  OBVIOUS
<1>1. ASSUME NEW c \in Clients, NEW k \in Keys, Accept(c, k) PROVE IInv'
  BY <1>1, AcceptIInv
<1>2. ASSUME NEW c \in Clients, NEW r \in Requests, Request(c, r) PROVE IInv'
  BY <1>2, RequestIInv
<1>3. ASSUME NEW c \in Clients, Disconnect(c) PROVE IInv'
  BY <1>3, DropIInv DEF Disconnect, handler
<1>4. CASE ValidateClaims \/ FinishClaim \/ ValidateAccepts
  BY <1>4, ValidateClaimsIInv, FinishClaimIInv, ValidateAcceptsIInv
<1>5. CASE ValidateRefuses
  <2>1. cur \in Clients
    BY DEF IInv, TypeOK
  <2> QED BY <1>5, <2>1, DropIInv DEF ValidateRefuses
<1>6. CASE ActConnect \/ ActLock \/ ActDevice
  BY <1>6, ActConnectIInv, ActLockIInv, ActDeviceIInv
<1>7. CASE Reset
  BY <1>7, ResetIInv
<1>8. CASE UNCHANGED vars
  BY <1>8 DEF vars, handler, IInv, TypeOK, UnownedServesNobody, OnlyOwnerUntilOpened,
              HandlerInv, LockedInv, GoneInv, ClaimInv, ActInv, Admitted
<1> QED BY <1>1, <1>2, <1>3, <1>4, <1>5, <1>6, <1>7, <1>8 DEF Next

\* The inductive invariant holds in every reachable state.
THEOREM AlwaysIInv == Spec => []IInv
  BY InitIInv, NextIInv, PTL DEF Spec

\* The request in hand is always one its connection may make, or a reset has
\* closed the connection.
THEOREM TypeCorrect == Spec => []TypeOK
<1>1. IInv => TypeOK
  BY DEF IInv
<1> QED BY <1>1, AlwaysIInv, PTL

\* A daemon without owner serves nobody, wherever SIGHUP strikes.
THEOREM NobodyBeforeOwner == Spec => []UnownedServesNobody
<1>1. IInv => UnownedServesNobody
  BY DEF IInv
<1> QED BY <1>1, AlwaysIInv, PTL

\* Until the owner opens the daemon, only connections with its key are admitted.
THEOREM OwnerOnlyUntilOpened == Spec => []OnlyOwnerUntilOpened
<1>1. IInv => OnlyOwnerUntilOpened
  BY DEF IInv
<1> QED BY <1>1, AlwaysIInv, PTL

\* esd_owner_key of an owned daemon is overwritten by reset_daemon() only.
THEOREM OwnerIsKept == Spec => OwnerStays
<1>1. [Next]_vars => [is_owned => owner_key' = owner_key \/ ~is_owned']_vars
  BY DEF Next, vars, handler, Accept, Request, Disconnect, ValidateClaims, Unclaimed,
         FinishClaim, ValidateAccepts, ValidateRefuses, ActConnect, ActLock, ActDevice,
         Reset
<1> QED BY <1>1, PTL DEF Spec, OwnerStays

----------------------------------------------------------------------------
(* Access implements AccessControl.                                        *)

Owner == IF ~is_owned THEN NoOwner
         ELSE IF owner_key \in Keys THEN owner_key ELSE Scrambled

Pairs == {<<c, key[c]>> : c \in Admitted}

\* The initial states map to initial states.
LEMMA InitRefines == Init => Abstract!Init
<1> SUFFICES ASSUME Init PROVE Abstract!Init
  OBVIOUS
<1>1. Pairs = {}
  BY DEF Init, Admitted, Pairs
<1>2. CASE is_owned = FALSE /\ is_locked = TRUE
  BY <1>1, <1>2 DEF Abstract!Init, Pairs
<1>3. CASE is_owned = TRUE /\ is_locked = FALSE
  <2>1. owner_key \notin Keys
    BY AccessAssumption DEF Init
  <2> QED BY <1>1, <1>3, <2>1 DEF Abstract!Init, Pairs
<1> QED BY <1>2, <1>3 DEF Init

\* A step that leaves the owner, the lock and the admitted connections alone.
LEMMA Stutters ==
    ASSUME UNCHANGED <<is_owned, is_locked, owner_key, Pairs>>
    PROVE  UNCHANGED Abstract!vars
  BY DEF Abstract!vars, Pairs

\* A connection that is dropped.
LEMMA DropRefines ==
    ASSUME IInv, NEW c \in Clients, state' = [state EXCEPT ![c] = "none"],
           UNCHANGED <<is_owned, is_locked, owner_key, key>>
    PROVE  Abstract!Next
<1>1. Admitted' = Admitted \ {c}
  BY DropFacts DEF IInv
<1>2. Pairs' = {a \in Pairs : a[1] # c}
  BY <1>1 DEF Pairs
<1>3. Abstract!Leave(c)
  BY <1>2 DEF Abstract!Leave, Pairs
<1> QED BY <1>3 DEF Abstract!Next

\* A connection that is admitted.
LEMMA ConnectRefines ==
    ASSUME IInv, ActConnect
    PROVE  Abstract!Next \/ UNCHANGED Abstract!vars
<1>1. /\ step = "act" /\ cur \in Clients /\ key[cur] \in Keys
      /\ UNCHANGED <<is_owned, is_locked, owner_key, key>>
  BY DEF ActConnect, IInv, TypeOK
<1>2. CASE state' = [state EXCEPT ![cur] = "none"]
  BY <1>1, <1>2, DropRefines
<1>3. CASE UNCHANGED state
  <2>1. UNCHANGED Pairs
    BY <1>1, <1>3 DEF Pairs, Admitted
  <2> QED BY <1>1, <2>1, Stutters
<1>4. CASE state[cur] = "connecting" /\ state' = [state EXCEPT ![cur] = "admitted"]
  <2>1. is_owned /\ (~is_locked \/ key[cur] = owner_key)
    BY <1>1, <1>4 DEF IInv, HandlerInv, ActInv
  <2>2. Admitted' = Admitted \cup {cur}
    BY <1>1, <1>4, AdmitFacts DEF IInv
  <2>3. Pairs' = Pairs \cup {<<cur, key[cur]>>}
    BY <1>1, <2>2 DEF Pairs
  <2>4. Owner # NoOwner
    BY <2>1, AccessAssumption DEF Owner
  <2>5. key[cur] = owner_key => key[cur] = Owner
    BY <1>1, <2>1 DEF Owner
  <2>6. PICK k \in Keys : k = key[cur]
    BY <1>1
  <2>7. Abstract!Admit(cur, k)
    BY <1>1, <2>1, <2>3, <2>4, <2>5, <2>6 DEF Abstract!Admit, Pairs, Owner
  <2> QED BY <1>1, <2>7 DEF Abstract!Next
<1> QED BY <1>2, <1>3, <1>4 DEF ActConnect

\* Lock and unlock: of the owner, after a reset of nobody, or without effect.
LEMMA LockRefines ==
    ASSUME IInv, ActLock
    PROVE  Abstract!Next \/ UNCHANGED Abstract!vars
<1>1. /\ step = "act" /\ req # "connect" /\ cur \in Clients /\ key[cur] \in Keys
      /\ UNCHANGED <<is_owned, owner_key, state, key>>
      /\ is_locked' \in BOOLEAN
  BY DEF ActLock, IInv, TypeOK
<1>2. UNCHANGED Pairs
  BY <1>1 DEF Pairs, Admitted
<1>3. CASE ~is_owned
  BY <1>1, <1>2, <1>3 DEF Abstract!vars, Pairs
<1>4. CASE is_owned
  <2>1. Owner # NoOwner
    BY <1>4, AccessAssumption DEF Owner
  <2>2. Pairs = {} \/ <<cur, Owner>> \in Pairs
    <3>1. CASE state[cur] = "none"
      BY <1>1, <3>1 DEF IInv, HandlerInv, GoneInv, Pairs
    <3>2. CASE state[cur] = "admitted"
      <4>1. key[cur] = Owner
        BY <1>1, <1>4, <3>2 DEF IInv, HandlerInv, ActInv, Owner
      <4>2. cur \in Admitted
        BY <1>1, <3>2 DEF Admitted
      <4> QED BY <4>1, <4>2 DEF Pairs
    <3> QED BY <1>1, <3>1, <3>2 DEF IInv, TypeOK
  <2>3. Abstract!SetOpen
    BY <1>1, <1>2, <1>4, <2>1, <2>2 DEF Abstract!SetOpen, Pairs, Owner
  <2> QED BY <2>3 DEF Abstract!Next
<1> QED BY <1>3, <1>4

\* esd_is_owned = 1 is the moment the claim takes effect.
LEMMA ClaimRefines ==
    ASSUME IInv, FinishClaim
    PROVE  Abstract!Next
<1>1. /\ step = "claim" /\ is_owned' = TRUE
      /\ UNCHANGED <<is_locked, owner_key, state, key>>
  BY DEF FinishClaim
<1>2. /\ ~is_owned /\ is_locked /\ owner_key \in Keys \cup {Scrambled}
  BY <1>1 DEF IInv, TypeOK, HandlerInv, ClaimInv
<1>3. UNCHANGED Pairs
  BY <1>1 DEF Pairs, Admitted
<1>4. Owner' = owner_key
  BY <1>1, <1>2 DEF Owner
<1>5. Abstract!Claim(owner_key)
  BY <1>1, <1>2, <1>3, <1>4 DEF Abstract!Claim, Pairs, Owner
<1> QED BY <1>2, <1>5 DEF Abstract!Next

\* reset_daemon().
LEMMA ResetRefines ==
    ASSUME IInv, Reset
    PROVE  Abstract!Next
<1>1. is_owned' = FALSE /\ Admitted' = {}
  BY ResetIInv DEF Reset
<1>2. Abstract!Reset
  BY <1>1 DEF Abstract!Reset
<1> QED BY <1>2 DEF Abstract!Next

\* Every step maps to a step or a stutter.
LEMMA NextRefines == IInv /\ [Next]_vars => [Abstract!Next]_(Abstract!vars)
<1> SUFFICES ASSUME IInv, [Next]_vars
             PROVE  Abstract!Next \/ UNCHANGED Abstract!vars
  OBVIOUS
<1>1. ASSUME NEW c \in Clients, NEW k \in Keys, Accept(c, k)
      PROVE  UNCHANGED Abstract!vars
  <2>1. UNCHANGED <<is_owned, is_locked, owner_key>>
    BY <1>1 DEF Accept
  <2>2. UNCHANGED Pairs
    BY <1>1, AcceptFacts DEF IInv, Pairs
  <2> QED BY <2>1, <2>2, Stutters
<1>2. ASSUME NEW c \in Clients, NEW r \in Requests, Request(c, r)
      PROVE  UNCHANGED Abstract!vars
  <2>1. UNCHANGED <<is_owned, is_locked, owner_key, Pairs>>
    BY <1>2 DEF Request, Pairs, Admitted
  <2> QED BY <2>1, Stutters
<1>3. ASSUME NEW c \in Clients, Disconnect(c)
      PROVE  Abstract!Next
  BY <1>3, DropRefines DEF Disconnect
<1>4. CASE ValidateClaims
  <2>1. ~is_owned /\ ~is_owned' /\ UNCHANGED Pairs
    BY <1>4 DEF ValidateClaims, Unclaimed, Pairs, Admitted
  <2> QED BY <2>1 DEF Abstract!vars, Pairs
<1>5. CASE ValidateAccepts
  <2>1. UNCHANGED <<is_owned, is_locked, owner_key, Pairs>>
    BY <1>5 DEF ValidateAccepts, Pairs, Admitted
  <2> QED BY <2>1, Stutters
<1>6. CASE ValidateRefuses
  <2>1. cur \in Clients
    BY DEF IInv, TypeOK
  <2> QED BY <1>6, <2>1, DropRefines DEF ValidateRefuses
<1>7. CASE FinishClaim \/ ActConnect \/ ActLock \/ Reset
  BY <1>7, ClaimRefines, ConnectRefines, LockRefines, ResetRefines
<1>8. CASE ActDevice
  <2>1. cur \in Clients /\ UNCHANGED <<is_owned, is_locked, owner_key, key>>
    BY <1>8 DEF ActDevice, IInv, TypeOK
  <2>2. CASE state' = [state EXCEPT ![cur] = "none"]
    BY <2>1, <2>2, DropRefines
  <2>3. CASE state' = [state EXCEPT ![cur] = state[cur]]
    <3>1. state' = state
      BY <2>1, <2>3 DEF IInv, TypeOK
    <3>2. UNCHANGED Pairs
      BY <2>1, <3>1 DEF Pairs, Admitted
    <3> QED BY <2>1, <3>2, Stutters
  <2> QED BY <1>8, <2>2, <2>3 DEF ActDevice
<1>9. CASE UNCHANGED vars
  <2>1. UNCHANGED <<is_owned, is_locked, owner_key, Pairs>>
    BY <1>9 DEF vars, Pairs, Admitted
  <2> QED BY <2>1, Stutters
<1> QED BY <1>1, <1>2, <1>3, <1>4, <1>5, <1>6, <1>7, <1>8, <1>9 DEF Next

\* The daemon, with SIGHUP between any two statements of a handler, implements
\* AccessControl.
THEOREM Refinement == Spec => ImplementsAccessControl
  BY InitRefines, NextRefines, AlwaysIInv, PTL
     DEF Spec, ImplementsAccessControl, Abstract!Spec
=============================================================================
