--------------------------- MODULE StartupProofs ---------------------------
(***************************************************************************)
(* Proofs about Startup, for any number of daemons and applications, any   *)
(* configuration and any number of kills: a failed start and a clean exit  *)
(* leave no name behind, and a daemon that serves keeps its name unless    *)
(* two daemons overlapped.                                                 *)
(***************************************************************************)
EXTENDS Startup, FiniteSetTheorems, TLAPS

Pcs == {"off", "main", "mkdir", "lstat", "connect", "unlink", "bind", "listen",
        "bindport", "audio", "ready", "serving", "closing", "cleanup", "rmdir",
        "exit"} \cup Over
FdTables == [Fds -> {None, "null", "pipe", "test", "socket", "listen", "device"}]
Rungs == 1 .. Attempts + 1
Records == [pc : Pcs, tcp : BOOLEAN, trust : BOOLEAN, spawnfd : {-1} \cup SpawnFds,
            fds : FdTables, rung : Rungs]

\* The numbers below k are in use and the others are free.
UsedTo(fds, k) == \A n \in Fds : fds[n] = None <=> n >= k

\* What is known of a daemon by where it is: the descriptors it has opened, what
\* kind of socket it uses and how far it is in the ladder.
Tidy(r) ==
    /\ r.pc \in {"off", "main", "mkdir", "lstat", "connect", "unlink", "bind", "listen",
                 "bindport"} => r.rung = 1
    /\ r.pc = "audio" => r.rung <= Attempts
    /\ r.pc \in {"mkdir", "lstat", "connect", "unlink", "bind", "listen", "cleanup", "rmdir"}
          => ~r.tcp
    /\ r.pc = "bindport" => r.tcp
    /\ r.pc \in {"mkdir", "lstat", "connect", "bindport"} => UsedTo(r.fds, 3)
    /\ r.pc = "unlink" => UsedTo(r.fds, 4)
    /\ r.pc \in {"bind", "listen"} => UsedTo(r.fds, 5) /\ r.fds[4] = "socket"
    /\ r.pc = "audio" /\ ~r.tcp => UsedTo(r.fds, 5) /\ r.fds[4] = "listen"
    /\ r.pc = "ready" /\ ~r.tcp => r.fds[4] = "listen"
    /\ r.pc = "closing" /\ ~r.tcp => \E n \in Fds : r.fds[n] = "listen"

\* A daemon whose UNIX socket is bound and not yet closed.
UpRecord(r) ==
    /\ ~r.tcp
    /\ \/ r.pc \in {"listen", "audio", "ready", "closing"}
       \/ r.pc = "serving" /\ \E n \in Fds : r.fds[n] = "listen"
Up(d) == UpRecord(daemon[d])

\* Where a daemon may be while its socket has the name: past bind(), with
\* unlink() before it, or ended without clean-up.
Keepers == {"listen", "audio", "ready", "serving", "closing", "cleanup", "aborted", "killed"}

Typed == daemon \in [Daemons -> Records]
AllTidy == \A d \in Daemons : Tidy(daemon[d])
NameKept ==
    /\ name \in Daemons \cup {None}
    /\ \A d \in Daemons : name = d => ~daemon[d].tcp /\ daemon[d].pc \in Keepers

\* At most one daemon is in Window.
Apart == \A d, e \in Daemons : daemon[d].pc \in Window /\ daemon[e].pc \in Window => d = e

\* A daemon that is up has the name; there is none while another one is about to
\* remove the name or to bind it.
Held == \A d \in Daemons : Up(d) => name = d
Alone == \A d, e \in Daemons : daemon[e].pc \in {"unlink", "bind", "cleanup"} => ~Up(d)
Ordered == overlapped \/ (Apart /\ Held /\ Alone)

\* The inductive invariant.
IInv == Typed /\ AllTidy /\ NameKept /\ Ordered

-----------------------------------------------------------------------------
(* Descriptors.                                                            *)

\* The lowest free number is the first that is not in use.
LEMMA LowestIs ==
  ASSUME NEW fds, NEW k \in Fds, UsedTo(fds, k)
  PROVE  Lowest(fds) = k
  <1> DEFINE S == {n \in Fds : fds[n] = None}
  <1>1. k \in S /\ \A y \in S : k =< y
    BY DEF UsedTo, Fds
  <1>2. \A x \in S : (\A y \in S : x =< y) => x = k
    BY <1>1 DEF Fds
  <1>3. Min(S) = k
    <2> HIDE DEF S
    <2>1. \E x \in S : \A y \in S : x =< y
      BY <1>1
    <2> QED  BY <1>2, <2>1 DEF Min
  <1> QED  BY <1>3 DEF Lowest

\* What is opened gets that number.
LEMMA OpenedIs ==
  ASSUME NEW fds \in FdTables, NEW k \in Fds, UsedTo(fds, k),
         NEW what \in {"test", "socket", "listen", "device"}
  PROVE  /\ Opened(fds, what) \in FdTables
         /\ UsedTo(Opened(fds, what), k + 1)
         /\ Opened(fds, what)[k] = what
         /\ \A n \in Fds : n # k => Opened(fds, what)[n] = fds[n]
  <1>1. Opened(fds, what) = [fds EXCEPT ![k] = what]
    BY LowestIs DEF Opened
  <1>2. what # None
    BY DEF None
  <1> QED  BY <1>1, <1>2 DEF UsedTo, FdTables, Fds

\* In any case what is opened leaves a table.
LEMMA OpenedType ==
  ASSUME NEW fds \in FdTables, NEW what \in {"test", "socket", "listen", "device"}
  PROVE  Opened(fds, what) \in FdTables
  <1> DEFINE n == Lowest(fds)
  <1> HIDE DEF n
  <1>1. [fds EXCEPT ![n] = what] \in FdTables
    BY DEF FdTables
  <1> QED  BY <1>1 DEF Opened, n

-----------------------------------------------------------------------------
(* Steps of one daemon.                                                    *)

\* d alone is changed, and becomes r.
Becomes(d, r) == /\ daemon'[d] = r
                 /\ \A e \in Daemons \ {d} : daemon'[e] = daemon[e]

\* The fields that Goes() changes.
Like(r, s) == /\ r.tcp = s.tcp /\ r.trust = s.trust
              /\ r.spawnfd = s.spawnfd

LEMMA Replaced ==
  ASSUME Typed, NEW d \in Daemons, NEW r \in Records, daemon' = [daemon EXCEPT ![d] = r]
  PROVE  Typed' /\ Becomes(d, r)
  BY DEF Typed, Becomes

LEMMA GoesTo ==
  ASSUME Typed, NEW d \in Daemons, NEW pc \in Pcs, NEW fds \in FdTables, Goes(d, pc, fds)
  PROVE  /\ Typed'
         /\ \E r \in Records : /\ Becomes(d, r) /\ Like(r, daemon[d])
                               /\ r.pc = pc /\ r.fds = fds /\ r.rung = daemon[d].rung
  <1> DEFINE r == [daemon[d] EXCEPT !.pc = pc, !.fds = fds]
  <1>1. daemon[d] \in Records
    BY DEF Typed
  <1>2. r \in Records /\ Like(r, daemon[d]) /\ r.pc = pc /\ r.fds = fds /\ r.rung = daemon[d].rung
    BY <1>1 DEF Records, Like
  <1>3. daemon' = [daemon EXCEPT ![d] = r]
    BY DEF Goes
  <1> HIDE DEF r
  <1>4. Typed' /\ Becomes(d, r)
    BY <1>2, <1>3, Replaced
  <1> QED  BY <1>2, <1>4


\* The same for To().
LEMMA ToIs ==
  ASSUME Typed, NEW d \in Daemons, NEW pc \in Pcs, To(d, pc)
  PROVE  /\ Typed'
         /\ \E r \in Records : /\ Becomes(d, r) /\ Like(r, daemon[d]) /\ r.pc = pc
                               /\ r.fds = daemon[d].fds /\ r.rung = daemon[d].rung
  <1>1. daemon[d].fds \in FdTables
    BY DEF Typed, Records
  <1> QED  BY <1>1, GoesTo DEF To

\* A step of one daemon leaves the others as they are.
LEMMA TidyStep ==
  ASSUME AllTidy, NEW d \in Daemons, NEW r, Becomes(d, r), Tidy(r)
  PROVE  AllTidy'
  BY DEF AllTidy, Becomes

\* Two daemons in Window are seen by the history variable.
LEMMA ApartNext ==
  ASSUME Aside, ~overlapped'
  PROVE  ~overlapped /\ Apart'
  <1> DEFINE S == {d \in Daemons : daemon[d].pc \in Window}
  <1>1. ~overlapped /\ ~(Cardinality(S') > 1)
    BY DEF Aside, Overlap
  <1>2. IsFiniteSet(S')
    BY StartupAssumption, FS_Subset
  <1>3. ASSUME NEW d \in S', NEW e \in S', d # e
        PROVE  FALSE
    <2>1. {d, e} \subseteq S'
      BY <1>3
    <2>2. Cardinality({d, e}) = 2
      <3> DEFINE T == {d}
      <3>1. IsFiniteSet(T) /\ Cardinality(T) = 1 /\ e \notin T /\ {d, e} = T \cup {e}
        BY <1>3, FS_Singleton
      <3> HIDE DEF T
      <3>2. Cardinality(T \cup {e}) = Cardinality(T) + 1
        BY <3>1, FS_AddElement
      <3> QED  BY <3>1, <3>2
    <2>3. Cardinality({d, e}) <= Cardinality(S')
      BY <1>2, <2>1, FS_Subset
    <2>4. Cardinality(S') \in Nat
      BY <1>2, FS_CardinalityType
    <2> QED  BY <1>1, <2>2, <2>3, <2>4
  <1> QED  BY <1>1, <1>3 DEF Apart
Removing == {"unlink", "bind", "cleanup"}

\* A step of d that leaves the name alone.  If d comes to where it may remove or
\* bind the name, it was there before, or was up itself, or nobody else is up.
LEMMA QuietStep ==
  ASSUME IInv, Aside, Typed', NEW d \in Daemons, NEW r \in Records, Becomes(d, r), Tidy(r),
         name' = name,
         name = d => ~r.tcp /\ r.pc \in Keepers,
         UpRecord(r) => Up(d),
         r.pc \in Removing /\ ~overlapped' =>
            \/ daemon[d].pc \in Removing
            \/ Up(d)
            \/ \A e \in Daemons \ {d} : ~Up(e)
  PROVE  IInv'
  <1>1. AllTidy'
    BY TidyStep DEF IInv
  <1>2. NameKept'
    BY DEF IInv, NameKept, Becomes
  <1>3. ASSUME ~overlapped' PROVE Apart' /\ Held' /\ Alone'
    <2>1. Apart' /\ Apart /\ Held /\ Alone
      BY <1>3, ApartNext DEF IInv, Ordered
    <2>2. \A e \in Daemons \ {d} : Up(e)' = Up(e) /\ daemon'[e].pc = daemon[e].pc
      BY DEF Becomes, Up
    <2>3. Up(d)' = UpRecord(r) /\ daemon'[d].pc = r.pc
      BY DEF Becomes, Up
    <2>4. Held'
      BY <2>1, <2>2, <2>3 DEF Held
    <2>5. r.pc \in Removing => ~UpRecord(r)
      BY DEF Removing, UpRecord
    <2>6. ASSUME NEW e \in Daemons \ {d}, r.pc \in Removing
          PROVE  ~Up(e)
      BY <1>3, <2>1, <2>6 DEF Alone, Held, Removing
    <2>7. Alone'
      BY <2>1, <2>2, <2>3, <2>5, <2>6 DEF Alone, Removing
    <2> QED  BY <2>1, <2>4, <2>7
  <1> QED  BY <1>1, <1>2, <1>3 DEF IInv, Ordered

\* A step of d that removes the name.
LEMMA RemoveStep ==
  ASSUME IInv, Aside, Typed', NEW d \in Daemons, NEW r \in Records, Becomes(d, r), Tidy(r),
         daemon[d].pc \in Removing, name' = None, ~UpRecord(r)
  PROVE  IInv'
  <1>1. AllTidy'
    BY TidyStep DEF IInv
  <1>2. NameKept'
    BY StartupAssumption DEF NameKept
  <1>3. ASSUME ~overlapped' PROVE Apart' /\ Held' /\ Alone'
    <2>1. Apart' /\ Alone
      BY <1>3, ApartNext DEF IInv, Ordered
    <2>2. \A e \in Daemons \ {d} : Up(e)' = Up(e)
      BY DEF Becomes, Up
    <2>3. Up(d)' = UpRecord(r)
      BY DEF Becomes, Up
    <2>4. \A e \in Daemons : ~Up(e)'
      BY <2>1, <2>2, <2>3 DEF Alone, Removing
    <2> QED  BY <2>1, <2>4 DEF Held, Alone
  <1> QED  BY <1>1, <1>2, <1>3 DEF IInv, Ordered

\* The step that binds it.
LEMMA BindStep ==
  ASSUME IInv, Aside, Typed', NEW d \in Daemons, NEW r \in Records, Becomes(d, r), Tidy(r),
         daemon[d].pc = "bind", r.pc = "listen", name' = d
  PROVE  IInv'
  <1>1. AllTidy'
    BY TidyStep DEF IInv
  <1>2. NameKept'
    BY DEF NameKept, Becomes, Tidy, Keepers
  <1>3. ASSUME ~overlapped' PROVE Apart' /\ Held' /\ Alone'
    <2>1. Apart' /\ Alone
      BY <1>3, ApartNext DEF IInv, Ordered
    <2>2. \A e \in Daemons \ {d} : Up(e)' = Up(e) /\ ~Up(e)
      BY <2>1 DEF Becomes, Up, Alone
    <2>3. daemon'[d].pc = "listen"
      BY DEF Becomes
    <2>4. Held'
      BY <2>2 DEF Held
    <2>5. \A e \in Daemons : daemon'[e].pc \notin Removing
      BY <2>1, <2>3 DEF Apart, Removing, Window
    <2> QED  BY <2>1, <2>4, <2>5 DEF Alone, Removing
  <1> QED  BY <1>1, <1>2, <1>3 DEF IInv, Ordered
-----------------------------------------------------------------------------
(* The invariant is kept by every step of a daemon.                        *)

\* What the invariant says of one daemon.
LEMMA OfOne ==
  ASSUME IInv, NEW d \in Daemons
  PROVE  /\ Typed /\ Tidy(daemon[d]) /\ daemon[d] \in Records
         /\ daemon[d].fds \in FdTables /\ daemon[d].tcp \in BOOLEAN
         /\ name = d => ~daemon[d].tcp /\ daemon[d].pc \in Keepers
  BY DEF IInv, AllTidy, NameKept, Typed, Records

\* A daemon gives up: unlink() is next if it uses the UNIX socket.
LEMMA GivingKeeps ==
  ASSUME IInv, Aside, NEW d \in Daemons, Giving(d), name' = name,
         daemon[d].pc \in {"bind", "listen", "audio"}
  PROVE  IInv'
  <1> DEFINE pc == IF daemon[d].tcp THEN "exit" ELSE "cleanup"
  <1>1. pc \in Pcs
    BY DEF Pcs
  <1>2. To(d, pc)
    BY DEF Giving
  <1>3. Typed'
    BY <1>1, <1>2, ToIs, OfOne
  <1>4. PICK r \in Records : /\ Becomes(d, r) /\ Like(r, daemon[d]) /\ r.pc = pc
                             /\ r.fds = daemon[d].fds /\ r.rung = daemon[d].rung
    BY <1>1, <1>2, ToIs, OfOne
  <1>5. Tidy(r)
    BY <1>4, OfOne DEF Tidy, Like
  <1>6. ~UpRecord(r)
    BY <1>4 DEF UpRecord
  <1>7. name = d => ~r.tcp /\ r.pc \in Keepers
    BY <1>4, OfOne DEF Like, Keepers
  <1>8. r.pc \in Removing => daemon[d].pc \in Removing \/ Up(d)
    BY <1>4, OfOne DEF Like, Removing, Up, UpRecord
  <1> QED  BY <1>3, <1>4, <1>5, <1>6, <1>7, <1>8, QuietStep

\* A step to a place that no fact depends on.
LEMMA PlainKeeps ==
  ASSUME IInv, Aside, NEW d \in Daemons, NEW pc \in {"lstat", "connect", "exit"}, To(d, pc),
         daemon[d].pc \in {"mkdir", "lstat", "connect", "bindport", "rmdir"}, name' = name,
         pc # "exit" => daemon[d].pc \in {"mkdir", "lstat"}
  PROVE  IInv'
  <1>1. pc \in Pcs
    BY DEF Pcs
  <1>2. Typed'
    BY <1>1, ToIs, OfOne
  <1>3. PICK r \in Records : /\ Becomes(d, r) /\ Like(r, daemon[d]) /\ r.pc = pc
                             /\ r.fds = daemon[d].fds /\ r.rung = daemon[d].rung
    BY <1>1, ToIs, OfOne
  <1>4. Tidy(r)
    BY <1>3, OfOne DEF Tidy, Like
  <1>5. ~UpRecord(r)
    BY <1>3 DEF UpRecord
  <1>6. name # d
    BY OfOne DEF Keepers
  <1>7. r.pc \notin Removing
    BY <1>3 DEF Removing
  <1> QED  BY <1>2, <1>3, <1>4, <1>5, <1>6, <1>7, QuietStep

LEMMA CloseAllKeeps ==
  ASSUME IInv, Aside, NEW d \in Daemons, CloseAll(d)
  PROVE  IInv'
  <1> DEFINE pc == IF daemon[d].tcp THEN "bindport" ELSE "mkdir"
  <1>1. pc \in Pcs /\ Goes(d, pc, Std) /\ name' = name /\ daemon[d].pc = "main"
    BY DEF Pcs, CloseAll, shared
  <1>2. Std \in FdTables /\ UsedTo(Std, 3)
    BY DEF Std, FdTables, UsedTo, Fds, None
  <1>3. Typed'
    BY <1>1, <1>2, GoesTo, OfOne
  <1>4. PICK r \in Records : /\ Becomes(d, r) /\ Like(r, daemon[d]) /\ r.pc = pc
                             /\ r.fds = Std /\ r.rung = daemon[d].rung
    BY <1>1, <1>2, GoesTo, OfOne
  <1>5. Tidy(r)
    BY <1>1, <1>2, <1>4, OfOne DEF Tidy, Like
  <1>6. ~UpRecord(r) /\ r.pc \notin Removing
    BY <1>4 DEF UpRecord, Removing
  <1>7. name # d
    BY <1>1, OfOne DEF Keepers
  <1> QED  BY <1>1, <1>3, <1>4, <1>5, <1>6, <1>7, QuietStep

LEMMA DirectoryKeeps ==
  ASSUME IInv, Aside, NEW d \in Daemons, Mkdir(d) \/ Lstat(d) \/ Rmdir(d)
  PROVE  IInv'
  <1>1. CASE Mkdir(d)
    <2> DEFINE pc == IF dir = "none" THEN "connect" ELSE "lstat"
    <2>1. pc \in {"lstat", "connect", "exit"} /\ pc # "exit" /\ To(d, pc)
      BY <1>1 DEF Mkdir
    <2>2. daemon[d].pc = "mkdir" /\ name' = name
      BY <1>1 DEF Mkdir
    <2> HIDE DEF pc
    <2> QED  BY <2>1, <2>2, PlainKeeps
  <1>2. CASE Lstat(d)
    <2>1. daemon[d].pc = "lstat" /\ name' = name
      BY <1>2 DEF Lstat
    <2>2. To(d, "exit") \/ To(d, "connect")
      BY <1>2 DEF Lstat
    <2> QED  BY <2>1, <2>2, PlainKeeps
  <1>3. CASE Rmdir(d)
    BY <1>3, PlainKeeps DEF Rmdir
  <1> QED  BY <1>1, <1>2, <1>3

\* Nobody answers: then nobody is up, or another daemon is between bind() and
\* listen() and the two overlap.
LEMMA TestConnectKeeps ==
  ASSUME IInv, Aside, NEW d \in Daemons, TestConnect(d)
  PROVE  IInv'
  <1>1. daemon[d].pc = "connect" /\ name' = name
    BY DEF TestConnect, shared
  <1>2. CASE Answers
    BY <1>1, <1>2, PlainKeeps DEF TestConnect
  <1>3. CASE ~Answers
    <2> DEFINE fds == Opened(daemon[d].fds, "test")
    <2>1. fds \in FdTables /\ UsedTo(fds, 4)
      BY <1>1, OfOne, OpenedIs DEF Tidy, Fds
    <2>2. Goes(d, "unlink", fds) /\ "unlink" \in Pcs
      BY <1>3 DEF TestConnect, Pcs
    <2> HIDE DEF fds
    <2>3. Typed'
      BY <2>1, <2>2, GoesTo, OfOne
    <2>4. PICK r \in Records : /\ Becomes(d, r) /\ Like(r, daemon[d]) /\ r.pc = "unlink"
                               /\ r.fds = fds /\ r.rung = daemon[d].rung
      BY <2>1, <2>2, GoesTo, OfOne
    <2>5. Tidy(r)
      BY <1>1, <2>1, <2>4, OfOne DEF Tidy, Like
    <2>6. ~UpRecord(r)
      BY <2>4 DEF UpRecord
    <2>7. name # d
      BY <1>1, OfOne DEF Keepers
    <2>8. ASSUME ~overlapped', NEW e \in Daemons \ {d}, Up(e)
          PROVE  FALSE
      <3>1. Apart' /\ Held
        BY <2>8, ApartNext DEF IInv, Ordered
      <3>2. name = e /\ name # None
        BY <2>8, <3>1, StartupAssumption DEF Held
      <3>3. daemon[e].pc = "listen"
        BY <1>3, <2>8, <3>2, OfOne DEF Answers, Listens, Up, UpRecord, Tidy, Fds
      <3> QED  BY <2>4, <3>1, <3>3 DEF Apart, Becomes, Window
    <2> QED  BY <1>1, <2>3, <2>4, <2>5, <2>6, <2>7, <2>8, QuietStep
  <1> QED  BY <1>2, <1>3
LEMMA UnlinkKeeps ==
  ASSUME IInv, Aside, NEW d \in Daemons, Unlink(d)
  PROVE  IInv'
  <1>1. daemon[d].pc = "unlink" /\ name' = None /\ ~daemon[d].tcp
    BY OfOne DEF Unlink, Tidy
  <1> DEFINE fds == Opened(daemon[d].fds, "socket")
  <1>2. fds \in FdTables /\ UsedTo(fds, 5) /\ fds[4] = "socket"
    BY <1>1, OfOne, OpenedIs DEF Tidy, Fds
  <1>3. Goes(d, "bind", fds) \/ To(d, "cleanup")
    BY <1>1 DEF Unlink, Giving
  <1> HIDE DEF fds
  <1>4. {"bind", "cleanup"} \subseteq Pcs
    BY DEF Pcs
  <1>5. Typed'
    BY <1>2, <1>3, <1>4, GoesTo, ToIs, OfOne
  <1>6. PICK r \in Records :
          /\ Becomes(d, r) /\ Like(r, daemon[d]) /\ r.rung = daemon[d].rung
          /\ (r.pc = "bind" /\ r.fds = fds) \/ r.pc = "cleanup"
    BY <1>2, <1>3, <1>4, GoesTo, ToIs, OfOne
  <1>7. Tidy(r)
    BY <1>1, <1>2, <1>6, OfOne DEF Tidy, Like
  <1>8. ~UpRecord(r) /\ daemon[d].pc \in Removing
    BY <1>1, <1>6 DEF UpRecord, Removing
  <1> QED  BY <1>1, <1>5, <1>6, <1>7, <1>8, RemoveStep

LEMMA BindKeeps ==
  ASSUME IInv, Aside, NEW d \in Daemons, Bind(d)
  PROVE  IInv'
  <1>1. daemon[d].pc = "bind"
    BY DEF Bind
  <1>2. CASE Giving(d) /\ name' = name
    BY <1>1, <1>2, GivingKeeps
  <1>3. CASE To(d, "listen") /\ name' = d
    <2>1. "listen" \in Pcs
      BY DEF Pcs
    <2>2. Typed'
      BY <1>3, <2>1, ToIs, OfOne
    <2>3. PICK r \in Records : /\ Becomes(d, r) /\ Like(r, daemon[d]) /\ r.pc = "listen"
                               /\ r.fds = daemon[d].fds /\ r.rung = daemon[d].rung
      BY <1>3, <2>1, ToIs, OfOne
    <2>4. Tidy(r)
      BY <1>1, <2>3, OfOne DEF Tidy, Like
    <2> QED  BY <1>1, <1>3, <2>2, <2>3, <2>4, BindStep
  <1> QED  BY <1>2, <1>3 DEF Bind

LEMMA ListenKeeps ==
  ASSUME IInv, Aside, NEW d \in Daemons, Listen(d)
  PROVE  IInv'
  <1>1. daemon[d].pc = "listen" /\ name' = name /\ ~daemon[d].tcp
    BY OfOne DEF Listen, shared, Tidy
  <1>2. CASE Giving(d)
    BY <1>1, <1>2, GivingKeeps
  <1> DEFINE fds == [n \in Fds |-> IF daemon[d].fds[n] = "socket" THEN "listen"
                                   ELSE daemon[d].fds[n]]
  <1>3. CASE Goes(d, "audio", fds)
    <2>1. daemon[d].fds \in FdTables /\ UsedTo(daemon[d].fds, 5) /\ daemon[d].fds[4] = "socket"
      BY <1>1, OfOne DEF Tidy
    <2>2. fds \in FdTables /\ "audio" \in Pcs
      BY <2>1 DEF FdTables, Pcs
    <2>3. UsedTo(fds, 5) /\ fds[4] = "listen"
      BY <2>1 DEF UsedTo, Fds, None
    <2> HIDE DEF fds
    <2>4. Typed'
      BY <1>3, <2>2, GoesTo, OfOne
    <2>5. PICK r \in Records : /\ Becomes(d, r) /\ Like(r, daemon[d]) /\ r.pc = "audio"
                               /\ r.fds = fds /\ r.rung = daemon[d].rung
      BY <1>3, <2>2, GoesTo, OfOne
    <2>6. Tidy(r)
      BY <1>1, <2>3, <2>5, OfOne, StartupAssumption DEF Tidy, Like
    <2>7. Up(d) /\ r.pc \notin Removing
      BY <1>1, <2>5 DEF Up, UpRecord, Removing
    <2>8. ~r.tcp /\ r.pc \in Keepers
      BY <1>1, <2>5 DEF Keepers, Like
    <2> QED  BY <1>1, <2>4, <2>5, <2>6, <2>7, <2>8, QuietStep
  <1> QED  BY <1>2, <1>3 DEF Listen

LEMMA BindPortKeeps ==
  ASSUME IInv, Aside, NEW d \in Daemons, BindPort(d)
  PROVE  IInv'
  <1>1. daemon[d].pc = "bindport" /\ name' = name /\ daemon[d].tcp
    BY OfOne DEF BindPort, Tidy
  <1>2. CASE To(d, "exit")
    BY <1>1, <1>2, PlainKeeps
  <1> DEFINE fds == Opened(daemon[d].fds, "listen")
  <1>3. CASE Goes(d, "audio", fds)
    <2>1. fds \in FdTables /\ "audio" \in Pcs
      BY OpenedType, OfOne DEF Pcs
    <2> HIDE DEF fds
    <2>2. Typed'
      BY <1>3, <2>1, GoesTo, OfOne
    <2>3. PICK r \in Records : /\ Becomes(d, r) /\ Like(r, daemon[d]) /\ r.pc = "audio"
                               /\ r.fds = fds /\ r.rung = daemon[d].rung
      BY <1>3, <2>1, GoesTo, OfOne
    <2>4. Tidy(r)
      BY <1>1, <2>3, OfOne, StartupAssumption DEF Tidy, Like
    <2>5. ~UpRecord(r) /\ r.pc \notin Removing
      BY <1>1, <2>3 DEF UpRecord, Removing, Like
    <2>6. name # d
      BY <1>1, OfOne DEF Keepers
    <2> QED  BY <1>1, <2>2, <2>3, <2>4, <2>5, <2>6, QuietStep
  <1> QED  BY <1>2, <1>3 DEF BindPort
\* The device is opened: the descriptor it gets is not that of the socket.
LEMMA OpenedAudioKeeps ==
  ASSUME IInv, Aside, NEW d \in Daemons, daemon[d].pc = "audio", name' = name,
         Goes(d, "ready", Opened(daemon[d].fds, "device"))
  PROVE  IInv'
  <1> DEFINE fds == Opened(daemon[d].fds, "device")
  <1>1. fds \in FdTables /\ "ready" \in Pcs
    BY OpenedType, OfOne DEF Pcs
  <1>2. ~daemon[d].tcp => fds[4] = "listen"
    BY OpenedIs, OfOne DEF Tidy, Fds
  <1> HIDE DEF fds
  <1>3. Typed'
    BY <1>1, GoesTo, OfOne DEF fds
  <1>4. PICK r \in Records : /\ Becomes(d, r) /\ Like(r, daemon[d]) /\ r.pc = "ready"
                             /\ r.fds = fds /\ r.rung = daemon[d].rung
    BY <1>1, GoesTo, OfOne DEF fds
  <1>5. Tidy(r)
    BY <1>2, <1>4, OfOne DEF Tidy, Like
  <1>6. (UpRecord(r) => Up(d)) /\ r.pc \notin Removing
    BY <1>4 DEF UpRecord, Up, Removing, Like
  <1>7. name = d => ~r.tcp /\ r.pc \in Keepers
    BY <1>4, OfOne DEF Keepers, Like
  <1> QED  BY <1>3, <1>4, <1>5, <1>6, <1>7, QuietStep

\* An attempt of the ladder fails; the ladder ends before rung Attempts + 2.
LEMMA NextRungKeeps ==
  ASSUME IInv, Aside, NEW d \in Daemons, daemon[d].pc = "audio", name' = name, NextRung(d)
  PROVE  IInv'
  <1> DEFINE pc == IF daemon[d].rung < Attempts THEN "audio"
                   ELSE IF daemon[d].tcp THEN "exit" ELSE "cleanup"
             rung == daemon[d].rung + 1
             r == [daemon[d] EXCEPT !.rung = rung, !.pc = pc]
  <1>1. daemon[d] \in Records /\ daemon[d].rung \in Rungs /\ daemon[d].rung <= Attempts
    BY OfOne DEF Records, Tidy
  <1>2. pc \in Pcs /\ rung \in Rungs
    BY <1>1, StartupAssumption DEF Pcs, Rungs
  <1>3. daemon' = [daemon EXCEPT ![d] = r]
    <2>1. CASE daemon[d].rung < Attempts
      <3>1. [daemon[d] EXCEPT !.rung = rung] = r
        BY <1>1, <2>1 DEF Records
      <3> QED  BY <2>1, <3>1 DEF NextRung
    <2>2. CASE ~(daemon[d].rung < Attempts)
      BY <2>2 DEF NextRung
    <2> QED  BY <2>1, <2>2
  <1> HIDE DEF pc, rung
  <1>4. r \in Records /\ r.pc = pc /\ r.rung = rung /\ r.fds = daemon[d].fds /\ Like(r, daemon[d])
    BY <1>1, <1>2 DEF Records, Like
  <1> HIDE DEF r
  <1>5. Typed' /\ Becomes(d, r)
    BY <1>3, <1>4, Replaced, OfOne
  <1>6. Tidy(r)
    BY <1>1, <1>4, OfOne, StartupAssumption DEF Tidy, Like, pc, rung, Rungs
  <1>7. UpRecord(r) => Up(d)
    BY <1>4 DEF UpRecord, Up, Like
  <1>8. name = d => ~r.tcp /\ r.pc \in Keepers
    BY <1>4, OfOne DEF Keepers, Like, pc
  <1>9. r.pc \in Removing => Up(d)
    BY <1>4, OfOne DEF Removing, Up, UpRecord, pc
  <1> QED  BY <1>4, <1>5, <1>6, <1>7, <1>8, <1>9, QuietStep

LEMMA OpenAudioKeeps ==
  ASSUME IInv, Aside, NEW d \in Daemons, OpenAudio(d)
  PROVE  IInv'
  <1>1. daemon[d].pc = "audio" /\ name' = name
    BY DEF OpenAudio
  <1>2. CASE Goes(d, "ready", Opened(daemon[d].fds, "device"))
    BY <1>1, <1>2, OpenedAudioKeeps
  <1>3. CASE Giving(d)
    BY <1>1, <1>3, GivingKeeps
  <1>4. CASE NextRung(d)
    BY <1>1, <1>4, NextRungKeeps
  <1> QED  BY <1>2, <1>3, <1>4 DEF OpenAudio

LEMMA ReadyKeeps ==
  ASSUME IInv, Aside, NEW d \in Daemons, Ready(d)
  PROVE  IInv'
  <1> DEFINE closed == IF daemon[d].spawnfd >= 0 THEN {daemon[d].spawnfd} ELSE {}
             fds == [n \in Fds |-> IF n \in closed THEN None ELSE daemon[d].fds[n]]
  <1>1. daemon[d].pc = "ready" /\ name' = name /\ Goes(d, "serving", fds)
    BY DEF Ready
  <1> HIDE DEF closed
  <1>2. fds \in FdTables /\ "serving" \in Pcs
    BY OfOne DEF FdTables, Pcs
  <1> HIDE DEF fds
  <1>3. Typed'
    BY <1>1, <1>2, GoesTo, OfOne
  <1>4. PICK r \in Records : /\ Becomes(d, r) /\ Like(r, daemon[d]) /\ r.pc = "serving"
                             /\ r.fds = fds /\ r.rung = daemon[d].rung
    BY <1>1, <1>2, GoesTo, OfOne
  <1>5. Tidy(r)
    BY <1>4 DEF Tidy
  <1>6. (UpRecord(r) => Up(d)) /\ r.pc \notin Removing
    BY <1>1, <1>4 DEF UpRecord, Up, Removing, Like
  <1>7. name = d => ~r.tcp /\ r.pc \in Keepers
    BY <1>4, OfOne DEF Keepers, Like
  <1> QED  BY <1>1, <1>3, <1>4, <1>5, <1>6, <1>7, QuietStep

LEMMA StopKeeps ==
  ASSUME IInv, Aside, NEW d \in Daemons, Stop(d)
  PROVE  IInv'
  <1>1. daemon[d].pc = "serving" /\ Listens(d) /\ name' = name /\ To(d, "closing")
    BY DEF Stop, Serves
  <1>2. "closing" \in Pcs
    BY DEF Pcs
  <1>3. Typed'
    BY <1>1, <1>2, ToIs, OfOne
  <1>4. PICK r \in Records : /\ Becomes(d, r) /\ Like(r, daemon[d]) /\ r.pc = "closing"
                             /\ r.fds = daemon[d].fds /\ r.rung = daemon[d].rung
    BY <1>1, <1>2, ToIs, OfOne
  <1>5. Tidy(r)
    BY <1>1, <1>4 DEF Tidy, Listens
  <1>6. (UpRecord(r) => Up(d)) /\ r.pc \notin Removing
    BY <1>1, <1>4 DEF UpRecord, Up, Removing, Like, Listens
  <1>7. name = d => ~r.tcp /\ r.pc \in Keepers
    BY <1>4, OfOne DEF Keepers, Like
  <1> QED  BY <1>1, <1>3, <1>4, <1>5, <1>6, <1>7, QuietStep

LEMMA CloseListenKeeps ==
  ASSUME IInv, Aside, NEW d \in Daemons, CloseListen(d)
  PROVE  IInv'
  <1> DEFINE pc == IF daemon[d].tcp THEN "exit" ELSE "cleanup"
  <1>1. daemon[d].pc = "closing" /\ name' = name /\ Goes(d, pc, Std)
    BY DEF CloseListen, Goes
  <1>2. pc \in Pcs /\ Std \in FdTables
    BY DEF Pcs, Std, FdTables
  <1>3. Typed'
    BY <1>1, <1>2, GoesTo, OfOne
  <1>4. PICK r \in Records : /\ Becomes(d, r) /\ Like(r, daemon[d]) /\ r.pc = pc
                             /\ r.fds = Std /\ r.rung = daemon[d].rung
    BY <1>1, <1>2, GoesTo, OfOne
  <1>5. Tidy(r)
    BY <1>4, OfOne DEF Tidy, Like
  <1>6. ~UpRecord(r)
    BY <1>4 DEF UpRecord
  <1>7. name = d => ~r.tcp /\ r.pc \in Keepers
    BY <1>4, OfOne DEF Keepers, Like
  <1>8. r.pc \in Removing => Up(d)
    BY <1>1, <1>4, OfOne DEF Removing, Up, UpRecord
  <1> QED  BY <1>1, <1>3, <1>4, <1>5, <1>6, <1>7, <1>8, QuietStep

LEMMA CleanupKeeps ==
  ASSUME IInv, Aside, NEW d \in Daemons, Cleanup(d)
  PROVE  IInv'
  <1>1. daemon[d].pc = "cleanup" /\ name' = None /\ To(d, "rmdir")
    BY DEF Cleanup
  <1>2. "rmdir" \in Pcs
    BY DEF Pcs
  <1>3. Typed'
    BY <1>1, <1>2, ToIs, OfOne
  <1>4. PICK r \in Records : /\ Becomes(d, r) /\ Like(r, daemon[d]) /\ r.pc = "rmdir"
                             /\ r.fds = daemon[d].fds /\ r.rung = daemon[d].rung
    BY <1>1, <1>2, ToIs, OfOne
  <1>5. Tidy(r)
    BY <1>1, <1>4, OfOne DEF Tidy, Like
  <1>6. ~UpRecord(r) /\ daemon[d].pc \in Removing
    BY <1>1, <1>4 DEF UpRecord, Removing
  <1> QED  BY <1>1, <1>3, <1>4, <1>5, <1>6, RemoveStep

\* The end of a process; one that exits has no name any more.
LEMMA GoneKeeps ==
  ASSUME IInv, Aside, NEW d \in Daemons, name' = name, NEW pc \in Over, Gone(d, pc),
         pc = "exited" => daemon[d].pc = "exit"
  PROVE  IInv'
  <1> DEFINE r == [Off EXCEPT !.pc = pc]
  <1>1. pc \in Pcs /\ 1 \in Rungs /\ Empty \in FdTables
    BY StartupAssumption DEF Pcs, Rungs, Empty, FdTables
  <1>2. r \in Records /\ r.pc = pc /\ ~r.tcp
    BY <1>1 DEF Off, Records
  <1>3. daemon' = [daemon EXCEPT ![d] = r]
    BY DEF Gone
  <1> HIDE DEF r
  <1>4. Typed' /\ Becomes(d, r)
    BY <1>2, <1>3, Replaced, OfOne
  <1>5. Tidy(r) /\ ~UpRecord(r) /\ r.pc \notin Removing
    BY <1>2 DEF Tidy, UpRecord, Over, Removing
  <1>6. name = d => ~r.tcp /\ r.pc \in Keepers
    BY <1>2, OfOne DEF Keepers, Over
  <1> QED  BY <1>2, <1>4, <1>5, <1>6, QuietStep

LEMMA EndKeeps ==
  ASSUME IInv, Aside, NEW d \in Daemons, Exit(d) \/ Deaf(d) \/ ResetInSelect(d) \/ Kill(d)
  PROVE  IInv'
  <1>1. CASE Exit(d)
    BY <1>1, GoneKeeps DEF Exit, Over
  <1>2. CASE Deaf(d)
    BY <1>2, GoneKeeps DEF Deaf, Over
  <1>3. CASE ResetInSelect(d)
    BY <1>3, GoneKeeps DEF ResetInSelect, Over
  <1>4. CASE Kill(d)
    BY <1>4, GoneKeeps DEF Kill, Over
  <1> QED  BY <1>1, <1>2, <1>3, <1>4

\* A daemon that starts, by hand or spawned.
LEMMA ProcessKeeps ==
  ASSUME IInv, Aside, NEW d \in Daemons, name' = name, daemon[d].pc = "off",
         NEW argv, NEW fd \in {-1} \cup SpawnFds,
         daemon' = [daemon EXCEPT ![d] = Process(argv, fd)]
  PROVE  IInv'
  <1> DEFINE fds == [n \in Fds |-> IF n = fd THEN "pipe" ELSE None]
             tcp == UseTcpip(Opts(argv, fd >= 0))
             trust == Contains(Opts(argv, fd >= 0), "-trust")
             r == [Off EXCEPT !.pc = "main", !.tcp = tcp, !.trust = trust, !.spawnfd = fd,
                              !.fds = fds]
  <1>1. "main" \in Pcs /\ "off" \in Pcs /\ 1 \in Rungs
    BY StartupAssumption DEF Pcs, Rungs
  <1>2. Empty \in FdTables /\ fds \in FdTables
    BY DEF Empty, FdTables
  <1>3. tcp \in BOOLEAN /\ trust \in BOOLEAN
    BY DEF UseTcpip, Contains
  <1>4. Process(argv, fd) = r
    BY DEF Process
  <1> HIDE DEF fds, tcp, trust
  <1>5. r \in Records /\ r.pc = "main" /\ r.rung = 1
    BY <1>1, <1>2, <1>3 DEF Off, Records
  <1>6. daemon' = [daemon EXCEPT ![d] = r]
    BY <1>4
  <1> HIDE DEF r
  <1>7. Typed' /\ Becomes(d, r)
    BY <1>5, <1>6, Replaced, OfOne
  <1>8. Tidy(r) /\ ~UpRecord(r) /\ r.pc \notin Removing
    BY <1>5 DEF Tidy, UpRecord, Removing
  <1>9. name # d
    BY OfOne DEF Keepers
  <1> QED  BY <1>5, <1>7, <1>8, <1>9, QuietStep

LEMMA StartKeeps ==
  ASSUME IInv, Aside, NEW d \in Daemons, Start(d)
  PROVE  IInv'
  BY ProcessKeeps DEF Start, shared

LEMMA SpawnKeeps ==
  ASSUME IInv, Aside, NEW c \in Clients, Spawn(c)
  PROVE  IInv'
  BY ProcessKeeps DEF Spawn, shared

\* Steps that leave the daemons and the name alone.
LEMMA OthersKeep ==
  ASSUME IInv, Aside, daemon' = daemon, name' = name
  PROVE  IInv'
  <1>1. Typed' /\ AllTidy' /\ NameKept'
    BY DEF IInv, Typed, AllTidy, NameKept
  <1>2. Apart' = Apart /\ Held' = Held /\ Alone' = Alone
    BY DEF Apart, Held, Alone, Up
  <1>3. ASSUME ~overlapped' PROVE ~overlapped
    BY <1>3, ApartNext
  <1> QED  BY <1>1, <1>2, <1>3 DEF IInv, Ordered

LEMMA ClientKeeps ==
  ASSUME IInv, Aside, NEW c \in Clients, ClientStep(c) \/ Open(c) \/ Close(c)
  PROVE  IInv'
  <1>1. CASE Spawn(c)
    BY <1>1, SpawnKeeps
  <1>2. CASE Open(c) \/ Close(c) \/ Direct(c)
    BY <1>2, OthersKeep DEF Open, Close, Direct, shared
  <1>3. CASE Access(c) \/ ConnectUnix(c) \/ ConnectTcpip(c) \/ CannotSpawn(c) \/ Wait(c)
             \/ ReadPipe(c) \/ Auth(c)
    BY <1>3, OthersKeep
       DEF Access, ConnectUnix, ConnectTcpip, CannotSpawn, Wait, ReadPipe, Auth, shared
  <1> QED  BY <1>1, <1>2, <1>3 DEF ClientStep

LEMMA DaemonKeeps ==
  ASSUME IInv, Aside, NEW d \in Daemons,
         DaemonStep(d) \/ Start(d) \/ Stop(d) \/ ResetInSelect(d) \/ Kill(d)
  PROVE  IInv'
  BY CloseAllKeeps, DirectoryKeeps, TestConnectKeeps, UnlinkKeeps, BindKeeps, ListenKeeps,
     BindPortKeeps, OpenAudioKeeps, ReadyKeeps, StopKeeps, CloseListenKeeps, CleanupKeeps,
     EndKeeps, StartKeeps
  DEF DaemonStep

LEMMA InitIInv == Init => IInv
  <1> SUFFICES ASSUME Init PROVE IInv
    OBVIOUS
  <1>1. Off \in Records /\ Off.pc = "off" /\ Off.rung = 1
    BY StartupAssumption DEF Off, Records, Pcs, Rungs, Empty, FdTables
  <1>2. \A d \in Daemons : daemon[d] = Off
    BY DEF Init
  <1>3. Typed
    BY <1>1 DEF Init, Typed
  <1>4. AllTidy
    BY <1>1, <1>2 DEF AllTidy, Tidy
  <1>5. NameKept
    BY StartupAssumption DEF Init, NameKept
  <1>6. \A d \in Daemons : daemon[d].pc = "off" /\ ~Up(d)
    BY <1>1, <1>2 DEF Up, UpRecord
  <1>7. Apart /\ Held /\ Alone
    BY <1>6 DEF Apart, Held, Alone, Window
  <1> QED  BY <1>3, <1>4, <1>5, <1>7 DEF IInv, Ordered

LEMMA NextIInv == IInv /\ [Next]_vars => IInv'
  <1> SUFFICES ASSUME IInv, [Next]_vars PROVE IInv'
    OBVIOUS
  <1>1. CASE Next
    BY <1>1, DaemonKeeps, ClientKeeps DEF Next
  <1>2. CASE UNCHANGED vars
    <2>1. Typed' /\ AllTidy' /\ NameKept'
      BY <1>2 DEF vars, IInv, Typed, AllTidy, NameKept
    <2>2. Ordered' = Ordered
      BY <1>2 DEF vars, Ordered, Apart, Held, Alone, Up
    <2> QED  BY <2>1, <2>2 DEF IInv
  <1> QED  BY <1>1, <1>2

-----------------------------------------------------------------------------
(* Theorems.                                                               *)

\* The invariant of the start and the end of daemons holds in every behaviour:
\* their descriptors, the ladder, who has the name, who is up.
THEOREM StartupInvariant == Spec => []IInv
  BY InitIInv, NextIInv, PTL DEF Spec

\* However many daemons start, fail, stop, are reset and are killed: after a
\* failed start or a clean_exit() the name that bind() made is not there.  Only a
\* daemon that was killed, or whose select() failed while it served, leaves it.
THEOREM NothingIsLeft == Spec => []NothingLeft
  <1>1. IInv => NothingLeft
    BY DEF IInv, NameKept, NothingLeft, Keepers, Over
  <1> QED  BY <1>1, StartupInvariant, PTL

\* As long as no two daemons were between the test of the name and listen(), or
\* between close() and unlink(), at once, every daemon that serves on the UNIX
\* socket is found under the name, whatever the others do.
THEOREM ServingIsReachable == Spec => []ServingReachable
  <1>1. IInv => ServingReachable
    BY DEF IInv, Ordered, Held, Up, UpRecord, ServingReachable, Serves, Listens
  <1> QED  BY <1>1, StartupInvariant, PTL
-----------------------------------------------------------------------------
(* Types.                                                                  *)

ClientPcs == {"idle", "access", "unix", "tcp", "spawn", "wait", "read", "unix again",
              "tcp again", "auth", "direct", "connected", "playing", "failed", "closed"}
ClientRecords == [pc : ClientPcs, host : Hosts \cup {None}, fallback : BOOLEAN,
                  child : Daemons \cup {None}, pipe : {0, 1}]
ClientsTyped == client \in [Clients -> ClientRecords]
SharedTyped ==
    /\ dir \in {"none", "good", "bad"} /\ port \in Daemons \cup {None}
    /\ device \in Daemons \cup Clients \cup {None}
    /\ setting \in Settings /\ overlapped \in BOOLEAN

LEMMA MovesType ==
  ASSUME ClientsTyped, NEW c \in Clients, NEW pc \in ClientPcs, Moves(c, pc) \/ Ends(c, pc)
  PROVE  ClientsTyped'
  <1> DEFINE r == [client[c] EXCEPT !.pc = pc]
             s == [Idle EXCEPT !.pc = pc]
  <1>1. client[c] \in ClientRecords /\ Idle \in ClientRecords
    BY DEF ClientsTyped, Idle, ClientRecords, ClientPcs
  <1>2. r \in ClientRecords
    BY <1>1 DEF ClientRecords
  <1>3. s \in ClientRecords
    BY <1>1 DEF ClientRecords, Idle
  <1>4. client' = [client EXCEPT ![c] = r] \/ client' = [client EXCEPT ![c] = s]
    BY DEF Moves, Ends
  <1> HIDE DEF r, s
  <1> QED  BY <1>2, <1>3, <1>4 DEF ClientsTyped

LEMMA GivesUpType ==
  ASSUME ClientsTyped, NEW c \in Clients, GivesUp(c)
  PROVE  ClientsTyped'
  <1> DEFINE pc == IF client[c].fallback THEN "direct" ELSE "failed"
  <1>1. pc \in ClientPcs /\ Ends(c, pc)
    BY DEF GivesUp, ClientPcs
  <1> QED  BY <1>1, MovesType

LEMMA ToldType ==
  ASSUME ClientsTyped, NEW d \in Daemons, client' = Told(d) \/ client' = client
  PROVE  ClientsTyped'
  <1>1. \A c \in Clients : client[c] \in ClientRecords
    BY DEF ClientsTyped
  <1>2. \A x \in ClientRecords : [x EXCEPT !.pipe = 1] \in ClientRecords
    BY DEF ClientRecords
  <1> DEFINE told(c) == [client[c] EXCEPT !.pipe = 1]
  <1>3. \A c \in Clients : told(c) \in ClientRecords
    BY <1>1, <1>2
  <1> HIDE DEF told
  <1>4. [c \in Clients |-> IF client[c].child = d THEN told(c) ELSE client[c]]
          \in [Clients -> ClientRecords]
    BY <1>1, <1>3
  <1>5. Told(d) \in [Clients -> ClientRecords]
    BY <1>4 DEF Told, told, ClientsTyped
  <1> QED  BY <1>5 DEF ClientsTyped

LEMMA OpenType ==
  ASSUME ClientsTyped, NEW c \in Clients, Open(c)
  PROVE  ClientsTyped'
  <1>1. PICK h \in Hosts, f \in BOOLEAN :
          client' = [client EXCEPT ![c].host = h, ![c].fallback = f /\ ~Given(h),
                                   ![c].pc = "access"]
    BY DEF Open
  <1> DEFINE g == f /\ ~Given(h)
             r == [client[c] EXCEPT !.host = h, !.fallback = g, !.pc = "access"]
  <1>2. g \in BOOLEAN /\ client[c] \in ClientRecords /\ "access" \in ClientPcs
    BY DEF Given, ClientsTyped, ClientPcs
  <1>3. client' = [client EXCEPT ![c] = r]
    BY <1>1
  <1> HIDE DEF g
  <1>4. r \in ClientRecords
    BY <1>2 DEF ClientRecords
  <1> HIDE DEF r
  <1> QED  BY <1>3, <1>4 DEF ClientsTyped

LEMMA SpawnType ==
  ASSUME ClientsTyped, NEW c \in Clients, Spawn(c)
  PROVE  ClientsTyped'
  <1>1. PICK d \in Daemons : client' = [client EXCEPT ![c].pc = "wait", ![c].child = d]
    BY DEF Spawn
  <1> DEFINE r == [client[c] EXCEPT !.pc = "wait", !.child = d]
  <1>2. client[c] \in ClientRecords /\ "wait" \in ClientPcs
    BY DEF ClientsTyped, ClientPcs
  <1>3. client' = [client EXCEPT ![c] = r]
    BY <1>1
  <1>4. r \in ClientRecords
    BY <1>2 DEF ClientRecords
  <1> HIDE DEF r
  <1> QED  BY <1>3, <1>4 DEF ClientsTyped

LEMMA ClientTypes ==
  ASSUME ClientsTyped, NEW c \in Clients, ClientStep(c) \/ Open(c) \/ Close(c)
  PROVE  ClientsTyped'
  <1>0. \A pc \in ClientPcs : Moves(c, pc) \/ Ends(c, pc) => ClientsTyped'
    BY MovesType
  <1>1. CASE Open(c)
    BY <1>1, OpenType
  <1>2. CASE Spawn(c)
    BY <1>2, SpawnType
  <1>3. CASE Access(c)
    BY <1>0, <1>3 DEF Access, ClientPcs
  <1>4. CASE ConnectUnix(c) \/ ConnectTcpip(c)
    BY <1>0, <1>4, GivesUpType DEF ConnectUnix, ConnectTcpip, ClientPcs
  <1>5. CASE CannotSpawn(c) \/ Wait(c) \/ ReadPipe(c)
    BY <1>0, <1>5, GivesUpType DEF CannotSpawn, Wait, ReadPipe, ClientPcs
  <1>6. CASE Auth(c) \/ Direct(c) \/ Close(c)
    BY <1>0, <1>6, GivesUpType DEF Auth, Direct, Close, ClientPcs
  <1> QED  BY <1>1, <1>2, <1>3, <1>4, <1>5, <1>6 DEF ClientStep

LEMMA DaemonTypes ==
  ASSUME ClientsTyped, NEW d \in Daemons,
         DaemonStep(d) \/ Start(d) \/ Stop(d) \/ ResetInSelect(d) \/ Kill(d)
  PROVE  ClientsTyped'
  <1>1. client' = client \/ client' = Told(d)
    BY DEF DaemonStep, Start, Stop, ResetInSelect, Kill, CloseAll, Mkdir, Lstat, TestConnect,
           Unlink, Bind, Listen, BindPort, OpenAudio, Ready, Deaf, CloseListen, Cleanup, Rmdir, Exit
  <1> QED  BY <1>1, ToldType

LEMMA SharedTypes ==
  ASSUME SharedTyped, Next
  PROVE  SharedTyped'
  <1>0. setting' \in Settings /\ overlapped' \in BOOLEAN
    BY DEF Next, Aside, SharedTyped, Overlap
  <1>1. ASSUME NEW d \in Daemons,
               DaemonStep(d) \/ Start(d) \/ Stop(d) \/ ResetInSelect(d) \/ Kill(d)
        PROVE  SharedTyped'
    <2>1. CASE CloseAll(d) \/ TestConnect(d) \/ Listen(d) \/ Start(d) \/ Stop(d)
      BY <1>0, <2>1 DEF SharedTyped, CloseAll, TestConnect, Listen, Start, Stop, shared
    <2>2. CASE Mkdir(d) \/ Lstat(d) \/ Unlink(d) \/ Bind(d) \/ BindPort(d)
      BY <1>0, <2>2 DEF SharedTyped, Mkdir, Lstat, Unlink, Bind, BindPort
    <2>3. CASE OpenAudio(d) \/ Ready(d)
      BY <1>0, <2>3 DEF SharedTyped, OpenAudio, Ready
    <2>4. CASE CloseListen(d) \/ Cleanup(d) \/ Rmdir(d)
      BY <1>0, <2>4 DEF SharedTyped, CloseListen, Cleanup, Rmdir
    <2>5. CASE Exit(d) \/ Deaf(d) \/ ResetInSelect(d) \/ Kill(d)
      BY <1>0, <2>5 DEF SharedTyped, Exit, Deaf, ResetInSelect, Kill, Gone
    <2> QED  BY <1>1, <2>1, <2>2, <2>3, <2>4, <2>5 DEF DaemonStep
  <1>2. ASSUME NEW c \in Clients, ClientStep(c) \/ Open(c) \/ Close(c)
        PROVE  SharedTyped'
    <2>1. CASE Direct(c) \/ Close(c)
      BY <1>0, <2>1 DEF SharedTyped, Direct, Close
    <2>2. CASE ~(Direct(c) \/ Close(c))
      <3>1. UNCHANGED shared
        BY <1>2, <2>2 DEF ClientStep, Access, ConnectUnix, ConnectTcpip, CannotSpawn, Spawn,
                          Wait, ReadPipe, Auth, Open
      <3> QED  BY <1>0, <3>1 DEF SharedTyped, shared
    <2> QED  BY <2>1, <2>2
  <1> QED  BY <1>1, <1>2 DEF Next

\* Every variable keeps its type; the ladder of formats in particular is never
\* tried beyond its last attempt.
THEOREM TypeCorrect == Spec => []TypeOK
  <1>1. Init => ClientsTyped /\ SharedTyped
    <2>1. Idle \in ClientRecords
      BY DEF Idle, ClientRecords, ClientPcs
    <2> QED  BY <2>1 DEF Init, ClientsTyped, SharedTyped
  <1>2. (ClientsTyped /\ SharedTyped) /\ [Next]_vars => (ClientsTyped /\ SharedTyped)'
    <2> SUFFICES ASSUME ClientsTyped, SharedTyped, [Next]_vars
                 PROVE  (ClientsTyped /\ SharedTyped)'
      OBVIOUS
    <2>1. CASE Next
      BY <2>1, ClientTypes, DaemonTypes, SharedTypes DEF Next
    <2>2. CASE UNCHANGED vars
      BY <2>2 DEF vars, ClientsTyped, SharedTyped
    <2> QED  BY <2>1, <2>2
  <1>3. IInv /\ ClientsTyped /\ SharedTyped => TypeOK
    BY DEF IInv, Typed, NameKept, ClientsTyped, SharedTyped, TypeOK, Records, Pcs, FdTables,
           Rungs, ClientRecords, ClientPcs
  <1> QED  BY <1>1, <1>2, <1>3, StartupInvariant, PTL DEF Spec
=============================================================================
