------------------------------ MODULE Startup ------------------------------
(***************************************************************************)
(* Starting and stopping the daemon, and esd_open_sound() of the client    *)
(* library, which connects to a daemon or spawns one.  Daemons and clients *)
(* share the socket directory and the name in it, the TCP port and the     *)
(* sound device; an action is a system call on one of these, with the code *)
(* around it.  A daemon's descriptors are numbered as the kernel numbers   *)
(* them, the lowest free one first: `-spawnfd' is a number of the client's *)
(* table that the daemon uses in its own.                                  *)
(***************************************************************************)
EXTENDS Integers, Sequences, SequencesExt, FiniteSets, FiniteSetsExt

CONSTANTS Daemons,    \* processes that run esd, each one once
          Clients,    \* applications that open the sound once
          Hosts,      \* who the applications may be told to connect to
          Settings,   \* contents of esd.conf and the environment
          CommandLines, \* options of a daemon started by hand
          SpawnFds,   \* numbers the pipe of an application may have
          Attempts,   \* rates and formats the device is tried with: the daemon's
                      \* own and the replacements, ten in the code
          MaxKills    \* bound on the daemons that are killed

None == "none"
Fds == 0 .. 6

ASSUME StartupAssumption ==
    /\ None \notin Daemons \cup Clients /\ Daemons \cap Clients = {}
    /\ IsFiniteSet(Daemons)
    /\ Hosts \subseteq {"unset", "localhost", "display", "remote"}
    /\ \A s \in Settings : /\ s.auto_spawn \in Seq({"1", "0", "junk"})
                           /\ s.env_no_spawn \in BOOLEAN
                           /\ s.spawn_options \in Seq(STRING)
                           /\ s.default_options \in Seq(STRING)
    /\ CommandLines \subseteq Seq(STRING)
    /\ SpawnFds \subseteq Fds
    /\ Attempts \in Nat \ {0} /\ MaxKills \in Nat

VARIABLES
    dir,       \* the socket directory: none, good, or not ours to trust
    name,      \* the daemon whose socket has the name in it
    port,      \* the daemon that has the TCP port
    device,    \* the process that has the sound device
    setting,   \* the configuration, fixed when the system is set up
    daemon,    \* the processes that run esd
    client,    \* the applications
    overlapped \* history: two daemons were in Window at the same time

shared == <<dir, name, port, device>>
vars == <<dir, name, port, device, setting, daemon, client, overlapped>>

Empty == [n \in Fds |-> None]
Off == [pc |-> "off", tcp |-> FALSE, trust |-> FALSE, spawnfd |-> -1,
        fds |-> Empty, rung |-> 1]
Idle == [pc |-> "idle", host |-> None, fallback |-> FALSE, child |-> None, pipe |-> 0]

Init ==
    /\ dir \in {"none", "bad"} /\ name = None /\ port = None /\ device = None
    /\ setting \in Settings
    /\ daemon = [d \in Daemons |-> Off]
    /\ client = [c \in Clients |-> Idle]
    /\ overlapped = FALSE

-----------------------------------------------------------------------------
(* Configuration and options.                                              *)

\* esd_config_read(): the system's file, then the user's, the last line that
\* makes sense counts; the environment can only turn spawning off.
no_spawn ==
    LET said == SelectSeq(setting.auto_spawn, LAMBDA v : v \in {"1", "0"})
    IN  setting.env_no_spawn \/ (said # <<>> /\ Last(said) = "0")

\* The options that count: those of the configuration, then the command line.
Opts(argv, spawned) ==
    (IF spawned /\ ~no_spawn THEN setting.spawn_options ELSE setting.default_options) \o argv

UseTcpip(opts) ==
    LET said == SelectSeq(opts, LAMBDA o : o \in {"-tcp", "-unix"})
    IN  said # <<>> /\ Last(said) = "-tcp"

\* A daemon that starts: what it inherits is the pipe, when it is spawned.
Process(argv, fd) ==
    LET opts == Opts(argv, fd >= 0)
    IN  [Off EXCEPT !.pc = "main", !.tcp = UseTcpip(opts), !.trust = Contains(opts, "-trust"),
                    !.spawnfd = fd,
                    !.fds = [n \in Fds |-> IF n = fd THEN "pipe" ELSE None]]

Start(d) ==
    /\ daemon[d].pc = "off"
    /\ \E argv \in CommandLines : daemon' = [daemon EXCEPT ![d] = Process(argv, -1)]
    /\ UNCHANGED <<shared, client>>

-----------------------------------------------------------------------------
(* The daemon, from main() to the communication loop.                      *)

\* The lowest number that is free.
Lowest(fds) == Min({n \in Fds : fds[n] = None})
Opened(fds, what) == [fds EXCEPT ![Lowest(fds)] = what]
Listens(d) == \E n \in Fds : daemon[d].fds[n] = "listen"
Serves(d) == daemon[d].pc = "serving"

\* d goes on at pc with the descriptors fds.
Goes(d, pc, fds) == daemon' = [daemon EXCEPT ![d].pc = pc, ![d].fds = fds]
To(d, pc) == Goes(d, pc, daemon[d].fds)
Giving(d) == To(d, IF daemon[d].tcp THEN "exit" ELSE "cleanup")

\* The standard descriptors.
Std == [n \in Fds |-> IF n < 3 THEN "null" ELSE None]

\* Every descriptor is closed, `-spawnfd' too.
CloseAll(d) ==
    /\ daemon[d].pc = "main"
    /\ Goes(d, IF daemon[d].tcp THEN "bindport" ELSE "mkdir", Std)
    /\ UNCHANGED <<shared, client>>

\* safe_mksocketdir(): mkdir(), or a look at what is there.
Mkdir(d) ==
    /\ daemon[d].pc = "mkdir"
    /\ dir' = IF dir = "none" THEN "good" ELSE dir
    /\ To(d, IF dir = "none" THEN "connect" ELSE "lstat")
    /\ UNCHANGED <<name, port, device, client>>

\* It may be gone; it may be repaired if its owner and mode are not right.
Lstat(d) ==
    /\ daemon[d].pc = "lstat"
    /\ \/ dir = "none" /\ To(d, "exit") /\ UNCHANGED dir
       \/ dir = "good" /\ To(d, "connect") /\ UNCHANGED dir
       \/ dir = "bad" /\ To(d, "connect") /\ dir' = "good"
       \/ dir = "bad" /\ UNCHANGED dir
          /\ To(d, IF daemon[d].trust THEN "connect" ELSE "exit")
    /\ UNCHANGED <<name, port, device, client>>

\* Who answers to the name.
Answers == name # None /\ Listens(name)

\* Mutant: nobody is asked.
TestConnectNever(d) ==
    /\ daemon[d].pc = "connect"
    /\ Goes(d, "unlink", Opened(daemon[d].fds, "test"))
    /\ UNCHANGED <<shared, client>>

\* esd_connect_unix() of the daemon: somebody answers, or the descriptor of the
\* attempt is left open.
TestConnect(d) ==
    /\ daemon[d].pc = "connect"
    /\ IF Answers THEN To(d, "exit") ELSE Goes(d, "unlink", Opened(daemon[d].fds, "test"))
    /\ UNCHANGED <<shared, client>>

Unlink(d) ==
    /\ daemon[d].pc = "unlink"
    /\ name' = None
    /\ \/ Goes(d, "bind", Opened(daemon[d].fds, "socket"))
       \/ Giving(d)                         \* socket() or fcntl() fails
    /\ UNCHANGED <<dir, port, device, client>>

Bind(d) ==
    /\ daemon[d].pc = "bind"
    /\ IF dir # "none" /\ name = None THEN To(d, "listen") /\ name' = d
                                      ELSE Giving(d) /\ UNCHANGED name
    /\ UNCHANGED <<dir, port, device, client>>

Listen(d) ==
    /\ daemon[d].pc = "listen"
    /\ \/ Goes(d, "audio", [n \in Fds |-> IF daemon[d].fds[n] = "socket" THEN "listen"
                                          ELSE daemon[d].fds[n]])
       \/ Giving(d)
    /\ UNCHANGED <<shared, client>>

\* socket(), bind() and listen() for TCP: a host that cannot be resolved, a
\* port that is taken.
BindPort(d) ==
    /\ daemon[d].pc = "bindport"
    /\ \/ /\ port = None /\ port' = d
          /\ Goes(d, "audio", Opened(daemon[d].fds, "listen"))
       \/ To(d, "exit") /\ UNCHANGED port
    /\ UNCHANGED <<dir, name, device, client>>

\* The byte for the application: written to whatever has the number.
Told(d) ==
    IF daemon[d].spawnfd >= 0 /\ daemon[d].fds[daemon[d].spawnfd] = "pipe"
    THEN [c \in Clients |-> IF client[c].child = d THEN [client[c] EXCEPT !.pipe = 1]
                            ELSE client[c]]
    ELSE client

\* Mutant: the ladder does not end.
NextRungOn(d) == daemon' = [daemon EXCEPT ![d].rung = @ + 1]

\* Mutant: the ladder starts over.
NextRungRound(d) == daemon' = [daemon EXCEPT ![d].rung = (@ % Attempts) + 1]

\* The next attempt of the ladder, or the end of it.
NextRung(d) ==
    IF daemon[d].rung < Attempts
    THEN daemon' = [daemon EXCEPT ![d].rung = @ + 1]
    ELSE daemon' = [daemon EXCEPT ![d].rung = @ + 1,
                                  ![d].pc = IF daemon[d].tcp THEN "exit" ELSE "cleanup"]

\* esd_audio_open(): the device is had; or it cannot be opened, because somebody
\* has it or for another reason, which ends the start at the first attempt and
\* is one more failure in the ladder; or it does not take the format.
OpenAudio(d) ==
    /\ daemon[d].pc = "audio"
    /\ \/ /\ device = None /\ device' = d
          /\ Goes(d, "ready", Opened(daemon[d].fds, "device"))
          /\ UNCHANGED client
       \/ /\ daemon[d].rung = 1
          /\ Giving(d) /\ client' = Told(d) /\ UNCHANGED device
       \/ /\ device = None \/ daemon[d].rung > 1
          /\ NextRung(d) /\ UNCHANGED <<device, client>>
    /\ UNCHANGED <<dir, name, port>>

\* Startup succeeded: the byte is written and the number closed.
Ready(d) ==
    /\ daemon[d].pc = "ready"
    /\ client' = Told(d)
    /\ LET closed == IF daemon[d].spawnfd >= 0 THEN {daemon[d].spawnfd} ELSE {}
       IN  /\ Goes(d, "serving", [n \in Fds |-> IF n \in closed THEN None ELSE daemon[d].fds[n]])
           /\ device' = IF \E n \in closed : daemon[d].fds[n] = "device" THEN None ELSE device
    /\ UNCHANGED <<dir, name, port>>

-----------------------------------------------------------------------------
(* The end of a daemon.                                                    *)

\* clean_exit(), by a signal or because the last client is gone: the device,
\* the listening socket, the name, the directory.
Stop(d) ==
    /\ Serves(d) /\ Listens(d)
    /\ device' = IF device = d THEN None ELSE device
    /\ To(d, "closing")
    /\ UNCHANGED <<dir, name, port, client>>

CloseListen(d) ==
    /\ daemon[d].pc = "closing"
    /\ daemon' = [daemon EXCEPT ![d].pc = IF daemon[d].tcp THEN "exit" ELSE "cleanup",
                                ![d].fds = Std]
    /\ port' = IF port = d THEN None ELSE port
    /\ UNCHANGED <<dir, name, device, client>>

\* Mutant: the name stays.
CleanupNot(d) ==
    /\ daemon[d].pc = "cleanup"
    /\ To(d, "rmdir")
    /\ UNCHANGED <<shared, client>>

\* unlink(), whoever has the name now.
Cleanup(d) ==
    /\ daemon[d].pc = "cleanup"
    /\ name' = None
    /\ To(d, "rmdir")
    /\ UNCHANGED <<dir, port, device, client>>

\* rmdir() fails when there is a name in the directory.
Rmdir(d) ==
    /\ daemon[d].pc = "rmdir"
    /\ dir' = IF name = None THEN "none" ELSE dir
    /\ To(d, "exit")
    /\ UNCHANGED <<name, port, device, client>>

\* How it may be over with a daemon.
Over == {"exited", "aborted", "killed"}

\* The kernel closes what the process has open.
Gone(d, pc) ==
    /\ daemon' = [daemon EXCEPT ![d] = [Off EXCEPT !.pc = pc]]
    /\ port' = IF port = d THEN None ELSE port
    /\ device' = IF device = d THEN None ELSE device

\* exit(); at the end of the ladder the application is told first.
Exit(d) ==
    /\ daemon[d].pc = "exit"
    /\ client' = IF daemon[d].rung > Attempts THEN Told(d) ELSE client
    /\ Gone(d, "exited")
    /\ UNCHANGED <<dir, name>>

\* select() with a listening socket that is closed: exit(1), and no more.
Deaf(d) ==
    /\ Serves(d) /\ ~Listens(d)
    /\ Gone(d, "aborted")
    /\ UNCHANGED <<dir, name, client>>

\* A SIGHUP after the descriptors were put in the set and before select(): the
\* clients in the set are closed, select() fails, and exit(1) is all there is.
ResetInSelect(d) ==
    /\ Serves(d)
    /\ Gone(d, "aborted")
    /\ UNCHANGED <<dir, name, client>>

\* A signal that is not handled, or not yet: nothing is cleaned up.
Kill(d) ==
    /\ daemon[d].pc \notin Over \cup {"off"}
    /\ Cardinality({e \in Daemons : daemon[e].pc = "killed"}) < MaxKills
    /\ Gone(d, "killed")
    /\ UNCHANGED <<dir, name, client>>

-----------------------------------------------------------------------------
(* The application: esd_open_sound(), and esd_play_stream_fallback() and   *)
(* esd_record_stream_fallback() around it.                                 *)

Is(c, pc) == client[c].pc = pc
Moves(c, pc) == client' = [client EXCEPT ![c].pc = pc]
Ends(c, pc) == client' = [client EXCEPT ![c] = [Idle EXCEPT !.pc = pc]]

\* is_host_local(): nothing said, or this machine; $DISPLAY names another one.
Local(c) == client[c].host \in {"unset", "localhost"}

\* Failure is final, or the fallback tries the device.
GivesUp(c) == Ends(c, IF client[c].fallback THEN "direct" ELSE "failed")

\* A host that is given, or $ESPEAKER: no going for the device.
Given(host) == host \in {"localhost", "remote"}

Open(c) ==
    /\ Is(c, "idle")
    /\ \E h \in Hosts, f \in BOOLEAN :
          client' = [client EXCEPT ![c].host = h, ![c].fallback = f /\ ~Given(h),
                                   ![c].pc = "access"]
    /\ UNCHANGED <<shared, daemon>>

Access(c) ==
    /\ Is(c, "access")
    /\ Moves(c, IF Local(c) /\ name # None THEN "unix" ELSE "tcp")
    /\ UNCHANGED <<shared, daemon>>

\* esd_connect_unix() and esd_connect_tcpip(), before a daemon is spawned (at
\* "unix" and "tcp") and after; another machine's daemon may answer or not.
ConnectUnix(c) ==
    /\ client[c].pc \in {"unix", "unix again"}
    /\ \/ Answers /\ Moves(c, "auth")
       \/ ~Answers /\ Moves(c, IF Is(c, "unix") THEN "tcp" ELSE "tcp again")
    /\ UNCHANGED <<shared, daemon>>

ConnectTcpip(c) ==
    /\ client[c].pc \in {"tcp", "tcp again"}
    /\ \/ (Local(c) => port # None) /\ Moves(c, "auth")
       \/ ~Local(c) /\ GivesUp(c)
       \/ Local(c) /\ port = None
          /\ IF Is(c, "tcp") THEN Moves(c, "spawn") ELSE GivesUp(c)
    /\ UNCHANGED <<shared, daemon>>

\* Not wanted, or esd is not there to be run, or no pipe.
CannotSpawn(c) ==
    /\ Is(c, "spawn")
    /\ GivesUp(c)
    /\ UNCHANGED <<shared, daemon>>

Spawn(c) ==
    /\ Is(c, "spawn") /\ ~no_spawn
    /\ \E d \in Daemons, fd \in SpawnFds :
          /\ daemon[d].pc = "off"
          /\ daemon' = [daemon EXCEPT ![d] = Process(setting.spawn_options, fd)]
          /\ client' = [client EXCEPT ![c].pc = "wait", ![c].child = d]
    /\ UNCHANGED <<shared>>

\* Nobody has the other end of the pipe.
Hangup(c) == \A n \in Fds : daemon[client[c].child].fds[n] # "pipe"

\* Mutant: no time-out.
WaitForever(c) ==
    /\ Is(c, "wait")
    /\ client[c].pipe = 1 \/ Hangup(c)
    /\ Moves(c, "read")
    /\ UNCHANGED <<shared, daemon>>

\* select() for spawn_wait_ms.
Wait(c) ==
    /\ Is(c, "wait")
    /\ \/ (client[c].pipe = 1 \/ Hangup(c)) /\ Moves(c, "read")
       \/ GivesUp(c)
    /\ UNCHANGED <<shared, daemon>>

\* read_timeout(): a byte, whatever it says, or the end.
ReadPipe(c) ==
    /\ Is(c, "read")
    /\ IF client[c].pipe = 1 THEN Moves(c, "unix again") ELSE GivesUp(c)
    /\ UNCHANGED <<shared, daemon>>

\* esd_send_auth() and, for a stream, the request.
Auth(c) ==
    /\ Is(c, "auth")
    /\ Ends(c, "connected") \/ GivesUp(c)
    /\ UNCHANGED <<shared, daemon>>

\* esd_audio_open() in the application.
Direct(c) ==
    /\ Is(c, "direct")
    /\ \/ device = None /\ device' = c /\ Moves(c, "playing")
       \/ Moves(c, "failed") /\ UNCHANGED device
    /\ UNCHANGED <<dir, name, port, daemon>>

Close(c) ==
    /\ client[c].pc \in {"connected", "playing"}
    /\ device' = IF device = c THEN None ELSE device
    /\ Moves(c, "closed")
    /\ UNCHANGED <<dir, name, port, daemon>>

-----------------------------------------------------------------------------
\* From the moment a daemon has seen that nobody answers until it answers
\* itself, and while it is about to remove the name.
Window == {"unlink", "bind", "listen", "cleanup"}
Overlap == Cardinality({d \in Daemons : daemon[d].pc \in Window}) > 1

DaemonStep(d) ==
    \/ CloseAll(d) \/ Mkdir(d) \/ Lstat(d) \/ TestConnect(d) \/ Unlink(d) \/ Bind(d)
    \/ Listen(d) \/ BindPort(d) \/ OpenAudio(d) \/ Ready(d) \/ Deaf(d)
    \/ CloseListen(d) \/ Cleanup(d) \/ Rmdir(d) \/ Exit(d)

ClientStep(c) ==
    \/ Access(c) \/ ConnectUnix(c) \/ ConnectTcpip(c) \/ CannotSpawn(c) \/ Spawn(c)
    \/ Wait(c) \/ ReadPipe(c) \/ Auth(c) \/ Direct(c)

\* What every step does to the variables that are not the system's.
Aside ==
    /\ overlapped' = (overlapped \/ Overlap')
    /\ UNCHANGED setting

Next ==
    /\ \/ \E d \in Daemons : DaemonStep(d) \/ Start(d) \/ Stop(d) \/ ResetInSelect(d) \/ Kill(d)
       \/ \E c \in Clients : ClientStep(c) \/ Open(c) \/ Close(c)
    /\ Aside

\* Everything esd_open_sound() waits for has a time-out, so it goes on whatever
\* the daemons do.
Fairness == \A c \in Clients : WF_vars(ClientStep(c) /\ Aside)

Spec == Init /\ [][Next]_vars /\ Fairness

-----------------------------------------------------------------------------
(* Properties.                                                             *)

\* The state variables hold what the code can put there.
TypeOK ==
    /\ dir \in {"none", "good", "bad"}
    /\ name \in Daemons \cup {None} /\ port \in Daemons \cup {None}
    /\ device \in Daemons \cup Clients \cup {None}
    /\ setting \in Settings
    /\ daemon \in [Daemons ->
          [pc : {"off", "main", "mkdir", "lstat", "connect", "unlink", "bind", "listen",
                 "bindport", "audio", "ready", "serving", "closing", "cleanup", "rmdir",
                 "exit"} \cup Over,
           tcp : BOOLEAN, trust : BOOLEAN, spawnfd : {-1} \cup SpawnFds,
           fds : [Fds -> {None, "null", "pipe", "test", "socket", "listen", "device"}],
           rung : 1 .. Attempts + 1]]
    /\ client \in [Clients ->
          [pc : {"idle", "access", "unix", "tcp", "spawn", "wait", "read", "unix again",
                 "tcp again", "auth", "direct", "connected", "playing", "failed", "closed"},
           host : Hosts \cup {None}, fallback : BOOLEAN, child : Daemons \cup {None},
           pipe : {0, 1}]]
    /\ overlapped \in BOOLEAN

\* A start that fails (another daemon answers, no socket, no name, no device,
\* none of the formats) and clean_exit(), by a signal or for the last client,
\* leave no name behind that the daemon made.  A daemon that has ended and still
\* has the name was killed, or served and lost its select(): to `-spawnfd', which
\* closed its listening socket, or to a SIGHUP, which closed its clients.
NothingLeft ==
    \A d \in Daemons : name = d /\ daemon[d].pc \in Over
                         => daemon[d].pc \in {"killed", "aborted"}

\* A daemon that listens and has started can be found: the name is its own.
\* Another daemon that starts, fails to start, stops or is killed does not take
\* it away, unless two of them got into the gap between the test of the name
\* and listen(), or between close() and unlink().
ServingReachable ==
    \A d \in Daemons :
        (Serves(d) /\ Listens(d) /\ ~daemon[d].tcp /\ ~overlapped) => name = d

\* Nobody waits for ever in esd_open_sound() or in a fallback, not for a daemon
\* that hangs before it has closed the pipe either.
OpenReturns ==
    \A c \in Clients :
        Is(c, "access") ~> client[c].pc \in {"connected", "playing", "failed", "closed"}

\* Daemons that get on come to rest, whatever they find and the device does: in
\* the end each one serves or is gone, with what it started to clean up cleaned
\* up.
DaemonsSettle ==
    (\A d \in Daemons : WF_vars(DaemonStep(d) /\ Aside)) =>
        <>[](\A d \in Daemons : daemon[d].pc \in Over \cup {"off", "serving"})
=============================================================================
