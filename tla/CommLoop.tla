------------------------------ MODULE CommLoop ------------------------------
(***************************************************************************)
(* The daemon's only thread, esd_comm_loop(): when it sleeps, when it      *)
(* gives the audio device up (standby, autostandby) and takes it back, and *)
(* when it terminates.  With it the handlers that touch the device, the    *)
(* SIGUSR1 reconnect, and the world around: clients, time and another      *)
(* program that wants the device.                                          *)
(*                                                                         *)
(* A connection has at most one readable item at a time, and a request is  *)
(* one item: its framing and the connect handshake are left out.  Whether  *)
(* a request passes esd_validate_source() is part of the request (module   *)
(* Access has the check itself).  esd_clients_list is polled in any order. *)
(* Sample players are counted, and a sample has at least one frame; module *)
(* Samples has what they do.                                               *)
(***************************************************************************)
EXTENDS Integers

CONSTANTS Clients,      \* connection slots
          Offers,       \* the requests that the client in a slot may make
          SecsChoices,  \* values of esd_autostandby_secs (-as); -1 is off
          MaxPlaying    \* bound on esd_playing_samples

\* client->state, with client->request for a streaming client; "NONE" is a
\* slot without a client.
ClientState == {"NONE", "NEXT_REQUEST", "PLAYER", "RECORDER", "MONITOR"}

\* Requests of a client that is not streaming.  "standby" and "resume" carry a
\* key that is accepted, "standby_foreign" one that is not.
Requests == {"standby", "standby_foreign", "resume", "play", "record", "monitor",
             "sample"}

ASSUME CommLoopAssumption ==
    /\ Offers \in [Clients -> SUBSET Requests]
    /\ SecsChoices \subseteq Nat \cup {-1}
    /\ MaxPlaying \in Nat

\* What is there to read on a socket.
Items == Requests \cup {"none", "connect", "data", "eof"}

Holders == {"none", "esd", "other"}

VARIABLES
    opts,          \* command line: -terminate and -as
    client,        \* slot -> client->state
    inbox,         \* slot -> what is readable on the socket
    playing,       \* esd_playing_samples
    on_standby,    \* esd_on_standby
    on_autostandby,  \* esd_on_autostandby
    forced_standby,  \* esd_forced_standby
    record,        \* esd_audio_format has ESD_RECORD
    holder,        \* who has the audio device open
    is_paused_here, first,  \* locals of esd_comm_loop()
    pending_reconnect,      \* esd_pending_driver_reconnect
    idle,          \* time since esd_last_activity, up to the first value that matters
    pc,            \* where esd_comm_loop() is
    topoll,        \* clients poll_client_requests() has not visited yet
    asked,         \* history: the owner has asked for standby, not yet for resume
    reconnected    \* history: the device was reopened by SIGUSR1 while on standby

standbyVars == <<on_standby, on_autostandby, forced_standby>>
loopVars == <<is_paused_here, first, pending_reconnect>>
vars == <<opts, client, inbox, playing, standbyVars, record, holder, loopVars,
          idle, pc, topoll, asked, reconnected>>

Recorders == {c \in Clients : client[c] = "RECORDER"}
NoClients == \A c \in Clients : client[c] = "NONE"

\* Autostandby is configured.
AutoOn == opts.secs >= 0

Init ==
    /\ opts \in [terminate : BOOLEAN, secs : SecsChoices]
    /\ client = [c \in Clients |-> "NONE"]
    /\ inbox = [c \in Clients |-> "none"]
    /\ playing = 0
    /\ on_standby = FALSE /\ on_autostandby = FALSE /\ forced_standby = FALSE
    /\ record = FALSE
    /\ holder = "esd"
    /\ is_paused_here = FALSE /\ first = TRUE /\ pending_reconnect = FALSE
    /\ idle = 0
    /\ pc = "top"
    /\ topoll = {}
    /\ asked = FALSE /\ reconnected = FALSE

----------------------------------------------------------------------------
(* The audio device, which one process at a time can open.                 *)

\* esd_audio_close().
Closed == IF holder = "esd" THEN "none" ELSE holder

\* Holders after a close followed by an open: another program may come between.
Reopened == IF Closed = "none" THEN {"esd", "other"} ELSE {Closed}

\* esd_audio_open() would succeed.  The daemon's own descriptor is in the way
\* like anybody else's.
CanOpen == holder = "none"

----------------------------------------------------------------------------
(* esd_server_standby() and esd_server_resume().                           *)

\* Mutant: the device stays open.
ServerStandbyKeeps(auto) ==
    /\ on_standby' = TRUE
    /\ on_autostandby' = (on_autostandby \/ auto)
    /\ UNCHANGED <<holder, reconnected>>

\* esd_server_standby(), with the assignment to esd_on_autostandby that
\* follows it in esd_comm_loop().
ServerStandby(auto) ==
    /\ on_standby' = TRUE
    /\ on_autostandby' = (on_autostandby \/ auto)
    /\ holder' = IF on_standby THEN holder ELSE Closed
    /\ UNCHANGED reconnected

\* Mutant: esd_on_autostandby is left set.
ServerResumeForgets ==
    /\ on_standby
    /\ CanOpen
    /\ holder' = "esd"
    /\ on_standby' = FALSE /\ forced_standby' = FALSE
    /\ reconnected' = FALSE
    /\ UNCHANGED on_autostandby

\* esd_server_resume() on standby, when the device opens.
ServerResume ==
    /\ on_standby
    /\ CanOpen
    /\ holder' = "esd"
    /\ on_standby' = FALSE /\ on_autostandby' = FALSE /\ forced_standby' = FALSE
    /\ reconnected' = FALSE

\* Mutant: forced standby is not looked at.
MayWakeAlways == on_autostandby

\* Mutant: the test of esd_forced_standby is turned round.
MayWakeForced == on_autostandby /\ forced_standby

\* Autostandby, and not because a standby request came while running.
MayWake == on_autostandby /\ ~forced_standby

----------------------------------------------------------------------------
(* The head of the loop.                                                   *)

\* Mutant: a daemon without autostandby does not terminate.
MayTerminateOnAuto ==
    /\ opts.terminate /\ NoClients /\ ~first
    /\ on_autostandby

MayTerminate ==
    /\ opts.terminate /\ NoClients /\ ~first
    /\ ~AutoOn \/ on_autostandby

\* The reconnect SIGUSR1 has asked for, whatever the standby state.
Reconnect ==
    /\ pc = "top"
    /\ pending_reconnect
    /\ pending_reconnect' = FALSE
    /\ holder' \in Reopened
    /\ reconnected' = (on_standby /\ (reconnected \/ holder' = "esd"))
    /\ pc' = "check"
    /\ UNCHANGED <<opts, client, inbox, playing, standbyVars, record,
                   is_paused_here, first, idle, topoll, asked>>

\* The reconnect is over, or none is pending.
AfterReconnect == pc = "check" \/ (pc = "top" /\ ~pending_reconnect)

\* clean_exit(): the device is closed.
Terminate ==
    /\ AfterReconnect
    /\ MayTerminate
    /\ holder' = Closed
    /\ pc' = "exited"
    /\ UNCHANGED <<opts, client, inbox, playing, standbyVars, record, loopVars,
                   idle, topoll, asked, reconnected>>

\* The descriptors are collected and select() is called.
EnterSelect ==
    /\ AfterReconnect
    /\ ~MayTerminate
    /\ pc' = "select"
    /\ UNCHANGED <<opts, client, inbox, playing, standbyVars, record, holder,
                   loopVars, idle, topoll, asked, reconnected>>

----------------------------------------------------------------------------
(* select() and what follows it.                                           *)

\* Mutant: sample players do not count as work.
WorkingRecorders == Recorders # {}

\* Something useful to do: select() only looks.
Working == Recorders # {} \/ playing > 0

\* Mutant: a paused daemon waits without a timeout, autostandby or not.
BlockingPaused == ~Working /\ is_paused_here

\* select() waits without a timeout.
Blocking == ~Working /\ is_paused_here /\ (~AutoOn \/ on_standby)

\* The timeout of select() has passed.
TimeoutDue == ~Blocking /\ (Working \/ ~is_paused_here \/ idle > opts.secs)

\* Mutant: a daemon on standby looks at streams only.
ReadableAwake ==
    \E c \in Clients : inbox[c] # "none" /\ client[c] # "MONITOR"
                       /\ (on_standby => client[c] # "NEXT_REQUEST")

\* Monitors are not in the descriptor set.
Readable == \E c \in Clients : inbox[c] # "none" /\ client[c] # "MONITOR"

\* get_new_clients(), then poll_client_requests() begins.
BeginPoll ==
    LET accepted == {c \in Clients : inbox[c] = "connect"}
    IN  /\ client' = [c \in Clients |->
                        IF c \in accepted THEN "NEXT_REQUEST" ELSE client[c]]
        /\ inbox' = [c \in Clients |->
                        IF c \in accepted THEN "none" ELSE inbox[c]]
        /\ topoll' = {c \in Clients : client'[c] = "NEXT_REQUEST"}
        /\ is_paused_here' = FALSE
        /\ first' = FALSE
        /\ pc' = "poll"

SelectReady ==
    /\ pc = "select"
    /\ Readable
    /\ BeginPoll
    /\ UNCHANGED <<opts, playing, standbyVars, record, holder, pending_reconnect,
                   idle, asked, reconnected>>

\* ready == 0 with nothing to play or record: pause, and after enough time
\* autostandby.
SelectIdle ==
    /\ pc = "select"
    /\ ~Readable /\ TimeoutDue
    /\ ~Working
    /\ is_paused_here' = TRUE
    /\ idle' = IF is_paused_here THEN idle ELSE 0
    /\ \/ /\ AutoOn /\ idle' > opts.secs
          /\ ServerStandby(TRUE)
       \/ /\ ~(AutoOn /\ idle' > opts.secs)
          /\ UNCHANGED <<on_standby, on_autostandby, holder, reconnected>>
    /\ pc' = "top"
    /\ UNCHANGED <<opts, client, inbox, playing, forced_standby, record, first,
                   pending_reconnect, topoll, asked>>

\* ready == 0 while sample players or recorders are at work.  The autostandby
\* test needs is_paused_here, which is not set then (PausedIsQuiet).
SelectWorking ==
    /\ pc = "select"
    /\ ~Readable
    /\ Working
    /\ \/ /\ playing > 0
          /\ BeginPoll
       \/ /\ playing = 0
          /\ is_paused_here' = FALSE
          /\ pc' = "record"
          /\ UNCHANGED <<client, inbox, topoll, first>>
    /\ UNCHANGED <<opts, playing, standbyVars, record, holder, pending_reconnect,
                   idle, asked, reconnected>>

----------------------------------------------------------------------------
(* poll_client_requests() and the handlers.                                *)

\* The handler of request `item' of client c is run; state is what becomes of
\* the client, "NONE" when the handler returns 0 and the client is erased.
Handle(c, item, state) ==
    /\ pc = "poll"
    /\ c \in topoll
    /\ inbox[c] = item
    /\ inbox' = [inbox EXCEPT ![c] = "none"]
    /\ topoll' = topoll \ {c}
    /\ client' = [client EXCEPT ![c] = state]
    /\ UNCHANGED <<opts, loopVars, idle, pc>>

Disconnect(c) ==
    /\ Handle(c, "eof", "NONE")
    /\ UNCHANGED <<playing, standbyVars, record, holder, asked, reconnected>>

\* esd_proto_standby() with the owner's key.
ProtoStandby(c) ==
    /\ Handle(c, "standby", "NEXT_REQUEST")
    /\ ServerStandby(FALSE)
    /\ forced_standby' = (forced_standby \/ ~on_autostandby)
    /\ asked' = TRUE
    /\ UNCHANGED <<playing, record>>

\* esd_proto_standby() with another key: esd_forced_standby is set all the same.
ProtoStandbyForeign(c) ==
    /\ Handle(c, "standby_foreign", "NONE")
    /\ forced_standby' = (forced_standby \/ ~on_autostandby)
    /\ UNCHANGED <<playing, on_standby, on_autostandby, record, holder, asked,
                   reconnected>>

\* esd_proto_resume(): it fails when the device cannot be opened.
ProtoResume(c) ==
    \/ /\ Handle(c, "resume", "NEXT_REQUEST")
       /\ \/ ServerResume
          \/ /\ ~on_standby
             /\ forced_standby' = FALSE
             /\ UNCHANGED <<on_standby, on_autostandby, holder, reconnected>>
       /\ asked' = FALSE
       /\ UNCHANGED <<playing, record>>
    \/ /\ Handle(c, "resume", "NONE")
       /\ on_standby /\ ~CanOpen
       /\ UNCHANGED <<playing, standbyVars, record, holder, asked, reconnected>>

\* esd_proto_stream_play() and _monitor(); no player without memory or a mix
\* function.
ProtoStreamPlay(c) ==
    /\ \E state \in {"PLAYER", "NONE"} : Handle(c, "play", state)
    /\ UNCHANGED <<playing, standbyVars, record, holder, asked, reconnected>>

ProtoStreamMonitor(c) ==
    /\ \E state \in {"MONITOR", "NONE"} : Handle(c, "monitor", state)
    /\ UNCHANGED <<playing, standbyVars, record, holder, asked, reconnected>>

\* esd_proto_sample_play() and _loop().
ProtoSamplePlay(c) ==
    /\ Handle(c, "sample", "NEXT_REQUEST")
    /\ \/ playing < MaxPlaying /\ playing' = playing + 1
       \/ UNCHANGED playing
    /\ UNCHANGED <<standbyVars, record, holder, asked, reconnected>>

\* esd_proto_stream_recorder(), first part: wake up if allowed.
WakeToRecord ==
    \/ MayWake /\ ServerResume
    \/ /\ ~(MayWake /\ CanOpen)
       /\ UNCHANGED <<standbyVars, holder, reconnected>>

\* The daemon stays on standby, or gets no player: the client is erased.
RecordRefused(c) ==
    /\ Handle(c, "record", "NONE")
    /\ WakeToRecord
    /\ UNCHANGED <<playing, record, asked>>

\* The device is open for recording already.
RecordJoins(c) ==
    /\ Handle(c, "record", "RECORDER")
    /\ record
    /\ WakeToRecord /\ ~on_standby'
    /\ UNCHANGED <<playing, record, asked>>

\* The device is closed and opened again for recording, which may fail; then it
\* is opened again for playing only, which may fail too.
RecordReopens(c) ==
    /\ ~record
    /\ ~on_standby \/ (MayWake /\ CanOpen)
    /\ \/ /\ Handle(c, "record", "RECORDER")
          /\ "esd" \in Reopened
          /\ holder' = "esd"
          /\ record' = TRUE
       \/ /\ Handle(c, "record", "NONE")
          /\ holder' \in Reopened
          /\ UNCHANGED record
    /\ on_standby' = FALSE /\ on_autostandby' = FALSE
    /\ forced_standby' = (forced_standby /\ ~on_standby)
    /\ reconnected' = FALSE
    /\ UNCHANGED <<playing, asked>>

ProtoStreamRecorder(c) == RecordRefused(c) \/ RecordJoins(c) \/ RecordReopens(c)

PollDone ==
    /\ pc = "poll"
    /\ \A c \in topoll : inbox[c] = "none"
    /\ topoll' = {}
    /\ pc' = "mix"
    /\ UNCHANGED <<opts, client, inbox, playing, standbyVars, record, holder,
                   loopVars, idle, asked, reconnected>>

----------------------------------------------------------------------------
(* Mixing, waking up, writing, recording.                                  *)

\* Mutant: what a stream has sent is not read while on standby.
ReadStreamsAwake(unread) ==
    [c \in Clients |-> IF client[c] = "PLAYER" /\ ~on_standby /\ c \notin unread
                       THEN "none" ELSE inbox[c]]

\* read_player() of the stream players.  A player whose buffer is full, or has no
\* length at all, is not read.
ReadStreams(unread) ==
    [c \in Clients |-> IF client[c] = "PLAYER" /\ c \notin unread THEN "none" ELSE inbox[c]]

\* mix_players(), the wake-up that sound brings about, filter_write(),
\* esd_audio_write() and monitor_write().  `sound' says that mix_players() has
\* returned some data, `heard' that the filters have left some of it.  Players
\* that were not emptied give sound without new data; a stream that is read in
\* part silences the turn, the samples' share of it too.
MixAndWrite ==
    /\ pc = "mix"
    /\ \E ended \in 0..playing, sound, heard \in BOOLEAN,
          unread \in SUBSET {c \in Clients : client[c] = "PLAYER" /\ inbox[c] # "none"},
          lost \in SUBSET {c \in Clients : client[c] = "MONITOR" /\ inbox[c] = "eof"} :
         LET streams == {c \in Clients : client[c] = "PLAYER"}
             closed == {c \in streams \ unread : inbox[c] = "eof"}
         IN  /\ playing' = playing - ended
             /\ sound => playing' > 0 \/ streams # closed
             /\ playing' > 0 => sound \/ streams # closed
             /\ heard => sound
             /\ \/ MayWake /\ sound /\ ServerResume
                \/ /\ ~(MayWake /\ sound /\ CanOpen)
                   /\ UNCHANGED <<standbyVars, holder, reconnected>>
             /\ idle' = IF heard /\ ~on_standby' THEN 0 ELSE idle
             /\ lost # {} => heard /\ ~on_standby'
             /\ client' = [c \in Clients |->
                             IF c \in closed \cup lost THEN "NONE" ELSE client[c]]
             /\ inbox' = [c \in Clients |->
                             IF c \in lost THEN "none" ELSE ReadStreams(unread)[c]]
    /\ pc' = "record"
    /\ UNCHANGED <<opts, record, loopVars, topoll, asked>>

\* Mutant: recorder_write() that does not go back to playing only.
StopRecordingNever == UNCHANGED <<record, holder>>

\* The last recorder is gone: the device is reopened for playing only.
StopRecording ==
    /\ record' = FALSE
    /\ holder' \in Reopened

\* recorder_write(): recorders whose client is gone are erased.
RecorderWrite ==
    /\ pc = "record"
    /\ Recorders # {} /\ ~on_standby
    /\ LET gone == {c \in Recorders : inbox[c] = "eof"}
       IN  /\ client' = [c \in Clients |-> IF c \in gone THEN "NONE" ELSE client[c]]
           /\ inbox' = [c \in Clients |-> IF c \in gone THEN "none" ELSE inbox[c]]
           /\ \/ gone = Recorders /\ StopRecording
              \/ gone # Recorders /\ UNCHANGED <<record, holder>>
    /\ idle' = 0
    /\ pc' = "top"
    /\ UNCHANGED <<opts, playing, standbyVars, loopVars, topoll, asked, reconnected>>

\* Nobody records, or esd_audio_read() has no data.
NothingRecorded ==
    /\ pc = "record"
    /\ pc' = "top"
    /\ UNCHANGED <<opts, client, inbox, playing, standbyVars, record, holder,
                   loopVars, idle, topoll, asked, reconnected>>

----------------------------------------------------------------------------
(* The world outside.                                                      *)

\* A client connects, sends a request or stream data, or goes away.
ClientSends(c) ==
    /\ pc # "exited"
    /\ inbox[c] = "none"
    /\ \E item \in Items \ {"none"} :
         /\ \/ client[c] = "NONE" /\ item = "connect"
            \/ client[c] = "NEXT_REQUEST" /\ item \in Offers[c]
            \/ client[c] = "PLAYER" /\ item = "data"
            \/ client[c] # "NONE" /\ item = "eof"
         /\ inbox' = [inbox EXCEPT ![c] = item]
    /\ UNCHANGED <<opts, client, playing, standbyVars, record, holder, loopVars,
                   idle, pc, topoll, asked, reconnected>>

OtherProgram ==
    /\ pc # "exited"
    /\ \/ holder = "none" /\ holder' = "other"
       \/ holder = "other" /\ holder' = "none"
    /\ UNCHANGED <<opts, client, inbox, playing, standbyVars, record, loopVars,
                   idle, pc, topoll, asked, reconnected>>

\* SIGUSR1.  A select() that is asleep returns EINTR: without a timeout the
\* loop goes on as if something were ready, with one it starts again.
SigUsr1 ==
    /\ pc # "exited"
    /\ ~pending_reconnect
    /\ pending_reconnect' = TRUE
    /\ \/ /\ pc = "select" /\ ~Readable /\ Blocking
          /\ BeginPoll
       \/ /\ pc = "select" /\ ~Readable /\ ~Blocking /\ ~Working
          /\ pc' = "top"
          /\ UNCHANGED <<client, inbox, topoll, is_paused_here, first>>
       \/ /\ pc = "select" => Readable \/ Working
          /\ UNCHANGED <<client, inbox, topoll, is_paused_here, first, pc>>
    /\ UNCHANGED <<opts, playing, standbyVars, record, holder, idle, asked,
                   reconnected>>

\* Time passes; beyond the autostandby limit it makes no difference.
Tick ==
    /\ pc # "exited"
    /\ idle <= opts.secs
    /\ idle' = idle + 1
    /\ UNCHANGED <<opts, client, inbox, playing, standbyVars, record, holder,
                   loopVars, pc, topoll, asked, reconnected>>

----------------------------------------------------------------------------
Handler(c) ==
    \/ Disconnect(c)
    \/ ProtoStandby(c) \/ ProtoStandbyForeign(c) \/ ProtoResume(c)
    \/ ProtoStreamPlay(c) \/ ProtoStreamMonitor(c) \/ ProtoSamplePlay(c)
    \/ ProtoStreamRecorder(c)

Daemon ==
    \/ Reconnect \/ Terminate \/ EnterSelect
    \/ SelectReady \/ SelectIdle \/ SelectWorking
    \/ \E c \in Clients : Handler(c)
    \/ PollDone \/ MixAndWrite \/ RecorderWrite \/ NothingRecorded

Environment ==
    \/ \E c \in Clients : ClientSends(c)
    \/ OtherProgram \/ SigUsr1 \/ Tick

Next == Daemon \/ Environment

Spec == Init /\ [][Next]_vars

\* The daemon's thread is scheduled and time passes; clients, other programs
\* and signals owe nothing.
FairSpec == Spec /\ WF_vars(Daemon) /\ WF_vars(Tick)

----------------------------------------------------------------------------
(* Properties.                                                             *)

\* Every variable has its type; what is readable on a socket fits the state of
\* its client, so that erase_client() leaves nothing behind.
TypeOK ==
    /\ opts \in [terminate : BOOLEAN, secs : SecsChoices]
    /\ client \in [Clients -> ClientState]
    /\ inbox \in [Clients -> Items]
    /\ \A c \in Clients :
              IF client[c] = "NONE" THEN inbox[c] \in {"none", "connect"}
                                    ELSE inbox[c] # "connect"
    /\ playing \in 0..MaxPlaying
    /\ on_standby \in BOOLEAN /\ on_autostandby \in BOOLEAN
    /\ forced_standby \in BOOLEAN /\ record \in BOOLEAN
    /\ holder \in Holders
    /\ is_paused_here \in BOOLEAN /\ first \in BOOLEAN
    /\ pending_reconnect \in BOOLEAN
    /\ idle \in Nat
    /\ pc \in {"top", "check", "select", "poll", "mix", "record", "exited"}
    /\ topoll \subseteq Clients
    /\ asked \in BOOLEAN /\ reconnected \in BOOLEAN

\* Autostandby is a kind of standby: no path through resume, recording or the
\* loop leaves esd_on_autostandby set alone.
AutoIsStandby == on_autostandby => on_standby

\* While on standby the daemon does not hold the audio device, unless SIGUSR1
\* has made it reopen the device (esd_comm_loop(), recorder_write() and the
\* recorder handler all close and open it).
StandbyFreesDevice == on_standby /\ ~reconnected => holder # "esd"

\* The device is in recording mode exactly while somebody records, through
\* failing reopens, standby and clients that go away.
RecordIffRecorders == record <=> Recorders # {}

\* The loop pauses, and so may sleep, only when no sample plays and nobody
\* records.
PausedIsQuiet == is_paused_here => playing = 0 /\ Recorders = {}

\* A standby that a request forced on a running daemon is left only through a
\* resume request: neither sound nor a recorder nor a signal wakes the daemon.
ForcedUntilResume ==
    [][on_standby /\ forced_standby /\ ~on_standby'
          => \E c \in Clients : ProtoResume(c)]_vars

\* Every request is read in the end, on standby too, whatever the other clients
\* send and whatever of their streams stays unread.
Served ==
    \A c \in Clients :
        (client[c] = "NEXT_REQUEST" /\ inbox[c] # "none") ~> inbox[c] = "none"

\* "free audio device after SECS of inactivity": a daemon left in peace for good
\* goes to standby.
Peace ==
    /\ playing = 0 /\ Recorders = {}
    /\ ~pending_reconnect
    /\ \A c \in Clients : inbox[c] = "none" \/ client[c] = "MONITOR"

GoesToStandby == AutoOn /\ <>[]Peace => <>(on_standby \/ pc = "exited")

\* The daemon does not stay on autostandby for ever while a sample plays and the
\* device is free, unless standby was forced or there is a stream as well, which
\* may be read in parts for ever.
WakesUp ==
    ~<>[](/\ on_autostandby /\ ~forced_standby
          /\ playing > 0 /\ \A c \in Clients : client[c] # "PLAYER"
          /\ holder = "none" /\ pc # "exited")

\* "terminate esd daemon after last client exits": with -terminate the daemon
\* ends once all clients are gone for good, if no sample plays on and it has not
\* been put on standby by request.
Terminates ==
    (opts.terminate /\ <>[](/\ NoClients /\ Peace /\ ~first
                            /\ on_standby => on_autostandby))
        => <>(pc = "exited")

\* "Don't terminate until the last sample is done."
TerminatesAfterSamples == pc = "exited" => playing = 0

\* "standby - frees the audio device for use by other programs."
StandbyFreesAlways == on_standby => holder # "esd"

\* "all sounds are ignored until the daemon is resumed": once the owner has asked
\* for standby the daemon is on standby until resumed.
StandbyUntilResumed == asked => on_standby
=============================================================================
