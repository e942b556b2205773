--------------------------- MODULE CommLoopProofs ---------------------------
(***************************************************************************)
(* Proofs about CommLoop, for any number of clients, any autostandby time  *)
(* and any number of sample players.                                       *)
(*                                                                         *)
(* The invariants need to know where the loop is: a request is handled     *)
(* only for a client that does not stream yet, so that no handler makes a  *)
(* recorder vanish, and it is handled only when the loop is not paused.    *)
(* LoopInv says so.                                                        *)
(***************************************************************************)
EXTENDS CommLoop, TLAPS

LoopInv ==
    /\ reconnected => on_standby
    /\ pc \in {"poll", "mix", "record"} => ~is_paused_here
    /\ pc # "poll" => topoll = {}
    /\ \A c \in topoll : client[c] = "NEXT_REQUEST"

IInv ==
    /\ TypeOK
    /\ AutoIsStandby
    /\ StandbyFreesDevice
    /\ RecordIffRecorders
    /\ PausedIsQuiet
    /\ LoopInv

\* The daemon starts with the device open, nobody connected and not on standby.
LEMMA InitIInv == Init => IInv
<1> SUFFICES ASSUME Init PROVE IInv
  OBVIOUS
<1>1. TypeOK
  <2>1. /\ client \in [Clients -> ClientState] /\ inbox \in [Clients -> Items]
        /\ \A c \in Clients :
              IF client[c] = "NONE" THEN inbox[c] \in {"none", "connect"}
                                    ELSE inbox[c] # "connect"
    BY DEF Init, ClientState, Items
  <2>2. playing \in 0..MaxPlaying /\ idle \in Nat
    BY CommLoopAssumption DEF Init
  <2>3. /\ holder \in Holders /\ topoll \subseteq Clients
        /\ pc \in {"top", "check", "select", "poll", "mix", "record", "exited"}
    BY DEF Init, Holders
  <2> QED BY <2>1, <2>2, <2>3, Zenon DEF Init, TypeOK
<1>2. AutoIsStandby /\ StandbyFreesDevice /\ PausedIsQuiet /\ LoopInv
  BY DEF Init, AutoIsStandby, StandbyFreesDevice, PausedIsQuiet, LoopInv
<1>3. RecordIffRecorders
  BY DEF Init, RecordIffRecorders, Recorders
<1> QED BY <1>1, <1>2, <1>3 DEF IInv

\* Steps at the head of the loop and of the world change no client.
LEMMA HeadIInv ==
    ASSUME IInv, Reconnect \/ Terminate \/ EnterSelect \/ OtherProgram \/ Tick
    PROVE  IInv'
<1>1. UNCHANGED <<opts, client, inbox, playing, standbyVars, record, topoll,
                  is_paused_here, first, asked>>
  BY DEF Reconnect, Terminate, EnterSelect, OtherProgram, Tick, loopVars
<1>2. Recorders' = Recorders
  BY <1>1 DEF Recorders
<1>3. TypeOK'
  <2>1. holder' \in Holders /\ idle' \in Nat
    BY DEF IInv, TypeOK, Reconnect, Terminate, EnterSelect, OtherProgram, Tick,
           Closed, Reopened, Holders
  <2>2. pc' \in {"top", "check", "select", "poll", "mix", "record", "exited"}
    BY DEF IInv, TypeOK, Reconnect, Terminate, EnterSelect, OtherProgram, Tick
  <2>3. pending_reconnect' \in BOOLEAN /\ reconnected' \in BOOLEAN
    BY DEF IInv, TypeOK, Reconnect, Terminate, EnterSelect, OtherProgram, Tick, loopVars
  <2> QED BY <1>1, <2>1, <2>2, <2>3 DEF IInv, TypeOK, standbyVars
<1>4. StandbyFreesDevice'
  BY <1>1 DEF IInv, TypeOK, StandbyFreesDevice, Reconnect, Terminate, EnterSelect,
              OtherProgram, Tick, Closed, Reopened, standbyVars
<1>5. AutoIsStandby' /\ RecordIffRecorders' /\ PausedIsQuiet'
  BY <1>1, <1>2 DEF IInv, AutoIsStandby, RecordIffRecorders, PausedIsQuiet, standbyVars
<1>6. LoopInv'
  BY <1>1 DEF IInv, TypeOK, LoopInv, Reconnect, Terminate, EnterSelect, OtherProgram,
              Tick, standbyVars, AfterReconnect
<1> QED BY <1>3, <1>4, <1>5, <1>6 DEF IInv

\* Accepting clients and beginning to poll erases no recorder.
LEMMA BeginPollIInv ==
    ASSUME IInv, BeginPoll, pc = "select",
           UNCHANGED <<opts, playing, standbyVars, record, holder, idle, asked,
                       reconnected>>,
           pending_reconnect' \in BOOLEAN
    PROVE  IInv'
<1>1. TypeOK'
  <2>1. /\ client' \in [Clients -> ClientState] /\ inbox' \in [Clients -> Items]
        /\ \A c \in Clients :
              IF client'[c] = "NONE" THEN inbox'[c] \in {"none", "connect"}
                                     ELSE inbox'[c] # "connect"
        /\ topoll' \subseteq Clients
    BY DEF IInv, TypeOK, BeginPoll, ClientState, Items
  <2>2. /\ is_paused_here' = FALSE /\ first' = FALSE /\ pc' = "poll"
    BY DEF BeginPoll
  <2> QED BY <2>1, <2>2 DEF IInv, TypeOK, standbyVars
<1>2. Recorders' = Recorders
  BY DEF IInv, TypeOK, BeginPoll, Recorders
<1>3. AutoIsStandby' /\ StandbyFreesDevice' /\ RecordIffRecorders'
  BY <1>2 DEF IInv, AutoIsStandby, StandbyFreesDevice, RecordIffRecorders, standbyVars
<1>4. PausedIsQuiet' /\ LoopInv'
  BY DEF IInv, PausedIsQuiet, LoopInv, BeginPoll, standbyVars
<1> QED BY <1>1, <1>3, <1>4 DEF IInv

\* select() with nothing to read: a pause that comes to autostandby closes the
\* device.
LEMMA SelectIdleIInv ==
    ASSUME IInv, SelectIdle
    PROVE  IInv'
<1>1. /\ UNCHANGED <<opts, client, inbox, playing, forced_standby, record, first,
                     pending_reconnect, topoll, asked>>
      /\ is_paused_here' = TRUE /\ pc' = "top" /\ pc = "select"
      /\ playing = 0 /\ Recorders = {}
      /\ idle' = IF is_paused_here THEN idle ELSE 0
  BY DEF SelectIdle, Working, IInv, TypeOK
<1>2. /\ on_standby' \in BOOLEAN /\ on_autostandby' \in BOOLEAN
      /\ holder' \in Holders
      /\ reconnected' = reconnected
      /\ on_autostandby' => on_standby'
      /\ on_standby => on_standby'
      /\ on_standby' /\ ~reconnected' => holder' # "esd"
  <2>1. CASE ServerStandby(TRUE)
    <3>1. /\ on_standby' = TRUE /\ on_autostandby' = TRUE
          /\ reconnected' = reconnected
          /\ holder' = IF on_standby THEN holder ELSE Closed
      BY <2>1 DEF ServerStandby
    <3>2. Closed \in Holders /\ Closed # "esd"
      BY DEF Closed, IInv, TypeOK, Holders
    <3> QED BY <3>1, <3>2 DEF IInv, TypeOK, StandbyFreesDevice
  <2>2. CASE UNCHANGED <<on_standby, on_autostandby, holder, reconnected>>
    BY <2>2 DEF IInv, TypeOK, AutoIsStandby, StandbyFreesDevice
  <2> QED BY <2>1, <2>2 DEF SelectIdle
<1>3. Recorders' = Recorders
  BY <1>1 DEF Recorders
<1>4. TypeOK'
  BY <1>1, <1>2 DEF IInv, TypeOK
<1>5. AutoIsStandby' /\ StandbyFreesDevice' /\ RecordIffRecorders' /\ PausedIsQuiet'
  BY <1>1, <1>2, <1>3 DEF IInv, AutoIsStandby, StandbyFreesDevice,
                          RecordIffRecorders, PausedIsQuiet
<1>6. LoopInv'
  BY <1>1, <1>2 DEF IInv, LoopInv
<1> QED BY <1>4, <1>5, <1>6 DEF IInv

\* select() while samples play or somebody records, and SIGUSR1.
LEMMA SelectOtherIInv ==
    ASSUME IInv, SelectReady \/ SelectWorking \/ SigUsr1
    PROVE  IInv'
<1>1. UNCHANGED <<opts, playing, standbyVars, record, holder, idle, asked, reconnected>>
  BY DEF SelectReady, SelectWorking, SigUsr1
<1>2. pending_reconnect' \in BOOLEAN
  BY DEF SelectReady, SelectWorking, SigUsr1, IInv, TypeOK
<1>3. CASE BeginPoll /\ pc = "select"
  BY <1>1, <1>2, <1>3, BeginPollIInv
<1>4. CASE /\ UNCHANGED <<client, inbox, topoll, first>>
           /\ \/ pc = "select" /\ is_paused_here' = FALSE /\ pc' = "record"
              \/ pc = "select" /\ is_paused_here' = is_paused_here /\ pc' = "top"
              \/ is_paused_here' = is_paused_here /\ pc' = pc
  <2>1. Recorders' = Recorders
    BY <1>4 DEF Recorders
  <2>2. TypeOK'
    <3>1. /\ pc' \in {"top", "check", "select", "poll", "mix", "record", "exited"}
          /\ is_paused_here' \in BOOLEAN
      BY <1>4 DEF IInv, TypeOK
    <3> QED BY <1>1, <1>2, <1>4, <3>1 DEF IInv, TypeOK, standbyVars
  <2>3. AutoIsStandby' /\ StandbyFreesDevice' /\ RecordIffRecorders'
    BY <1>1, <2>1 DEF IInv, AutoIsStandby, StandbyFreesDevice, RecordIffRecorders,
                      standbyVars
  <2>4. PausedIsQuiet'
    BY <1>1, <1>4, <2>1 DEF IInv, PausedIsQuiet
  <2>5. LoopInv'
    BY <1>1, <1>4 DEF IInv, LoopInv, standbyVars
  <2> QED BY <2>2, <2>3, <2>4, <2>5 DEF IInv
<1> QED BY <1>3, <1>4 DEF SelectReady, SelectWorking, SigUsr1

\* A client sends something: no variable of the daemon changes.
LEMMA ClientSendsIInv ==
    ASSUME IInv, NEW c \in Clients, ClientSends(c)
    PROVE  IInv'
<1>1. UNCHANGED <<opts, client, playing, standbyVars, record, holder, loopVars,
                  idle, pc, topoll, asked, reconnected>>
  BY DEF ClientSends
<1>2. PICK item \in Items \ {"none"} :
         /\ \/ client[c] = "NONE" /\ item = "connect"
            \/ client[c] = "NEXT_REQUEST" /\ item \in Requests
            \/ client[c] = "PLAYER" /\ item = "data"
            \/ client[c] # "NONE" /\ item = "eof"
         /\ inbox' = [inbox EXCEPT ![c] = item]
  <2>1. Offers[c] \subseteq Requests
    BY CommLoopAssumption
  <2> QED BY <2>1 DEF ClientSends
<1>3. /\ inbox' \in [Clients -> Items]
      /\ \A d \in Clients :
              IF client[d] = "NONE" THEN inbox'[d] \in {"none", "connect"}
                                    ELSE inbox'[d] # "connect"
  BY <1>2 DEF IInv, TypeOK, Requests
<1>4. TypeOK'
  BY <1>1, <1>3 DEF IInv, TypeOK, standbyVars, loopVars
<1>5. Recorders' = Recorders
  BY <1>1 DEF Recorders
<1>6. /\ AutoIsStandby' /\ StandbyFreesDevice' /\ RecordIffRecorders'
      /\ PausedIsQuiet' /\ LoopInv'
  BY <1>1, <1>5 DEF IInv, AutoIsStandby, StandbyFreesDevice, RecordIffRecorders,
                    PausedIsQuiet, LoopInv, standbyVars, loopVars
<1> QED BY <1>4, <1>6 DEF IInv

\* What a handler has in common: client c, which was not streaming, gets the
\* state the handler leaves it in.
LEMMA HandleFrame ==
    ASSUME IInv, NEW c \in Clients, NEW item \in Items, NEW state \in ClientState,
           Handle(c, item, state)
    PROVE  /\ UNCHANGED <<opts, loopVars, idle, pc>>
           /\ pc = "poll" /\ ~is_paused_here
           /\ client' \in [Clients -> ClientState] /\ inbox' \in [Clients -> Items]
           /\ \A d \in Clients :
                IF client'[d] = "NONE" THEN inbox'[d] \in {"none", "connect"}
                                       ELSE inbox'[d] # "connect"
           /\ topoll' \subseteq Clients
           /\ \A d \in topoll' : client'[d] = "NEXT_REQUEST"
           /\ Recorders' = IF state = "RECORDER" THEN Recorders \cup {c} ELSE Recorders
<1>1. /\ pc = "poll" /\ c \in topoll
      /\ inbox' = [inbox EXCEPT ![c] = "none"]
      /\ topoll' = topoll \ {c}
      /\ client' = [client EXCEPT ![c] = state]
      /\ UNCHANGED <<opts, loopVars, idle, pc>>
  BY DEF Handle
<1>2. client[c] = "NEXT_REQUEST" /\ ~is_paused_here
  BY <1>1 DEF IInv, LoopInv
<1>3. /\ client' \in [Clients -> ClientState] /\ inbox' \in [Clients -> Items]
      /\ \A d \in Clients :
                IF client'[d] = "NONE" THEN inbox'[d] \in {"none", "connect"}
                                       ELSE inbox'[d] # "connect"
  BY <1>1 DEF IInv, TypeOK, Items
<1>4. topoll' \subseteq Clients /\ \A d \in topoll' : client'[d] = "NEXT_REQUEST"
  BY <1>1 DEF IInv, TypeOK, LoopInv
<1>5. Recorders' = IF state = "RECORDER" THEN Recorders \cup {c} ELSE Recorders
  BY <1>1, <1>2 DEF IInv, TypeOK, Recorders
<1> QED BY <1>1, <1>2, <1>3, <1>4, <1>5

\* A handler preserves IInv if what it does to standby, the device and the
\* recording mode fits the invariants.
LEMMA HandlerIInv ==
    ASSUME IInv, NEW c \in Clients, NEW item \in Items, NEW state \in ClientState,
           Handle(c, item, state),
           playing' \in 0..MaxPlaying,
           on_standby' \in BOOLEAN, on_autostandby' \in BOOLEAN,
           forced_standby' \in BOOLEAN, record' \in BOOLEAN, holder' \in Holders,
           asked' \in BOOLEAN, reconnected' \in BOOLEAN,
           on_autostandby' => on_standby',
           reconnected' => on_standby',
           on_standby' /\ ~reconnected' => holder' # "esd",
           record' <=> record \/ state = "RECORDER"
    PROVE  IInv'
<1>1. TypeOK'
  BY HandleFrame DEF IInv, TypeOK, loopVars
<1>2. AutoIsStandby' /\ StandbyFreesDevice' /\ PausedIsQuiet'
  BY HandleFrame DEF AutoIsStandby, StandbyFreesDevice, PausedIsQuiet, loopVars
<1>3. RecordIffRecorders'
  BY HandleFrame DEF IInv, RecordIffRecorders
<1>4. LoopInv'
  BY HandleFrame DEF LoopInv, loopVars
<1> QED BY <1>1, <1>2, <1>3, <1>4 DEF IInv

\* esd_server_resume() leaves every kind of standby and opens the device.
LEMMA ResumeFacts ==
    ASSUME IInv, ServerResume
    PROVE  /\ on_standby' = FALSE /\ on_autostandby' = FALSE /\ forced_standby' = FALSE
           /\ reconnected' = FALSE /\ holder' = "esd" /\ holder' \in Holders
  BY DEF ServerResume, Holders

\* The handlers of standby and resume requests.
LEMMA StandbyHandlersIInv ==
    ASSUME IInv, NEW c \in Clients,
           ProtoStandby(c) \/ ProtoStandbyForeign(c) \/ ProtoResume(c)
    PROVE  IInv'
<1>1. \A x \in {"NONE", "NEXT_REQUEST"} : x \in ClientState /\ x # "RECORDER"
  BY DEF ClientState
<1>2. \A x \in {"standby", "standby_foreign", "resume"} : x \in Items
  BY DEF Items, Requests
<1>3. CASE ProtoStandby(c)
  <2>1. /\ Handle(c, "standby", "NEXT_REQUEST")
        /\ on_standby' = TRUE
        /\ on_autostandby' = (on_autostandby \/ FALSE)
        /\ holder' = IF on_standby THEN holder ELSE Closed
        /\ forced_standby' = (forced_standby \/ ~on_autostandby)
        /\ asked' = TRUE
        /\ UNCHANGED <<playing, record, reconnected>>
    BY <1>3 DEF ProtoStandby, ServerStandby
  <2>2. Closed \in Holders /\ Closed # "esd"
    BY DEF Closed, IInv, TypeOK, Holders
  <2>3. holder' \in Holders /\ (~reconnected => holder' # "esd")
    BY <2>1, <2>2 DEF IInv, TypeOK, StandbyFreesDevice
  <2>4. on_autostandby' \in BOOLEAN /\ forced_standby' \in BOOLEAN
    BY <2>1
  <2> QED BY <1>1, <1>2, <2>1, <2>3, <2>4, HandlerIInv DEF IInv, TypeOK
<1>4. CASE ProtoStandbyForeign(c)
  <2>1. /\ Handle(c, "standby_foreign", "NONE")
        /\ forced_standby' = (forced_standby \/ ~on_autostandby)
        /\ UNCHANGED <<playing, on_standby, on_autostandby, record, holder, asked,
                       reconnected>>
    BY <1>4 DEF ProtoStandbyForeign
  <2>2. forced_standby' \in BOOLEAN
    BY <2>1
  <2>3. /\ on_autostandby' => on_standby'
        /\ reconnected' => on_standby'
        /\ on_standby' /\ ~reconnected' => holder' # "esd"
    BY <2>1 DEF IInv, AutoIsStandby, LoopInv, StandbyFreesDevice
  <2> QED BY <1>1, <1>2, <2>1, <2>2, <2>3, HandlerIInv DEF IInv, TypeOK
<1>5. CASE ProtoResume(c)
  <2>1. CASE /\ Handle(c, "resume", "NEXT_REQUEST")
             /\ ServerResume
             /\ asked' = FALSE
             /\ UNCHANGED <<playing, record>>
    <3>1. record' <=> record \/ "NEXT_REQUEST" = "RECORDER"
      BY <2>1 DEF IInv, TypeOK
    <3> QED BY <1>1, <1>2, <2>1, <3>1, HandlerIInv, ResumeFacts DEF IInv, TypeOK
  <2>2. CASE /\ Handle(c, "resume", "NEXT_REQUEST")
             /\ ~on_standby /\ forced_standby' = FALSE
             /\ UNCHANGED <<on_standby, on_autostandby, holder, reconnected>>
             /\ asked' = FALSE
             /\ UNCHANGED <<playing, record>>
    <3>1. /\ on_autostandby' => on_standby'
          /\ reconnected' => on_standby'
      BY <2>2 DEF IInv, AutoIsStandby, LoopInv
    <3> QED BY <1>1, <1>2, <2>2, <3>1, HandlerIInv DEF IInv, TypeOK
  <2>3. CASE /\ Handle(c, "resume", "NONE")
             /\ UNCHANGED <<playing, standbyVars, record, holder, asked, reconnected>>
    <3>1. /\ on_autostandby' => on_standby'
          /\ reconnected' => on_standby'
          /\ on_standby' /\ ~reconnected' => holder' # "esd"
      BY <2>3 DEF IInv, AutoIsStandby, LoopInv, StandbyFreesDevice, standbyVars
    <3> QED BY <1>1, <1>2, <2>3, <3>1, HandlerIInv DEF IInv, TypeOK, standbyVars
  <2> QED BY <1>5, <2>1, <2>2, <2>3 DEF ProtoResume
<1> QED BY <1>3, <1>4, <1>5

\* The handlers that leave standby, device and recording mode alone.
LEMMA PlainHandlersIInv ==
    ASSUME IInv, NEW c \in Clients,
           \/ Disconnect(c) \/ ProtoStreamPlay(c) \/ ProtoStreamMonitor(c)
           \/ ProtoSamplePlay(c)
    PROVE  IInv'
<1>1. \A x \in {"NONE", "NEXT_REQUEST", "PLAYER", "MONITOR"} :
         x \in ClientState /\ x # "RECORDER"
  BY DEF ClientState
<1>2. \A x \in {"eof", "play", "monitor", "sample"} : x \in Items
  BY DEF Items, Requests
<1>3. UNCHANGED <<standbyVars, record, holder, asked, reconnected>>
  BY DEF Disconnect, ProtoStreamPlay, ProtoStreamMonitor, ProtoSamplePlay
<1>4. playing' \in 0..MaxPlaying
  BY CommLoopAssumption
     DEF IInv, TypeOK, Disconnect, ProtoStreamPlay, ProtoStreamMonitor, ProtoSamplePlay
<1>5. \E item \in {"eof", "play", "monitor", "sample"},
         state \in {"NONE", "NEXT_REQUEST", "PLAYER", "MONITOR"} : Handle(c, item, state)
  BY DEF Disconnect, ProtoStreamPlay, ProtoStreamMonitor, ProtoSamplePlay
<1>6. /\ on_autostandby' => on_standby'
      /\ reconnected' => on_standby'
      /\ on_standby' /\ ~reconnected' => holder' # "esd"
  BY <1>3 DEF IInv, AutoIsStandby, LoopInv, StandbyFreesDevice, standbyVars
<1> QED BY <1>1, <1>2, <1>3, <1>4, <1>5, <1>6, HandlerIInv DEF IInv, TypeOK, standbyVars

\* esd_proto_stream_recorder() on each of its paths.
LEMMA RecorderHandlerIInv ==
    ASSUME IInv, NEW c \in Clients, ProtoStreamRecorder(c)
    PROVE  IInv'
<1>1. /\ "NONE" \in ClientState /\ "RECORDER" \in ClientState /\ "record" \in Items
      /\ "NONE" # "RECORDER"
  BY DEF ClientState, Items, Requests
<1>2. ASSUME WakeToRecord
      PROVE  /\ on_standby' \in BOOLEAN /\ on_autostandby' \in BOOLEAN
             /\ forced_standby' \in BOOLEAN
             /\ holder' \in Holders /\ reconnected' \in BOOLEAN
             /\ on_autostandby' => on_standby'
             /\ reconnected' => on_standby'
             /\ on_standby' /\ ~reconnected' => holder' # "esd"
  <2>1. CASE ServerResume
    BY <2>1, ResumeFacts
  <2>2. CASE UNCHANGED <<standbyVars, holder, reconnected>>
    BY <2>2 DEF IInv, TypeOK, AutoIsStandby, StandbyFreesDevice, LoopInv, standbyVars
  <2> QED BY <1>2, <2>1, <2>2 DEF WakeToRecord
<1>3. CASE RecordRefused(c)
  <2>1. /\ Handle(c, "record", "NONE") /\ WakeToRecord
        /\ UNCHANGED <<playing, record, asked>>
    BY <1>3 DEF RecordRefused
  <2> QED BY <1>1, <1>2, <2>1, HandlerIInv DEF IInv, TypeOK
<1>4. CASE RecordJoins(c)
  <2>1. /\ Handle(c, "record", "RECORDER") /\ WakeToRecord /\ record
        /\ UNCHANGED <<playing, record, asked>>
    BY <1>4 DEF RecordJoins
  <2> QED BY <1>1, <1>2, <2>1, HandlerIInv DEF IInv, TypeOK
<1>5. CASE RecordReopens(c)
  <2>1. /\ on_standby' = FALSE /\ on_autostandby' = FALSE /\ reconnected' = FALSE
        /\ forced_standby' = (forced_standby /\ ~on_standby)
        /\ UNCHANGED <<playing, asked>>
    BY <1>5 DEF RecordReopens
  <2>2. forced_standby' \in BOOLEAN
    BY <2>1
  <2>3. CASE Handle(c, "record", "RECORDER") /\ holder' = "esd" /\ record' = TRUE
    <3>1. holder' \in Holders
      BY <2>3 DEF Holders
    <3> QED BY <1>1, <2>1, <2>2, <2>3, <3>1, HandlerIInv DEF IInv, TypeOK
  <2>4. CASE Handle(c, "record", "NONE") /\ holder' \in Reopened /\ UNCHANGED record
    <3>1. holder' \in Holders
      BY <2>4 DEF Holders, Reopened, Closed, IInv, TypeOK
    <3> QED BY <1>1, <2>1, <2>2, <2>4, <3>1, HandlerIInv DEF IInv, TypeOK
  <2> QED BY <1>5, <2>3, <2>4 DEF RecordReopens
<1> QED BY <1>3, <1>4, <1>5 DEF ProtoStreamRecorder

\* Between polling and recording.
LEMMA QuietStepsIInv ==
    ASSUME IInv, PollDone \/ NothingRecorded \/ UNCHANGED vars
    PROVE  IInv'
<1>1. /\ UNCHANGED <<opts, client, inbox, playing, standbyVars, record, holder,
                     loopVars, idle, asked, reconnected>>
      /\ \/ pc = "poll" /\ pc' = "mix" /\ topoll' = {}
         \/ pc = "record" /\ pc' = "top" /\ topoll' = topoll
         \/ pc' = pc /\ topoll' = topoll
  BY DEF PollDone, NothingRecorded, vars, standbyVars, loopVars
<1>2. Recorders' = Recorders
  BY <1>1 DEF Recorders
<1>3. TypeOK'
  <2>1. /\ pc' \in {"top", "check", "select", "poll", "mix", "record", "exited"}
        /\ topoll' \subseteq Clients
    BY <1>1 DEF IInv, TypeOK
  <2> QED BY <1>1, <2>1 DEF IInv, TypeOK, standbyVars, loopVars
<1>4. AutoIsStandby' /\ StandbyFreesDevice' /\ RecordIffRecorders' /\ PausedIsQuiet'
  BY <1>1, <1>2 DEF IInv, AutoIsStandby, StandbyFreesDevice, RecordIffRecorders,
                    PausedIsQuiet, standbyVars, loopVars
<1>5. LoopInv'
  BY <1>1 DEF IInv, LoopInv, standbyVars, loopVars
<1> QED BY <1>3, <1>4, <1>5 DEF IInv

\* mix_players() and what follows erase only players and monitors.
LEMMA MixIInv ==
    ASSUME IInv, MixAndWrite
    PROVE  IInv'
<1> DEFINE streams == {c \in Clients : client[c] = "PLAYER"}
           closed(unread) == {c \in streams \ unread : inbox[c] = "eof"}
<1>0. PICK ended \in 0..playing, sound \in BOOLEAN, heard \in BOOLEAN,
          unread \in SUBSET {c \in Clients : client[c] = "PLAYER" /\ inbox[c] # "none"},
          lost \in SUBSET {c \in Clients : client[c] = "MONITOR" /\ inbox[c] = "eof"} :
        /\ playing' = playing - ended
        /\ sound => playing' > 0 \/ streams # closed(unread)
        /\ playing' > 0 => sound \/ streams # closed(unread)
        /\ heard => sound
        /\ \/ MayWake /\ sound /\ ServerResume
           \/ /\ ~(MayWake /\ sound /\ CanOpen)
              /\ UNCHANGED <<standbyVars, holder, reconnected>>
        /\ idle' = IF heard /\ ~on_standby' THEN 0 ELSE idle
        /\ lost # {} => heard /\ ~on_standby'
        /\ client' = [c \in Clients |->
                        IF c \in closed(unread) \cup lost THEN "NONE" ELSE client[c]]
        /\ inbox' = [c \in Clients |->
                        IF c \in lost THEN "none" ELSE ReadStreams(unread)[c]]
  BY DEF MixAndWrite
<1>1. /\ playing' = playing - ended
      /\ ServerResume \/ UNCHANGED <<standbyVars, holder, reconnected>>
      /\ idle' = IF heard /\ ~on_standby' THEN 0 ELSE idle
      /\ client' = [c \in Clients |->
                      IF c \in closed(unread) \cup lost THEN "NONE" ELSE client[c]]
      /\ inbox' = [c \in Clients |->
                      IF c \in lost THEN "none" ELSE ReadStreams(unread)[c]]
  BY <1>0
<1>2. /\ pc = "mix" /\ pc' = "record"
      /\ UNCHANGED <<opts, record, loopVars, topoll, asked>>
  BY DEF MixAndWrite
<1>3. topoll = {} /\ ~is_paused_here
  BY <1>2 DEF IInv, LoopInv
<1>4. /\ client' \in [Clients -> ClientState] /\ inbox' \in [Clients -> Items]
      /\ \A c \in Clients :
              IF client'[c] = "NONE" THEN inbox'[c] \in {"none", "connect"}
                                     ELSE inbox'[c] # "connect"
      /\ Recorders' = Recorders
  BY <1>1 DEF IInv, TypeOK, ReadStreams, Items, ClientState, Recorders
<1>5. /\ on_standby' \in BOOLEAN /\ on_autostandby' \in BOOLEAN
      /\ forced_standby' \in BOOLEAN
      /\ holder' \in Holders /\ reconnected' \in BOOLEAN
      /\ on_autostandby' => on_standby'
      /\ reconnected' => on_standby'
      /\ on_standby' /\ ~reconnected' => holder' # "esd"
  <2>1. CASE ServerResume
    BY <2>1, ResumeFacts
  <2>2. CASE UNCHANGED <<standbyVars, holder, reconnected>>
    BY <2>2 DEF IInv, TypeOK, AutoIsStandby, StandbyFreesDevice, LoopInv, standbyVars
  <2> QED BY <1>1, <2>1, <2>2
<1>6. playing' \in 0..MaxPlaying
  BY <1>1, CommLoopAssumption DEF IInv, TypeOK
<1>7. idle' \in Nat
  BY <1>1 DEF IInv, TypeOK
<1>8. TypeOK'
  BY <1>2, <1>4, <1>5, <1>6, <1>7 DEF IInv, TypeOK, loopVars
<1>9. AutoIsStandby' /\ StandbyFreesDevice' /\ RecordIffRecorders'
  BY <1>2, <1>4, <1>5 DEF IInv, AutoIsStandby, StandbyFreesDevice, RecordIffRecorders
<1>10. PausedIsQuiet' /\ LoopInv'
  BY <1>2, <1>3, <1>5 DEF PausedIsQuiet, LoopInv, loopVars
<1> QED BY <1>8, <1>9, <1>10 DEF IInv

\* recorder_write() leaves the recording mode exactly when it erases the last
\* recorder.
LEMMA RecorderWriteIInv ==
    ASSUME IInv, RecorderWrite
    PROVE  IInv'
<1> DEFINE gone == {c \in Recorders : inbox[c] = "eof"}
<1>1. /\ pc = "record" /\ pc' = "top" /\ ~on_standby /\ Recorders # {}
      /\ client' = [c \in Clients |-> IF c \in gone THEN "NONE" ELSE client[c]]
      /\ inbox' = [c \in Clients |-> IF c \in gone THEN "none" ELSE inbox[c]]
      /\ \/ gone = Recorders /\ record' = FALSE /\ holder' \in Reopened
         \/ gone # Recorders /\ UNCHANGED <<record, holder>>
      /\ idle' = 0
      /\ UNCHANGED <<opts, playing, standbyVars, loopVars, topoll, asked, reconnected>>
  BY DEF RecorderWrite, StopRecording
<1>2. topoll = {} /\ ~is_paused_here
  BY <1>1 DEF IInv, LoopInv
<1>3. /\ client' \in [Clients -> ClientState] /\ inbox' \in [Clients -> Items]
      /\ \A c \in Clients :
              IF client'[c] = "NONE" THEN inbox'[c] \in {"none", "connect"}
                                     ELSE inbox'[c] # "connect"
      /\ Recorders' = Recorders \ gone
  BY <1>1 DEF IInv, TypeOK, Items, ClientState, Recorders
<1>4. holder' \in Holders /\ record' \in BOOLEAN /\ idle' \in Nat
  BY <1>1 DEF IInv, TypeOK, Reopened, Closed, Holders
<1>5. gone \subseteq Recorders
  OBVIOUS
<1> HIDE DEF gone
<1>6. TypeOK'
  <2>1. pc' \in {"top", "check", "select", "poll", "mix", "record", "exited"}
    BY <1>1
  <2>2. UNCHANGED <<opts, playing, on_standby, on_autostandby, forced_standby,
                    is_paused_here, first, pending_reconnect, topoll, asked, reconnected>>
    BY <1>1 DEF standbyVars, loopVars
  <2> QED BY <1>3, <1>4, <2>1, <2>2 DEF IInv, TypeOK
<1>7. RecordIffRecorders'
  BY <1>1, <1>3, <1>5 DEF IInv, RecordIffRecorders
<1>8. AutoIsStandby' /\ StandbyFreesDevice'
  BY <1>1 DEF IInv, AutoIsStandby, StandbyFreesDevice, standbyVars
<1>9. PausedIsQuiet' /\ LoopInv'
  BY <1>1, <1>2 DEF IInv, PausedIsQuiet, LoopInv, loopVars, standbyVars
<1> QED BY <1>6, <1>7, <1>8, <1>9 DEF IInv

\* IInv is inductive.
LEMMA NextIInv == IInv /\ [Next]_vars => IInv'
<1> SUFFICES ASSUME IInv, [Next]_vars PROVE IInv'
  OBVIOUS
<1>1. CASE Reconnect \/ Terminate \/ EnterSelect \/ OtherProgram \/ Tick
  BY <1>1, HeadIInv
<1>2. CASE SelectReady \/ SelectWorking \/ SigUsr1
  BY <1>2, SelectOtherIInv
<1>3. CASE SelectIdle
  BY <1>3, SelectIdleIInv
<1>4. ASSUME NEW c \in Clients, Handler(c) PROVE IInv'
  BY <1>4, StandbyHandlersIInv, PlainHandlersIInv, RecorderHandlerIInv DEF Handler
<1>5. CASE PollDone \/ NothingRecorded \/ UNCHANGED vars
  BY <1>5, QuietStepsIInv
<1>6. CASE MixAndWrite
  BY <1>6, MixIInv
<1>7. CASE RecorderWrite
  BY <1>7, RecorderWriteIInv
<1>8. ASSUME NEW c \in Clients, ClientSends(c) PROVE IInv'
  BY <1>8, ClientSendsIInv
<1> QED BY <1>1, <1>2, <1>3, <1>4, <1>5, <1>6, <1>7, <1>8 DEF Next, Daemon, Environment

\* The conjunction of all invariants of the loop.
THEOREM AlwaysIInv == Spec => []IInv
  BY InitIInv, NextIInv, PTL DEF Spec

\* Every variable keeps its type, and no erased client leaves a readable item.
THEOREM TypeCorrect == Spec => []TypeOK
<1>1. IInv => TypeOK
  BY DEF IInv
<1> QED BY <1>1, AlwaysIInv, PTL

\* esd_on_autostandby is never set without esd_on_standby.
THEOREM AutostandbyIsStandby == Spec => []AutoIsStandby
<1>1. IInv => AutoIsStandby
  BY DEF IInv
<1> QED BY <1>1, AlwaysIInv, PTL

\* On standby the device is released, unless SIGUSR1 has reopened it.
THEOREM StandbyReleasesDevice == Spec => []StandbyFreesDevice
<1>1. IInv => StandbyFreesDevice
  BY DEF IInv
<1> QED BY <1>1, AlwaysIInv, PTL

\* The device is in recording mode exactly while somebody records.
THEOREM RecordingModeIsExact == Spec => []RecordIffRecorders
<1>1. IInv => RecordIffRecorders
  BY DEF IInv
<1> QED BY <1>1, AlwaysIInv, PTL

\* The loop never pauses while a sample plays or somebody records.
THEOREM PausesOnlyWhenQuiet == Spec => []PausedIsQuiet
<1>1. IInv => PausedIsQuiet
  BY DEF IInv
<1> QED BY <1>1, AlwaysIInv, PTL

\* A forced standby ends only with a resume request: the two places that wake
\* the daemon by themselves look at esd_forced_standby.
THEOREM ForcedStandbyHolds == Spec => ForcedUntilResume
<1> DEFINE A == on_standby /\ forced_standby /\ ~on_standby'
                  => \E c \in Clients : ProtoResume(c)
<1>1. Next => A
  <2> SUFFICES ASSUME Next, on_standby, forced_standby, ~on_standby'
               PROVE  \E c \in Clients : ProtoResume(c)
    OBVIOUS
  <2>1. CASE \/ Reconnect \/ Terminate \/ EnterSelect \/ SelectReady \/ SelectWorking
             \/ PollDone \/ RecorderWrite \/ NothingRecorded \/ Environment
    <3>1. on_standby' = on_standby
      BY <2>1 DEF Reconnect, Terminate, EnterSelect, SelectReady, SelectWorking,
                  PollDone, RecorderWrite, NothingRecorded, Environment, ClientSends,
                  OtherProgram, SigUsr1, Tick, standbyVars
    <3> QED BY <3>1
  <2>2. CASE SelectIdle
    BY <2>2 DEF SelectIdle, ServerStandby
  <2>3. CASE MixAndWrite
    BY <2>3 DEF MixAndWrite, MayWake, standbyVars
  <2>4. ASSUME NEW c \in Clients, Handler(c) PROVE \E d \in Clients : ProtoResume(d)
    <3>1. CASE \/ Disconnect(c) \/ ProtoStandby(c) \/ ProtoStandbyForeign(c)
               \/ ProtoStreamPlay(c) \/ ProtoStreamMonitor(c) \/ ProtoSamplePlay(c)
      BY <3>1 DEF Disconnect, ProtoStandby, ProtoStandbyForeign, ProtoStreamPlay,
                  ProtoStreamMonitor, ProtoSamplePlay, ServerStandby, standbyVars
    <3>2. CASE ProtoStreamRecorder(c)
      BY <3>2 DEF ProtoStreamRecorder, RecordRefused, RecordJoins, RecordReopens,
                  WakeToRecord, MayWake, standbyVars
    <3> QED BY <2>4, <3>1, <3>2 DEF Handler
  <2> QED BY <2>1, <2>2, <2>3, <2>4 DEF Next, Daemon
<1>2. [Next]_vars => [A]_vars
  BY <1>1
<1> QED BY <1>2, PTL DEF Spec, ForcedUntilResume
=============================================================================
