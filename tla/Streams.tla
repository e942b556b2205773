------------------------------ MODULE Streams ------------------------------
(***************************************************************************)
(* The four lists of streams (players, monitors, recorders, filters), the  *)
(* client each stream belongs to, and one turn of the loop over them:      *)
(* mix_players(), filter_write(), monitor_write(), recorder_write().       *)
(*                                                                         *)
(* A stream is named by the slot of its client: a client that streams is   *)
(* no longer polled, so it has one stream.  Of the data the model keeps    *)
(* how much of it there is, and where in a frame a read begins.  A read    *)
(* finds less than it asks for, all of it, nothing or the end, and a peer  *)
(* may be gone at any read or write.  The daemon is not on standby and     *)
(* plays at once (write_wait is 0): CommLoop has standby and the device,   *)
(* Samples the sample players, Access the admission of a client.           *)
(***************************************************************************)
EXTENDS Mix, Sequences, FiniteSets, SequencesExt

CONSTANTS Clients,   \* connection slots
          Sources,   \* formats and rates a stream may ask for
          Pans,      \* pairs of volumes a client may ask for
          Shorts,    \* octets that a read may find when it asks for more
          MaxDebt    \* bound on how far below 0 actual_length of a filter goes

ASSUME StreamsAssumption ==
    /\ Sources \subseteq [format : Formats, rate : Nat]
    /\ Pans \subseteq Int \X Int
    /\ Shorts \subseteq Nat \ {0}
    /\ MaxDebt \in Nat

Kinds == {"play", "monitor", "record", "filter"}

NoStream == [format |-> AudioFormat, rate |-> 0, buffer_length |-> 0,
             actual_length |-> 0, left |-> 0, right |-> 0,
             mix |-> MixFunc(AudioFormat, 0, 0)]

VARIABLES
    client,   \* slot -> client->state; "NONE" without a client
    stream,   \* slot -> esd_player_t
    list,     \* kind -> the list of its streams, newest first
    pc,       \* where the loop is
    min,      \* local of mix_players()
    length,   \* length of the sound in the output buffer
    record,   \* esd_audio_format has ESD_RECORD
    cut,      \* history: players with a short read in this turn
    octets,   \* history: slot -> octets taken off a player's socket, and those of
              \* short reads among them, modulo the size of its frames
    stale     \* history: monitors that got older sound in this turn

vars == <<client, stream, list, pc, min, length, record, cut, octets, stale>>

NoOctets == [taken |-> 0, dropped |-> 0]

Init ==
    /\ client = [c \in Clients |-> "NONE"]
    /\ stream = [c \in Clients |-> NoStream]
    /\ list = [k \in Kinds |-> <<>>]
    /\ pc = "poll"
    /\ min = 0 /\ length = 0
    /\ record = FALSE
    /\ cut = {} /\ stale = {}
    /\ octets = [c \in Clients |-> NoOctets]

On(k) == ToSet(list[k])
Room(c) == stream[c].buffer_length - stream[c].actual_length

\* erase_player(), erase_monitor(), erase_recorder(), erase_filter(): off the
\* list, and free_player() erases the client.
Erased(k, S) ==
    LET kept == {i \in DOMAIN list[k] : list[k][i] \notin S}
    IN  /\ client' = [c \in Clients |-> IF c \in S THEN "NONE" ELSE client[c]]
        /\ \E at \in [1..Cardinality(kept) -> kept] :
             /\ kept = {at[i] : i \in DOMAIN at}
             /\ \A i \in DOMAIN at, j \in DOMAIN at : i < j => at[i] < at[j]
             /\ list' = [list EXCEPT ![k] = [i \in DOMAIN at |-> list[k][at[i]]]]

----------------------------------------------------------------------------
(* Requests, handled by poll_client_requests().                            *)

Connect(c) ==
    /\ pc = "poll"
    /\ client[c] = "NONE"
    /\ client' = [client EXCEPT ![c] = "NEXT_REQUEST"]
    /\ UNCHANGED <<stream, list, pc, min, length, record, cut, octets, stale>>

\* The client disconnects, or its request fails: no memory, no mix function, no
\* device to record from.
Refused(c) ==
    /\ pc = "poll"
    /\ client[c] = "NEXT_REQUEST"
    /\ client' = [client EXCEPT ![c] = "NONE"]
    /\ UNCHANGED <<stream, list, pc, min, length, record, cut, octets, stale>>

\* new_stream_player().
NewStream(src) ==
    [format |-> src.format, rate |-> src.rate,
     buffer_length |-> BufferLength(src.format, src.rate), actual_length |-> 0,
     left |-> VolumeBase, right |-> VolumeBase,
     mix |-> MixFunc(src.format, VolumeBase, VolumeBase)]

\* Mutant: the client goes on sending requests.
StreamAddedPolled(c, k, src) ==
    /\ stream' = [stream EXCEPT ![c] = NewStream(src)]
    /\ list' = [list EXCEPT ![k] = <<c>> \o @]
    /\ UNCHANGED client

\* The new stream goes to the head of its list.
StreamAdded(c, k, src) ==
    /\ stream' = [stream EXCEPT ![c] = NewStream(src)]
    /\ list' = [list EXCEPT ![k] = <<c>> \o @]
    /\ client' = [client EXCEPT ![c] = "STREAMING_DATA"]

\* esd_proto_stream_play(), _monitor(), _recorder() and _filter().
ProtoStream(c, k, src) ==
    /\ pc = "poll"
    /\ client[c] = "NEXT_REQUEST"
    /\ NewStream(src).mix # NoMixFunc
    /\ StreamAdded(c, k, src)
    /\ record' = (record \/ k = "record")
    /\ octets' = [octets EXCEPT ![c] = NoOctets]
    /\ UNCHANGED <<pc, min, length, cut, stale>>

\* Mutant: the mix function stays.
PannedOnly(t, left, right) ==
    [stream EXCEPT ![t].left = left, ![t].right = right]

Panned(t, left, right) ==
    [stream EXCEPT ![t].left = left, ![t].right = right,
                   ![t].mix = MixFunc(stream[t].format, left, right)]

\* esd_proto_stream_pan(): the reply says whether t is a stream that plays.
ProtoStreamPan(c, t, left, right) ==
    /\ pc = "poll"
    /\ client[c] = "NEXT_REQUEST"
    /\ t \in On("play")
    /\ stream' = Panned(t, left, right)
    /\ UNCHANGED <<client, list, pc, min, length, record, cut, octets, stale>>

PollDone ==
    /\ pc = "poll"
    /\ pc' = "read"
    /\ UNCHANGED <<client, stream, list, min, length, record, cut, octets, stale>>

\* Nothing is readable, but there is a recorder to serve.
Idle ==
    /\ pc = "poll"
    /\ list["record"] # <<>>
    /\ pc' = "record"
    /\ UNCHANGED <<client, stream, list, min, length, record, cut, octets, stale>>

----------------------------------------------------------------------------
(* mix_players(): read all, then mix what all of them have.                *)

\* The players that min is the least of, among those that count: min = 0 stands
\* for no player yet, so one with 0 bytes makes those before it forgotten.
Seen(counted, bytes) ==
    {i \in counted : \A z \in counted : bytes[z] = 0 => z < i}

\* What read() may return: -1 stands for the end of file and for an error,
\* interruption included, 0 for nothing to read.  A full buffer is not read.
Found(c) ==
    IF Room(c) > 0 THEN {-1, 0, Room(c)} \cup {n \in Shorts : n < Room(c)} ELSE {0}
Partial(c, n) == n > 0 /\ n < Room(c)

\* actual_length after read_player(): a short read leaves it alone, and its
\* octets are overwritten by the next read.
ReadLength(c, n) ==
    IF n > 0 /\ ~ Partial(c, n) THEN stream[c].buffer_length ELSE stream[c].actual_length

\* Where in a frame of what the client has sent the next read of c begins, and how
\* far it is there because of short reads.
ReadOctets(c, n) ==
    LET frame == FrameBytes(stream[c].format)
    IN  IF n <= 0 THEN octets[c]
        ELSE [taken |-> (octets[c].taken + n) % frame,
              dropped |-> (octets[c].dropped + IF Partial(c, n) THEN n ELSE 0) % frame]

\* First pass.
MixRead ==
    /\ pc = "read"
    /\ \E found \in [On("play") -> UNION {Found(c) : c \in On("play")}] :
         /\ \A c \in On("play") : found[c] \in Found(c)
         /\ LET play == list["play"]
                ended == {c \in On("play") : found[c] < 0}
                counted == {i \in DOMAIN play :
                              /\ play[i] \notin ended
                              /\ \/ found[play[i]] # 0
                                 \/ stream[play[i]].actual_length # 0}
                bytes == [i \in counted |->
                            Translated(stream[play[i]].format, stream[play[i]].rate,
                                       ReadLength(play[i], found[play[i]]))]
                seen == Seen(counted, bytes)
            IN  /\ stream' = [c \in Clients |->
                                IF c \in ended THEN NoStream
                                ELSE IF c \notin On("play") THEN stream[c]
                                ELSE [stream[c] EXCEPT
                                        !.actual_length = ReadLength(c, found[c])]]
                /\ octets' = [c \in Clients |->
                                IF c \in ended THEN NoOctets
                                ELSE IF c \notin On("play") THEN octets[c]
                                ELSE ReadOctets(c, found[c])]
                /\ \/ seen = {} /\ min' = 0
                   \/ \E i \in seen : min' = bytes[i] /\ \A j \in seen : bytes[i] <= bytes[j]
                /\ Erased("play", ended)
                /\ cut' = {c \in On("play") : Partial(c, found[c])}
    /\ pc' = "add"
    /\ UNCHANGED <<length, record, stale>>

Mixed == {c \in On("play") : min > 0 /\ stream[c].actual_length > 0}

\* Mutant: what is left over is thrown away in bytes, not in frames.
LeftOverBytes(c) ==
    LET used == ((min \div 4) * stream[c].rate) \div AudioRate
    IN  IF stream[c].actual_length > used THEN stream[c].actual_length - used ELSE 0

\* Mutant: more may be used than there is.
LeftOverUnchecked(c) ==
    stream[c].actual_length - Used(stream[c].format, stream[c].rate, min)

\* What player c has left after min bytes of output.
LeftOver(c) ==
    LET used == Used(stream[c].format, stream[c].rate, min)
    IN  IF stream[c].actual_length > used THEN stream[c].actual_length - used ELSE 0

\* Second pass, clipping, and the length that is returned.
MixAdd ==
    /\ pc = "add"
    /\ stream' = [c \in Clients |->
                    IF c \in Mixed THEN [stream[c] EXCEPT !.actual_length = LeftOver(c)]
                    ELSE stream[c]]
    /\ length' = IF Mixed = {} THEN 0
                 ELSE IF AudioFormat.bits = 16 THEN min ELSE min \div 2
    /\ min' = 0
    /\ pc' = "filter"
    /\ UNCHANGED <<client, list, record, cut, octets, stale>>

----------------------------------------------------------------------------
(* filter_write(): every filter gets the sound and gives it back.          *)

\* data_size for the i-th filter.
DataSize(i) ==
    LET len(j) == stream[list["filter"][j]].buffer_length
    IN  TranslateLength(IF i = 1 THEN length ELSE len(i - 1), len(i))

\* actual_length of a filter after its answer: read_player() adds the octets of a
\* whole read only, and filter_write() takes off the octets of any.
AnsweredLength(c, n) ==
    IF Partial(c, n) THEN stream[c].actual_length - n ELSE stream[c].actual_length

\* A filter ends when the block cannot be written to it, or its answer is the
\* end of file.
FilterWrite ==
    /\ pc = "filter"
    /\ LET filters == list["filter"]
       IN  \E found \in [On("filter") -> {-1} \cup UNION {Found(c) : c \in On("filter")}] :
             LET ended == {c \in On("filter") : found[c] < 0}
             IN  /\ \A i \in DOMAIN filters :
                      \/ found[filters[i]] \in Found(filters[i])
                      \/ found[filters[i]] = -1 /\ DataSize(i) > 0
                 /\ \A c \in On("filter") :
                      Partial(c, found[c]) => AnsweredLength(c, found[c]) >= -MaxDebt
                 /\ stream' = [c \in Clients |->
                                 IF c \in ended THEN NoStream
                                 ELSE IF c \notin On("filter") THEN stream[c]
                                 ELSE [stream[c] EXCEPT
                                         !.actual_length = AnsweredLength(c, found[c])]]
                 /\ Erased("filter", ended)
                 /\ length' = IF filters = <<>> THEN length
                              ELSE TranslateLength(stream[Last(filters)].buffer_length,
                                                   length)
    /\ pc' = "monitor"
    /\ UNCHANGED <<min, record, cut, octets, stale>>

----------------------------------------------------------------------------
(* monitor_write() and recorder_write().                                   *)

\* Mutant: a monitor that is gone leaves 0.
SourceLengthLost(i, ready, lost) ==
    LET monitors == list["monitor"]
        before == {j \in 1..(i - 1) : monitors[j] \in ready}
        j == CHOOSE m \in before : \A n \in before : n <= m
    IN  IF before = {} THEN length
        ELSE IF monitors[j] \in lost THEN 0
        ELSE stream[monitors[j]].buffer_length

\* length when the i-th monitor is reached: what the one before it has written,
\* among those that were ready.
SourceLength(i, ready, lost) ==
    LET monitors == list["monitor"]
        before == {j \in 1..(i - 1) : monitors[j] \in ready}
        j == CHOOSE m \in before : \A n \in before : n <= m
    IN  IF before = {} THEN length
        ELSE IF monitors[j] \in lost THEN -1
        ELSE stream[monitors[j]].buffer_length

\* The frame of the source that is read for the last frame of len bytes.
LastRead(dst, len, src_rate, dst_rate) ==
    SourceFrame(dst, (len \div FrameBytes(dst)) - 1, src_rate, dst_rate)

\* The frames that this turn has put into the output buffer.
Sounding == length \div FrameBytes(AudioFormat)

\* The i-th monitor gets sound of an earlier turn: without source data the
\* translation leaves its block as it was, otherwise it fills the whole block,
\* from behind the sound of this turn too.
Outdated(i, ready, lost) ==
    LET s == stream[list["monitor"][i]]
    IN  /\ s.buffer_length > 0
        /\ \/ SourceLength(i, ready, lost) = 0
           \/ LastRead(s.format, s.buffer_length, AudioRate, s.rate) >= Sounding

\* A monitor that is not ready is left out; one that cannot be written to is
\* erased.
MonitorWrite ==
    /\ pc = "monitor"
    /\ \E ready \in SUBSET On("monitor") : \E lost \in SUBSET ready :
         /\ length = 0 => ready = {}
         /\ stale' = {list["monitor"][i] : i \in
                        {i \in DOMAIN list["monitor"] :
                           list["monitor"][i] \in ready \ lost /\ Outdated(i, ready, lost)}}
         /\ Erased("monitor", lost)
         /\ stream' = [c \in Clients |-> IF c \in lost THEN NoStream ELSE stream[c]]
    /\ pc' = "record"
    /\ UNCHANGED <<min, length, record, cut, octets>>

\* A recorder whose peer is gone, or that cannot be written to, is erased; after
\* the last one the device is opened for playing only.
RecorderWrite ==
    /\ pc = "record"
    /\ \E lost \in SUBSET On("record") :
         /\ Erased("record", lost)
         /\ stream' = [c \in Clients |-> IF c \in lost THEN NoStream ELSE stream[c]]
         /\ record' = IF lost = {} THEN record ELSE list'["record"] # <<>>
    /\ length' = 0
    /\ stale' = {} /\ cut' = {}
    /\ pc' = "poll"
    /\ UNCHANGED <<min, octets>>

----------------------------------------------------------------------------
Requests(c) ==
    \/ Connect(c) \/ Refused(c)
    \/ \E k \in Kinds, src \in Sources : ProtoStream(c, k, src)
    \/ \E t \in Clients, p \in Pans : ProtoStreamPan(c, t, p[1], p[2])

Next ==
    \/ \E c \in Clients : Requests(c)
    \/ PollDone \/ Idle \/ MixRead \/ MixAdd \/ FilterWrite \/ MonitorWrite \/ RecorderWrite

Spec == Init /\ [][Next]_vars

----------------------------------------------------------------------------
(* Properties.                                                             *)

\* Every variable has its type; actual_length is negative for filters only.
TypeOK ==
    /\ client \in [Clients -> {"NONE", "NEXT_REQUEST", "STREAMING_DATA"}]
    /\ stream \in [Clients -> [format : Formats, rate : Nat, buffer_length : Nat,
                               actual_length : Int, left : Int, right : Int,
                               mix : [format : Formats, sv : BOOLEAN]]]
    /\ list \in [Kinds -> Seq(Clients)]
    /\ pc \in {"poll", "read", "add", "filter", "monitor", "record"}
    /\ min \in 0..BufOctets /\ length \in 0..BufOctets
    /\ record \in BOOLEAN
    /\ cut \subseteq Clients /\ stale \subseteq Clients
    /\ octets \in [Clients -> [taken : 0..3, dropped : 0..3]]
    /\ \A c \in Clients \ On("filter") : stream[c].actual_length >= 0

\* A client that streams is on one of the four lists, once, and every stream on
\* a list has such a client: free_player() of one never leaves another with a
\* freed client, and the device records while there is a recorder.
Owned ==
    /\ \A c \in Clients : client[c] = "STREAMING_DATA" <=> \E k \in Kinds : c \in On(k)
    /\ \A k \in Kinds, l \in Kinds : \A i \in DOMAIN list[k], j \in DOMAIN list[l] :
         list[k][i] = list[l][j] => k = l /\ i = j
    /\ record <=> list["record"] # <<>>

\* What a player holds are whole frames that fit its buffer, and they begin where
\* the client's frames begin, shifted by what short reads took off the socket and
\* dropped (players.c:317) and by nothing else: neither resampling nor the move of
\* what is left over ever makes a read end inside a frame.
WholeFrames ==
    \A c \in On("play") :
      /\ stream[c].actual_length \in 0..stream[c].buffer_length
      /\ stream[c].actual_length % FrameBytes(stream[c].format) = 0
      /\ octets[c].taken = octets[c].dropped

\* The mixer reads no frame that a player does not hold, whatever the rates, and
\* fills no more than the mix buffer.  (With a short read in the same turn min
\* may forget the shorter player: mix.c:939.)
MixInside ==
    pc = "add" /\ cut \cap On("play") = {} =>
      /\ min <= BufOctets /\ min % 4 = 0
      /\ \A c \in Mixed :
           ReadFrame(stream[c].format, stream[c].rate, (min \div 2) - 2)
             < stream[c].actual_length \div FrameBytes(stream[c].format)

\* The whole frames in the duration of the output buffer.
ExactFrames(s) == BufferLengthExact(s.format, s.rate) \div FrameBytes(s.format)

\* A translation reads inside its source.  From the output buffer to the first
\* filter, monitors and recorders: none but frames of the buffer.  From a filter
\* to the next one or back to the output: at most the frame that the end of the
\* output buffer's duration cuts in two.  (buffer_length is rounded down to 4
\* bytes, players.c:569, so that the block may end up to 4 frames before.)
TranslateInside ==
    /\ \A c \in On("monitor") \cup On("record") \cup On("filter") :
         stream[c].buffer_length > 0 =>
           LastRead(stream[c].format, stream[c].buffer_length, AudioRate, stream[c].rate)
             < BufOctets \div FrameBytes(AudioFormat)
    /\ \A i \in DOMAIN list["filter"] :
         LET src == stream[list["filter"][i]]
             dst == stream[list["filter"][i + 1]]
         IN  src.buffer_length > 0 =>
               IF i < Len(list["filter"])
               THEN dst.buffer_length > 0 =>
                      LastRead(dst.format, dst.buffer_length, src.rate, dst.rate)
                        <= ExactFrames(src)
               ELSE pc = "filter" /\ length > 0 =>
                      LastRead(AudioFormat, length, src.rate, AudioRate) <= ExactFrames(src)

\* Sample values at the edges of their range and around silence.
Edges(f) == IF f.bits = 8 THEN {0, 127, 128, 254} ELSE {-32768, -257, 0, 32767}

\* The function a player is mixed with gives what the one with volume control
\* gives for its volumes: a pan request changes the function with the volumes,
\* and the one without volume control is equal to the other at ESD_VOLUME_BASE.
PlainIsScaled ==
    \A c \in On("play") : \A l \in Edges(stream[c].format), r \in Edges(stream[c].format) :
      (stream[c].format.chan = 1 => l = r) =>
        Contribution(stream[c].mix, l, r, stream[c].left, stream[c].right)
          = Contribution([stream[c].mix EXCEPT !.sv = FALSE], l, r,
                         stream[c].left, stream[c].right)

\* A higher sample never lowers the output, whatever the others play, as long as
\* the volumes are between 0 and ESD_VOLUME_BASE.  (A pan request may set any,
\* proto.c:751: a negative one turns the sound over, and a larger one overflows.
\* Of 8 bits, 255 is an exception: its widened value does not fit a short.)
MixMonotone ==
    \A c \in On("play") : {stream[c].left, stream[c].right} \subseteq 0..VolumeBase =>
      \A v \in Edges(stream[c].format), w \in Edges(stream[c].format), others \in {-40000, 40000} :
        LET out(x, i) == Output(others + Contribution(stream[c].mix, x, x, stream[c].left,
                                                      stream[c].right)[i])
        IN  v <= w => out(v, 1) <= out(w, 1) /\ out(v, 2) <= out(w, 2)

\* Sound that goes through a filter which gives back what it got loses at most
\* the low byte.
RoundTrip ==
    \A c \in On("filter"), v \in Edges(AudioFormat) :
      LET there == TranslateFrame(TranslateFunc(AudioFormat), stream[c].format, v, v)
          back == TranslateFrame(TranslateFunc(stream[c].format), AudioFormat,
                                 there[1], there[Len(there)])
      IN  \A i \in DOMAIN back : -256 < back[i] - v /\ back[i] - v < 256

\* In a turn that fills the output buffer every monitor that is served gets the
\* sound of this turn and none of an earlier one, whatever the rates and whatever
\* the monitors before it do, unless one on the list asked for a rate so low that
\* its buffer is empty.  (When less was mixed, the end of a monitor's block is what
\* the output buffer held before, recorded sound included: clients.c:416-418 counts
\* on mix_players() to clear it, which it does not.)
MonitorsFresh ==
    Sounding = BufOctets \div 4 =>
      \A c \in stale : \E m \in On("monitor") : stream[m].buffer_length = 0
============================================================================
