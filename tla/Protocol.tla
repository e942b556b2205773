------------------------------ MODULE Protocol ------------------------------
(***************************************************************************)
(* What the two sides of a connection say: the calls of the client library *)
(* (esdlib.c, esdmgr.c) as the writes and reads they make, and the         *)
(* handlers of the daemon (proto.c) as the replies they write.  Sizes are  *)
(* in pieces, the parts of a field that may arrive separately.             *)
(***************************************************************************)
EXTENDS Integers, Sequences

CONSTANTS IntSize,   \* sizeof(int)
          KeySize,   \* ESD_KEY_LEN
          NameSize,  \* ESD_NAME_MAX
          DataSize   \* the data of a sample

ASSUME ProtocolAssumption ==
    /\ IntSize \in Nat \ {0} /\ KeySize \in Nat \ {0}
    /\ NameSize \in Nat \ {0} /\ DataSize \in Nat \ {0}

----------------------------------------------------------------------------
(* Client library: a call is a list of steps.  A step writes or reads size *)
(* pieces; when that fails the call goes on with step `fail', and returns  *)
(* -1 when that is 0.  After a read with `more' the call goes back to that *)
(* step while the id read before is positive.                              *)

W(size, fail) == [op |-> "write", size |-> size, fail |-> fail, more |-> 0, wait |-> FALSE]
R(size, fail) == [op |-> "read", size |-> size, fail |-> fail, more |-> 0, wait |-> FALSE]

\* esdmgr.c calls write() and read(), which wait as long as it takes.
Writes(size, fail) ==
    [op |-> "write", size |-> size, fail |-> fail, more |-> 0, wait |-> TRUE]
Reads(size, fail, more) ==
    [op |-> "read", size |-> size, fail |-> fail, more |-> more, wait |-> TRUE]

\* esd_send_auth(), as esd_open_sound() calls it on a new connection.
esd_send_auth == <<W(KeySize, 0), W(IntSize, 0), R(IntSize, 0)>>

\* Mutant: the reply to the key is taken for that to the request.
WithAuthOnce == <<W(IntSize, 2), W(KeySize, 4), W(IntSize, 4), R(IntSize, 0)>>

\* The result of the request word's write is not looked at, nor is that of
\* esd_send_auth(), which leaves at its first failure.
WithAuth == <<W(IntSize, 2), W(KeySize, 5), W(IntSize, 5), R(IntSize, 5), R(IntSize, 0)>>
esd_lock == WithAuth
esd_unlock == WithAuth
esd_standby == WithAuth
esd_resume == WithAuth

esd_get_latency == <<W(IntSize, 0), R(IntSize, 0)>>

Stream == <<W(IntSize, 0), W(IntSize, 0), W(IntSize, 0), W(NameSize, 0)>>
esd_play_stream == Stream
esd_monitor_stream == Stream
esd_filter_stream == Stream
esd_record_stream == Stream

esd_sample_cache == <<W(IntSize, 0), W(IntSize, 0), W(IntSize, 0), W(IntSize, 0),
                      W(NameSize, 0), R(IntSize, 0)>>

\* The application sends the data, then calls esd_confirm_sample_cache().
esd_confirm_sample_cache == <<W(DataSize, 0), R(IntSize, 0)>>

esd_sample_getid == <<W(IntSize, 0), W(NameSize, 0), R(IntSize, 0)>>

OfSample == <<W(IntSize, 0), W(IntSize, 0), R(IntSize, 0)>>
esd_sample_free == OfSample
esd_sample_play == OfSample
esd_sample_loop == OfSample
esd_sample_stop == OfSample
esd_sample_kill == OfSample

\* Only the last write and the last read of a group are looked at.
esd_get_server_info ==
    <<Writes(IntSize, 2), Writes(IntSize, 0),
      Reads(IntSize, 4, 0), Reads(IntSize, 5, 0), Reads(IntSize, 0, 0)>>

\* The server, then players and samples up to one with id 0; the fields that
\* follow an id count as one.
esd_get_all_info ==
    esd_get_server_info \o
    <<Reads(IntSize, 7, 0), Reads(IntSize, 0, 6),
      Reads(IntSize, 9, 0), Reads(IntSize, 0, 8)>>

Pan == <<Writes(IntSize, 0), Writes(IntSize, 0), Writes(IntSize, 0),
         Writes(IntSize, 0), Reads(IntSize, 0, 0)>>
esd_set_stream_pan == Pan
esd_set_default_sample_pan == Pan

esd_get_standby_mode == <<Writes(IntSize, 2), Writes(IntSize, 0), Reads(IntSize, 0, 0)>>

\* The request each call sends, and its steps.
Requests ==
    [esd_lock |-> "LOCK", esd_unlock |-> "UNLOCK", esd_standby |-> "STANDBY",
     esd_resume |-> "RESUME", esd_get_latency |-> "LATENCY",
     esd_play_stream |-> "STREAM_PLAY", esd_record_stream |-> "STREAM_REC",
     esd_monitor_stream |-> "STREAM_MON", esd_filter_stream |-> "STREAM_FILT",
     esd_sample_cache |-> "SAMPLE_CACHE", esd_sample_getid |-> "SAMPLE_GETID",
     esd_sample_free |-> "SAMPLE_FREE", esd_sample_play |-> "SAMPLE_PLAY",
     esd_sample_loop |-> "SAMPLE_LOOP", esd_sample_stop |-> "SAMPLE_STOP",
     esd_sample_kill |-> "SAMPLE_KILL", esd_get_server_info |-> "SERVER_INFO",
     esd_get_all_info |-> "ALL_INFO", esd_set_stream_pan |-> "STREAM_PAN",
     esd_set_default_sample_pan |-> "SAMPLE_PAN",
     esd_get_standby_mode |-> "STANDBY_MODE"]

Steps ==
    [esd_send_auth |-> esd_send_auth, esd_lock |-> esd_lock, esd_unlock |-> esd_unlock,
     esd_standby |-> esd_standby, esd_resume |-> esd_resume,
     esd_get_latency |-> esd_get_latency, esd_play_stream |-> esd_play_stream,
     esd_record_stream |-> esd_record_stream, esd_monitor_stream |-> esd_monitor_stream,
     esd_filter_stream |-> esd_filter_stream, esd_sample_cache |-> esd_sample_cache,
     esd_confirm_sample_cache |-> esd_confirm_sample_cache,
     esd_sample_getid |-> esd_sample_getid, esd_sample_free |-> esd_sample_free,
     esd_sample_play |-> esd_sample_play, esd_sample_loop |-> esd_sample_loop,
     esd_sample_stop |-> esd_sample_stop, esd_sample_kill |-> esd_sample_kill,
     esd_get_server_info |-> esd_get_server_info, esd_get_all_info |-> esd_get_all_info,
     esd_set_stream_pan |-> esd_set_stream_pan,
     esd_set_default_sample_pan |-> esd_set_default_sample_pan,
     esd_get_standby_mode |-> esd_get_standby_mode]

Streaming == {"esd_play_stream", "esd_record_stream", "esd_monitor_stream",
              "esd_filter_stream"}

\* Calls that send the key.
Keyed == {"esd_lock", "esd_unlock", "esd_standby", "esd_resume"}

----------------------------------------------------------------------------
(* Daemon: a handler is the set of its outcomes: the words it writes, and  *)
(* the state of the client, "NONE" when it returns 0 and the client is     *)
(* erased.                                                                 *)

Says(words) == [words |-> words, state |-> "NEXT_REQUEST"]
Fails(words) == [words |-> words, state |-> "NONE"]

\* esd_validate_source() replies; a bad endian key shows only by the close.
esd_proto_connect == {Says(<<1>>), Fails(<<0>>), Fails(<<1>>)}

\* The reply of esd_validate_source(), then the handler's own.
esd_proto_lock == {Says(<<1, 1>>), Fails(<<0, 0>>)}
esd_proto_unlock == {Says(<<1, 1>>), Fails(<<0, 0>>)}

esd_proto_standby == {Says(<<1, 1>>), Fails(<<0, 0>>), Fails(<<1, 0>>)}
esd_proto_resume == {Says(<<1, 1>>), Fails(<<0, 0>>), Fails(<<1, 0>>)}

NewStreamOutcomes == {[words |-> <<>>, state |-> "STREAMING_DATA"], Fails(<<>>)}
esd_proto_stream_play == NewStreamOutcomes
esd_proto_stream_recorder == NewStreamOutcomes
esd_proto_stream_monitor == NewStreamOutcomes
esd_proto_stream_filter == NewStreamOutcomes

\* new_sample() says the id before read_sample() waits for the data, which
\* CACHING_SAMPLE stands for here; without memory there is no reply.
esd_proto_sample_cache == {[words |-> <<1>>, state |-> "CACHING_SAMPLE"], Fails(<<>>)}

esd_proto_sample_getid == {Says(<<1>>), Says(<<0>>)}

\* The id the client has sent, whether the sample is there or not.
esd_proto_sample_free == {Says(<<1>>)}
esd_proto_sample_play == {Says(<<1>>)}
esd_proto_sample_loop == {Says(<<1>>)}
esd_proto_sample_stop == {Says(<<1>>)}

esd_proto_server_info == {Says(<<0, 1, 1>>)}

\* Up to one player and one sample, then those with id 0.
esd_proto_all_info ==
    {Says(<<0, 1, 1>> \o p \o <<0, 0>> \o s \o <<0, 0>>) : p \in {<<>>, <<1, 1>>},
                                                          s \in {<<>>, <<1, 1>>}}

\* Mutant: no reply when there is no such stream.
esd_proto_stream_pan_silent == {Says(<<1>>), Says(<<>>)}

esd_proto_stream_pan == {Says(<<1>>), Says(<<0>>)}
esd_proto_sample_pan == {Says(<<1>>), Says(<<0>>)}
esd_proto_standby_mode == {Says(<<1>>)}
esd_proto_get_latency == {Says(<<1>>)}
esd_proto_unimplemented == {Fails(<<>>)}

\* esd_proto_map: the size of the parameters, and the handler.
data_length ==
    [CONNECT |-> KeySize + IntSize, LOCK |-> KeySize + IntSize,
     UNLOCK |-> KeySize + IntSize, STREAM_PLAY |-> NameSize + 2 * IntSize,
     STREAM_REC |-> NameSize + 2 * IntSize, STREAM_MON |-> NameSize + 2 * IntSize,
     SAMPLE_CACHE |-> NameSize + 3 * IntSize, SAMPLE_FREE |-> IntSize,
     SAMPLE_PLAY |-> IntSize, SAMPLE_LOOP |-> IntSize, SAMPLE_STOP |-> IntSize,
     SAMPLE_KILL |-> -1, STANDBY |-> KeySize + IntSize, RESUME |-> KeySize + IntSize,
     SAMPLE_GETID |-> NameSize, STREAM_FILT |-> NameSize + 2 * IntSize,
     SERVER_INFO |-> IntSize, ALL_INFO |-> IntSize, SUBSCRIBE |-> -1,
     UNSUBSCRIBE |-> -1, STREAM_PAN |-> 3 * IntSize, SAMPLE_PAN |-> 3 * IntSize,
     STANDBY_MODE |-> IntSize, LATENCY |-> 0]

handler ==
    [CONNECT |-> esd_proto_connect, LOCK |-> esd_proto_lock, UNLOCK |-> esd_proto_unlock,
     STREAM_PLAY |-> esd_proto_stream_play, STREAM_REC |-> esd_proto_stream_recorder,
     STREAM_MON |-> esd_proto_stream_monitor, SAMPLE_CACHE |-> esd_proto_sample_cache,
     SAMPLE_FREE |-> esd_proto_sample_free, SAMPLE_PLAY |-> esd_proto_sample_play,
     SAMPLE_LOOP |-> esd_proto_sample_loop, SAMPLE_STOP |-> esd_proto_sample_stop,
     SAMPLE_KILL |-> esd_proto_unimplemented, STANDBY |-> esd_proto_standby,
     RESUME |-> esd_proto_resume, SAMPLE_GETID |-> esd_proto_sample_getid,
     STREAM_FILT |-> esd_proto_stream_filter, SERVER_INFO |-> esd_proto_server_info,
     ALL_INFO |-> esd_proto_all_info, SUBSCRIBE |-> esd_proto_unimplemented,
     UNSUBSCRIBE |-> esd_proto_unimplemented, STREAM_PAN |-> esd_proto_stream_pan,
     SAMPLE_PAN |-> esd_proto_sample_pan, STANDBY_MODE |-> esd_proto_standby_mode,
     LATENCY |-> esd_proto_get_latency]
============================================================================
