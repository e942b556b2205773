------------------------- MODULE ConversationProofs -------------------------
(***************************************************************************)
(* The invariants of Conversation hold for any number of calls of any kind *)
(* in any order, any size of the fields, and any number of late answers.   *)
(***************************************************************************)
EXTENDS Conversation, FiniteSetTheorems, TLAPS

----------------------------------------------------------------------------
(* What the tables of Protocol say.                                        *)

StepType == [op : {"write", "read"}, size : Nat \ {0}, fail : Nat, more : Nat,
             wait : BOOLEAN]

\* A call writes its message first and then reads words; a failure goes forward.
ShapeOK(x) ==
    /\ x \in Seq(StepType) /\ Len(x) \in 2..9
    /\ x[1].op = "write"
    /\ \A s \in DOMAIN x :
         /\ \A t \in DOMAIN x : x[s].op = "read" /\ s <= t => x[t].op = "read"
         /\ x[s].fail = 0 \/ (x[s].fail > s /\ x[s].fail <= Len(x))
         /\ x[s].op = "read" => x[s].size = IntSize
         /\ x[s].more # 0 => x[s].more \in 1..Len(x) /\ x[x[s].more].op = "read"

Shapes == {esd_send_auth, WithAuth, esd_get_latency, Stream, esd_sample_cache,
           esd_confirm_sample_cache, esd_sample_getid, OfSample, esd_get_server_info,
           esd_get_all_info, Pan, esd_get_standby_mode}

LEMMA CallShapes ==
  ASSUME NEW a \in DOMAIN Steps
  PROVE  Steps[a] \in Shapes
  BY DEF Shapes, Steps, esd_lock, esd_unlock, esd_standby, esd_resume, esd_play_stream,
         esd_record_stream, esd_monitor_stream, esd_filter_stream, esd_sample_free,
         esd_sample_play, esd_sample_loop, esd_sample_stop, esd_sample_kill,
         esd_set_stream_pan, esd_set_default_sample_pan

LEMMA StepsOK ==
  ASSUME NEW a \in DOMAIN Steps
  PROVE  ShapeOK(Steps[a])
  <1>1. ShapeOK(esd_send_auth) /\ ShapeOK(WithAuth) /\ ShapeOK(esd_get_latency)
    BY ProtocolAssumption
    DEF ShapeOK, StepType, W, R, esd_send_auth, WithAuth, esd_get_latency
  <1>2. ShapeOK(Stream) /\ ShapeOK(esd_sample_cache) /\ ShapeOK(esd_confirm_sample_cache)
    BY ProtocolAssumption
    DEF ShapeOK, StepType, W, R, Stream, esd_sample_cache, esd_confirm_sample_cache
  <1>3. ShapeOK(esd_sample_getid) /\ ShapeOK(OfSample)
    BY ProtocolAssumption DEF ShapeOK, StepType, W, R, esd_sample_getid, OfSample
  <1>4. ShapeOK(esd_get_server_info)
    BY ProtocolAssumption DEF ShapeOK, StepType, Writes, Reads, esd_get_server_info
  <1>5. ShapeOK(esd_get_all_info)
    BY ProtocolAssumption, SMTT(30)
    DEF ShapeOK, StepType, Writes, Reads, esd_get_all_info, esd_get_server_info
  <1>6. ShapeOK(Pan) /\ ShapeOK(esd_get_standby_mode)
    BY ProtocolAssumption DEF ShapeOK, StepType, Writes, Reads, Pan, esd_get_standby_mode
  <1> QED  BY CallShapes, <1>1, <1>2, <1>3, <1>4, <1>5, <1>6 DEF Shapes

LEMMA StepTyped ==
  ASSUME NEW a \in DOMAIN Steps
  PROVE  /\ Len(Steps[a]) \in 2..9 /\ DOMAIN Steps[a] = 1..Len(Steps[a])
         /\ \A s \in DOMAIN Steps[a] :
              /\ Steps[a][s].op \in {"write", "read"}
              /\ Steps[a][s].size \in Nat \ {0}
              /\ Steps[a][s].fail \in 0..Len(Steps[a]) /\ Steps[a][s].more \in 0..Len(Steps[a])
  <1> DEFINE x == Steps[a]
  <1>1. ShapeOK(x)
    BY StepsOK
  <1> HIDE DEF x
  <1>2. Len(x) \in 2..9 /\ DOMAIN x = 1..Len(x) /\ x \in Seq(StepType)
    BY <1>1 DEF ShapeOK
  <1>3. ASSUME NEW s \in DOMAIN x
        PROVE  /\ x[s].op \in {"write", "read"} /\ x[s].size \in Nat \ {0}
               /\ x[s].fail \in 0..Len(x) /\ x[s].more \in 0..Len(x)
    <2>1. x[s] \in StepType
      BY <1>2
    <2>2. /\ x[s].fail = 0 \/ (x[s].fail > s /\ x[s].fail <= Len(x))
          /\ x[s].more # 0 => x[s].more \in 1..Len(x)
      BY <1>1 DEF ShapeOK
    <2> QED  BY <1>2, <2>1, <2>2 DEF StepType
  <1> QED  BY <1>2, <1>3 DEF x

LEMMA Handlers ==
  /\ DOMAIN handler = DOMAIN data_length
  /\ \A r \in DOMAIN handler : data_length[r] \in Int /\ data_length[r] >= -1
  /\ "CONNECT" \in DOMAIN handler /\ "INVALID" \notin DOMAIN handler
  /\ \A a \in DOMAIN Requests : Requests[a] \in DOMAIN handler \ {"CONNECT"}
  BY ProtocolAssumption DEF handler, data_length, Requests

States == {"NONE", "NEEDS_REQDATA", "NEXT_REQUEST", "CACHING_SAMPLE", "STREAMING_DATA"}

LEMMA SomeWords ==
  ASSUME NEW p \in {<<>>, <<1, 1>>}, NEW s \in {<<>>, <<1, 1>>}
  PROVE  /\ {<<>>, <<0>>, <<1>>, <<1, 1>>, <<0, 0>>, <<1, 0>>, <<0, 1, 1>>} \subseteq Seq({0, 1})
         /\ <<0, 1, 1>> \o p \o <<0, 0>> \o s \o <<0, 0>> \in Seq({0, 1})
  <1>1. <<>> \in Seq({0, 1}) /\ <<0>> \in Seq({0, 1}) /\ <<1>> \in Seq({0, 1})
    OBVIOUS
  <1>2. <<1, 1>> \in Seq({0, 1}) /\ <<0, 0>> \in Seq({0, 1}) /\ <<1, 0>> \in Seq({0, 1})
    OBVIOUS
  <1>3. <<0, 1, 1>> \in Seq({0, 1})
    OBVIOUS
  <1>4. <<0, 1, 1>> \o p \o <<0, 0>> \o s \o <<0, 0>> \in Seq({0, 1})
    <2> DEFINE S == Seq({0, 1})
    <2>1. p \in S /\ s \in S
      BY <1>1, <1>2
    <2>2. \A x \in S, y \in S : x \o y \in S
      OBVIOUS
    <2> HIDE DEF S
    <2> QED  BY <1>2, <1>3, <2>1, <2>2 DEF S
  <1> QED  BY <1>1, <1>2, <1>3, <1>4

LEMMA Outcomes ==
  ASSUME NEW r \in DOMAIN handler, NEW out \in handler[r]
  PROVE  /\ out.state \in {"NONE", "NEXT_REQUEST", "CACHING_SAMPLE", "STREAMING_DATA"}
         /\ out.words \in Seq({0, 1})
         /\ r = "SAMPLE_CACHE" => out.state \in {"NONE", "CACHING_SAMPLE"}
         /\ out.state = "CACHING_SAMPLE" => r = "SAMPLE_CACHE"
         /\ out.state = "STREAMING_DATA" =>
              r \in {"STREAM_PLAY", "STREAM_REC", "STREAM_MON", "STREAM_FILT"}
  <1>1. CASE r = "ALL_INFO"
    <2>1. handler[r] = esd_proto_all_info
      BY <1>1 DEF handler
    <2>2. PICK p \in {<<>>, <<1, 1>>}, s \in {<<>>, <<1, 1>>} :
            out = Says(<<0, 1, 1>> \o p \o <<0, 0>> \o s \o <<0, 0>>)
      BY <2>1 DEF esd_proto_all_info
    <2> DEFINE words == <<0, 1, 1>> \o p \o <<0, 0>> \o s \o <<0, 0>>
    <2>3. words \in Seq({0, 1})
      BY SomeWords
    <2> HIDE DEF words
    <2>4. out.state = "NEXT_REQUEST" /\ out.words = words
      BY <2>2 DEF Says, words
    <2> QED  BY <1>1, <2>3, <2>4
  <1>2. CASE r \in {"STREAM_PLAY", "STREAM_REC", "STREAM_MON", "STREAM_FILT"}
    <2>1. out \in NewStreamOutcomes
      BY <1>2 DEF handler, esd_proto_stream_play, esd_proto_stream_recorder,
                  esd_proto_stream_monitor, esd_proto_stream_filter
    <2>2. out.words = <<>> /\ out.state \in {"NONE", "STREAMING_DATA"}
      BY <2>1 DEF NewStreamOutcomes, Fails
    <2> QED  BY <1>2, <2>2
  <1>3. CASE r = "SAMPLE_CACHE"
    <2>1. out.words \in {<<>>, <<1>>} /\ out.state \in {"NONE", "CACHING_SAMPLE"}
      BY <1>3 DEF handler, esd_proto_sample_cache, Fails
    <2> QED  BY <1>3, <2>1, SomeWords
  <1>4. CASE r \notin {"ALL_INFO", "SAMPLE_CACHE", "STREAM_PLAY", "STREAM_REC",
                       "STREAM_MON", "STREAM_FILT"}
    <2>1. out \in {Says(<<1>>), Says(<<0>>), Fails(<<0>>), Fails(<<1>>), Says(<<1, 1>>),
                   Fails(<<0, 0>>), Fails(<<1, 0>>), Says(<<0, 1, 1>>), Fails(<<>>)}
      BY <1>4
      DEF handler, esd_proto_connect, esd_proto_lock, esd_proto_unlock, esd_proto_standby,
          esd_proto_resume, esd_proto_sample_getid, esd_proto_sample_free,
          esd_proto_sample_play, esd_proto_sample_loop, esd_proto_sample_stop,
          esd_proto_server_info, esd_proto_stream_pan, esd_proto_sample_pan,
          esd_proto_standby_mode, esd_proto_get_latency, esd_proto_unimplemented
    <2>2. /\ out.words \in {<<>>, <<0>>, <<1>>, <<1, 1>>, <<0, 0>>, <<1, 0>>, <<0, 1, 1>>}
          /\ out.state \in {"NONE", "NEXT_REQUEST"}
      BY <2>1 DEF Says, Fails
    <2>3. out.words \in Seq({0, 1})
      BY <2>2, SomeWords
    <2> QED  BY <1>4, <2>2, <2>3
  <1> QED  BY <1>1, <1>2, <1>3, <1>4

----------------------------------------------------------------------------
(* The message of a call.                                                  *)

Fields(a, s) == {i \in 1..(s - 1) : Steps[a][i].op = "write"}
FieldPieces(a, i) == {i} \X (1..Steps[a][i].size)

LEMMA FieldPiecesFinite ==
  ASSUME NEW a \in DOMAIN Steps, NEW i \in DOMAIN Steps[a]
  PROVE  /\ IsFiniteSet(FieldPieces(a, i))
         /\ Cardinality(FieldPieces(a, i)) = Steps[a][i].size
  <1> DEFINE n == Steps[a][i].size
  <1>1. n \in Nat \ {0}
    BY StepTyped
  <1> HIDE DEF n
  <1>2. IsFiniteSet(1..n) /\ Cardinality(1..n) = n
    BY <1>1, FS_Interval
  <1>3. IsFiniteSet({i}) /\ Cardinality({i}) = 1
    BY FS_Singleton
  <1> DEFINE T == 1..n
  <1> HIDE DEF T
  <1>4. IsFiniteSet({i} \X T) /\ Cardinality({i} \X T) = Cardinality({i}) * Cardinality(T)
    BY <1>2, <1>3, FS_Product DEF T
  <1> QED  BY <1>1, <1>2, <1>3, <1>4 DEF FieldPieces, n, T

LEMMA WrittenFinite ==
  ASSUME NEW a \in DOMAIN Steps, NEW s \in 1..(Len(Steps[a]) + 1)
  PROVE  /\ IsFiniteSet(UNION {FieldPieces(a, i) : i \in Fields(a, s)})
         /\ Written(a, s) = Cardinality(UNION {FieldPieces(a, i) : i \in Fields(a, s)})
         /\ Written(a, s) \in Nat
  <1> DEFINE S == {FieldPieces(a, i) : i \in Fields(a, s)}
  <1>1. Len(Steps[a]) \in Nat /\ DOMAIN Steps[a] = 1..Len(Steps[a])
    BY StepTyped
  <1>2. Fields(a, s) \subseteq DOMAIN Steps[a] /\ Fields(a, s) \subseteq 1..(s - 1)
    BY <1>1 DEF Fields
  <1>3. IsFiniteSet(Fields(a, s))
    <2>1. s - 1 \in Int
      BY <1>1
    <2>2. IsFiniteSet(1..(s - 1))
      BY <2>1, FS_Interval
    <2> QED  BY <2>2, <1>2, FS_Subset
  <1>4. IsFiniteSet(S)
    <2> DEFINE f == [i \in Fields(a, s) |-> FieldPieces(a, i)]
    <2>1. f \in Surjection(Fields(a, s), S)
      BY DEF Surjection
    <2> HIDE DEF f, S
    <2> QED  BY <1>3, <2>1, FS_Surjection DEF ExistsSurjection
  <1>5. \A T \in S : IsFiniteSet(T)
    BY <1>2, FieldPiecesFinite
  <1>6. IsFiniteSet(UNION S)
    BY <1>4, <1>5, FS_UNION
  <1>7. Written(a, s) = Cardinality(UNION S)
    BY DEF Written, Fields, FieldPieces
  <1> QED  BY <1>6, <1>7, FS_CardinalityType

\* Each field adds its size, a word that is read nothing.
LEMMA WrittenNext ==
  ASSUME NEW a \in DOMAIN Steps, NEW s \in DOMAIN Steps[a]
  PROVE  Written(a, s + 1) = Written(a, s)
                             + IF Steps[a][s].op = "write" THEN Steps[a][s].size ELSE 0
  <1> DEFINE U(t) == UNION {FieldPieces(a, i) : i \in Fields(a, t)}
  <1>1. Len(Steps[a]) \in Nat /\ DOMAIN Steps[a] = 1..Len(Steps[a])
    BY StepTyped
  <1>2. /\ IsFiniteSet(U(s)) /\ Written(a, s) = Cardinality(U(s)) /\ Written(a, s) \in Nat
        /\ IsFiniteSet(U(s + 1)) /\ Written(a, s + 1) = Cardinality(U(s + 1))
    <2>1. s \in 1..(Len(Steps[a]) + 1) /\ s + 1 \in 1..(Len(Steps[a]) + 1)
      BY <1>1
    <2> QED  BY <2>1, WrittenFinite
  <1>3. CASE Steps[a][s].op = "write"
    <2>1. Fields(a, s + 1) = Fields(a, s) \cup {s} /\ s \notin Fields(a, s)
      BY <1>1, <1>3 DEF Fields
    <2>2. U(s + 1) = U(s) \cup FieldPieces(a, s)
      BY <2>1
    <2>3. U(s) \cap FieldPieces(a, s) = {}
      BY <2>1 DEF FieldPieces
    <2> HIDE DEF U
    <2>4. Cardinality(U(s) \cup FieldPieces(a, s))
            = Cardinality(U(s)) + Cardinality(FieldPieces(a, s)) - Cardinality({})
      BY <1>2, <2>3, FieldPiecesFinite, FS_Union
    <2>5. Steps[a][s].size \in Nat
      BY StepTyped
    <2>6. Cardinality(FieldPieces(a, s)) = Steps[a][s].size
      BY FieldPiecesFinite
    <2>7. Written(a, s + 1) = Written(a, s) + Steps[a][s].size - Cardinality({})
      BY <1>2, <2>2, <2>4, <2>6
    <2>8. Cardinality({}) = 0
      BY FS_EmptySet
    <2> QED  BY <1>2, <1>3, <2>5, <2>7, <2>8
  <1>4. CASE Steps[a][s].op # "write"
    <2>1. Fields(a, s + 1) = Fields(a, s)
      BY <1>1, <1>4 DEF Fields
    <2> QED  BY <1>2, <1>4, <2>1
  <1> QED  BY <1>3, <1>4

LEMMA WrittenFirst ==
  ASSUME NEW a \in DOMAIN Steps
  PROVE  Written(a, 1) = 0
  <1>1. UNION {FieldPieces(a, i) : i \in Fields(a, 1)} = {}
    BY DEF Fields
  <1>2. 1 \in 1..(Len(Steps[a]) + 1)
    BY StepsOK DEF ShapeOK
  <1> QED  BY <1>1, <1>2, WrittenFinite, FS_EmptySet

\* The size of the message.
Total(a) == Written(a, Len(Steps[a]) + 1)

\* When the first word is read, the message has been written.
LEMMA WrittenAll ==
  ASSUME NEW a \in DOMAIN Steps, NEW s \in DOMAIN Steps[a], Steps[a][s].op = "read"
  PROVE  Written(a, s) = Total(a)
  <1>1. Len(Steps[a]) \in Nat /\ DOMAIN Steps[a] = 1..Len(Steps[a])
    BY StepTyped
  <1>2. \A t \in DOMAIN Steps[a] : s <= t => Steps[a][t].op = "read"
    BY StepsOK DEF ShapeOK
  <1>3. Fields(a, s) = Fields(a, Len(Steps[a]) + 1)
    BY <1>1, <1>2 DEF Fields
  <1>4. Written(a, s) = Written(a, Len(Steps[a]) + 1)
    BY <1>3 DEF Written, Fields
  <1> QED  BY <1>4 DEF Total

\* The sizes of up to five fields that are followed by a word to read, or by
\* nothing.
LEMMA Sums ==
  ASSUME NEW a \in DOMAIN Steps
  PROVE  LET x == Steps[a]
             End(s) == s = Len(x) + 1 \/ (s \in DOMAIN x /\ x[s].op = "read")
             Field(s) == s \in DOMAIN x /\ x[s].op = "write"
         IN  /\ Field(1) /\ End(2) => Total(a) = x[1].size
             /\ Field(1) /\ Field(2) /\ End(3) => Total(a) = x[1].size + x[2].size
             /\ Field(1) /\ Field(2) /\ Field(3) /\ End(4) =>
                  Total(a) = x[1].size + x[2].size + x[3].size
             /\ Field(1) /\ Field(2) /\ Field(3) /\ Field(4) /\ End(5) =>
                  Total(a) = x[1].size + x[2].size + x[3].size + x[4].size
             /\ Field(1) /\ Field(2) /\ Field(3) /\ Field(4) /\ Field(5) /\ End(6) =>
                  Total(a) = x[1].size + x[2].size + x[3].size + x[4].size + x[5].size
  <1> DEFINE x == Steps[a]
             End(s) == s = Len(x) + 1 \/ (s \in DOMAIN x /\ x[s].op = "read")
             Field(s) == s \in DOMAIN x /\ x[s].op = "write"
             w(s) == Written(a, s)
  <1>1. \A s : End(s) => w(s) = Total(a)
    BY WrittenAll DEF Total
  <1>2. w(1) = 0
    BY WrittenFirst
  <1>3. \A s : Field(s) => w(s + 1) = w(s) + x[s].size
    BY WrittenNext
  <1>4. \A s : Field(s) => x[s].size \in Nat
    BY StepTyped
  <1> HIDE DEF x, End, Field, w
  <1>5. Field(1) => w(2) = x[1].size
    BY <1>2, <1>3, <1>4
  <1>6. Field(1) /\ Field(2) => w(3) = x[1].size + x[2].size
    BY <1>3, <1>5
  <1>7. Field(1) /\ Field(2) /\ Field(3) => w(4) = x[1].size + x[2].size + x[3].size
    BY <1>3, <1>6
  <1>8. Field(1) /\ Field(2) /\ Field(3) /\ Field(4) =>
          w(5) = x[1].size + x[2].size + x[3].size + x[4].size
    BY <1>3, <1>7
  <1>9. Field(1) /\ Field(2) /\ Field(3) /\ Field(4) /\ Field(5) =>
          w(6) = x[1].size + x[2].size + x[3].size + x[4].size + x[5].size
    BY <1>3, <1>8
  <1> QED  BY <1>1, <1>5, <1>6, <1>7, <1>8, <1>9 DEF x, End, Field

\* A message is a request word and as many parameters as the daemon reads for the
\* request.  (SAMPLE_KILL is not implemented: the daemon reads none.)
LEMMA Totals ==
  ASSUME NEW a \in DOMAIN Steps
  PROVE  /\ Total(a) \in Nat \ {0}
         /\ a = "esd_send_auth" => Total(a) = data_length["CONNECT"]
         /\ a = "esd_confirm_sample_cache" => Total(a) = DataSize
         /\ a \in DOMAIN Requests =>
              IF data_length[Requests[a]] < 0 THEN Total(a) > IntSize
              ELSE Total(a) = IntSize + data_length[Requests[a]]
  <1> DEFINE x == Steps[a]
  <1>1. x = esd_send_auth => Total(a) = KeySize + IntSize
    BY Sums, ProtocolAssumption DEF esd_send_auth, W, R
  <1>2. ASSUME x = WithAuth
        PROVE  Total(a) = IntSize + KeySize + IntSize
    <2>1. /\ DOMAIN x = 1..5
          /\ x[1].op = "write" /\ x[2].op = "write" /\ x[3].op = "write" /\ x[4].op = "read"
          /\ x[1].size = IntSize /\ x[2].size = KeySize /\ x[3].size = IntSize
      BY <1>2 DEF WithAuth, W, R
    <2> HIDE DEF x
    <2> QED  BY <2>1, Sums, ProtocolAssumption DEF x
  <1>3. x = esd_get_latency => Total(a) = IntSize
    BY Sums, ProtocolAssumption DEF esd_get_latency, W, R
  <1>4. ASSUME x = Stream
        PROVE  Total(a) = IntSize + IntSize + IntSize + NameSize
    <2>1. /\ Len(x) = 4 /\ DOMAIN x = 1..4
          /\ x[1].op = "write" /\ x[2].op = "write" /\ x[3].op = "write" /\ x[4].op = "write"
          /\ x[1].size = IntSize /\ x[2].size = IntSize /\ x[3].size = IntSize /\ x[4].size = NameSize
      BY <1>4 DEF Stream, W, R
    <2> HIDE DEF x
    <2>2. 5 = Len(x) + 1 /\ {1, 2, 3, 4} \subseteq DOMAIN x
      BY <2>1
    <2>3. Total(a) = x[1].size + x[2].size + x[3].size + x[4].size
      BY <2>1, <2>2, Sums DEF x
    <2> QED  BY <2>1, <2>3
  <1>5. ASSUME x = esd_sample_cache
        PROVE  Total(a) = IntSize + IntSize + IntSize + IntSize + NameSize
    <2>1. /\ Len(x) = 6 /\ DOMAIN x = 1..6
          /\ x[6].op = "read"
          /\ x[1].op = "write" /\ x[2].op = "write" /\ x[3].op = "write" /\ x[4].op = "write" /\ x[5].op = "write"
          /\ x[1].size = IntSize /\ x[2].size = IntSize /\ x[3].size = IntSize /\ x[4].size = IntSize /\ x[5].size = NameSize
      BY <1>5 DEF esd_sample_cache, W, R
    <2> HIDE DEF x
    <2> QED  BY <2>1, Sums, ProtocolAssumption DEF x
  <1>6. x = esd_confirm_sample_cache => Total(a) = DataSize
    BY Sums, ProtocolAssumption DEF esd_confirm_sample_cache, W, R
  <1>7. x = esd_sample_getid => Total(a) = IntSize + NameSize
    BY Sums, ProtocolAssumption DEF esd_sample_getid, W, R
  <1>8. x = OfSample => Total(a) = IntSize + IntSize
    BY Sums, ProtocolAssumption DEF OfSample, W, R
  <1>9. x = esd_get_server_info => Total(a) = IntSize + IntSize
    BY Sums, ProtocolAssumption DEF esd_get_server_info, Writes, Reads
  <1>10. ASSUME x = esd_get_all_info
        PROVE  Total(a) = IntSize + IntSize
    <2>1. /\ Len(x) = 9 /\ DOMAIN x = 1..9
          /\ x[3].op = "read"
          /\ x[1].op = "write" /\ x[2].op = "write"
          /\ x[1].size = IntSize /\ x[2].size = IntSize
      BY <1>10 DEF esd_get_all_info, esd_get_server_info, Writes, Reads
    <2> HIDE DEF x
    <2> QED  BY <2>1, Sums, ProtocolAssumption DEF x
  <1>11. ASSUME x = Pan
         PROVE  Total(a) = IntSize + IntSize + IntSize + IntSize
    <2>1. /\ DOMAIN x = 1..5 /\ x[5].op = "read"
          /\ x[1].op = "write" /\ x[2].op = "write" /\ x[3].op = "write" /\ x[4].op = "write"
          /\ x[1].size = IntSize /\ x[2].size = IntSize /\ x[3].size = IntSize
          /\ x[4].size = IntSize
      BY <1>11 DEF Pan, Writes, Reads
    <2> HIDE DEF x
    <2> QED  BY <2>1, Sums, ProtocolAssumption DEF x
  <1>12. x = esd_get_standby_mode => Total(a) = IntSize + IntSize
    BY Sums, ProtocolAssumption DEF esd_get_standby_mode, Writes, Reads
  <1>13. Total(a) \in Nat \ {0}
    BY <1>1, <1>2, <1>3, <1>4, <1>5, <1>6, <1>7, <1>8, <1>9, <1>10, <1>11, <1>12,
       CallShapes, ProtocolAssumption DEF Shapes
  <1>14. a = "esd_send_auth" => Total(a) = data_length["CONNECT"]
    BY <1>1 DEF Steps, data_length
  <1>15. a = "esd_confirm_sample_cache" => Total(a) = DataSize
    BY <1>6 DEF Steps
  <1>16. a \in DOMAIN Requests =>
              IF data_length[Requests[a]] < 0 THEN Total(a) > IntSize
              ELSE Total(a) = IntSize + data_length[Requests[a]]
    BY <1>2, <1>3, <1>4, <1>5, <1>7, <1>8, <1>9, <1>10, <1>11, <1>12,
       ProtocolAssumption
    DEF Steps, Requests, data_length, esd_lock, esd_unlock, esd_standby, esd_resume, esd_play_stream,
         esd_record_stream, esd_monitor_stream, esd_filter_stream, esd_sample_free,
         esd_sample_play, esd_sample_loop, esd_sample_stop, esd_sample_kill,
         esd_set_stream_pan, esd_set_default_sample_pan
  <1> QED  BY <1>13, <1>14, <1>15, <1>16

----------------------------------------------------------------------------
(* Types of what is on the wire.                                           *)

Piece == [call : Nat \ {0}, pos : Nat \ {0}]
BackPiece == [call : Nat, word : Nat, val : {0, 1}, pos : Nat]

LEMMA PiecesTyped ==
  ASSUME NEW n \in Nat \ {0}, NEW i \in Nat \ {0}, NEW k \in Nat
  PROVE  /\ Pieces(n, i, k) \in Seq(Piece) /\ Len(Pieces(n, i, k)) = k
         /\ DOMAIN Pieces(n, i, k) = 1..k
         /\ \A j \in 1..k : /\ Pieces(n, i, k)[j].call = n
                            /\ Pieces(n, i, k)[j].pos = i + j - 1
  BY DEF Pieces, Piece

LEMMA Quotient ==
  ASSUME NEW a \in Nat, NEW b \in Nat \ {0}
  PROVE  /\ a \div b \in Nat /\ a % b \in Nat /\ a % b < b
         /\ a = b * (a \div b) + (a % b)
  BY SMT

\* There is only one quotient.
LEMMA QuotientIs ==
  ASSUME NEW b \in Nat \ {0}, NEW q \in Nat, NEW r \in 0..(b - 1)
  PROVE  (b * q + r) \div b = q /\ (b * q + r) % b = r
  <1> DEFINE a == b * q + r
             d == a \div b
             m == a % b
  <1>1. b * q \in Nat
    BY SMT
  <1>2. a \in Nat
    BY <1>1
  <1>3. d \in Nat /\ m \in Nat /\ m < b /\ a = b * d + m
    BY <1>2, Quotient
  <1>4. b * q + r = b * d + m
    BY <1>3
  <1> HIDE DEF a, d, m
  <1>5. d = q
    <2>1. ~ (d > q)
      <3> SUFFICES ASSUME d >= q + 1 PROVE FALSE
        BY <1>3
      <3>1. b * d >= b * (q + 1)
        BY <1>3, SMT
      <3>2. b * (q + 1) = b * q + b
        BY SMT
      <3>3. b * d \in Nat
        BY <1>3, SMT
      <3> QED  BY <1>1, <1>3, <1>4, <3>1, <3>2, <3>3
    <2>2. ~ (d < q)
      <3> SUFFICES ASSUME q >= d + 1 PROVE FALSE
        BY <1>3
      <3>1. b * q >= b * (d + 1)
        BY <1>3, SMT
      <3>2. b * (d + 1) = b * d + b
        BY <1>3, SMT
      <3>3. b * d \in Nat
        BY <1>3, SMT
      <3> QED  BY <1>1, <1>3, <1>4, <3>1, <3>2, <3>3
    <2> QED  BY <1>3, <2>1, <2>2
  <1>6. m = r
    BY <1>1, <1>3, <1>4, <1>5
  <1> QED  BY <1>5, <1>6 DEF a, d, m

\* x are the pieces of a reply to call n; those of one word are next to each other.
IsReply(x, n, i, words) ==
    /\ x \in Seq(BackPiece) /\ Len(x) = IntSize * Len(words)
    /\ \A p \in DOMAIN x : x[p].call = n /\ x[p].pos \in 1..IntSize
    /\ \A p \in DOMAIN x : \E w \in 0..(Len(words) - 1) :
         p = IntSize * w + x[p].pos /\ x[p].word = i + w /\ x[p].val = words[w + 1]
    /\ \A w \in 0..(Len(words) - 1), j \in 1..IntSize :
         /\ IntSize * w + j \in DOMAIN x
         /\ x[IntSize * w + j] = [call |-> n, word |-> i + w, val |-> words[w + 1], pos |-> j]

LEMMA ReplyPieces ==
  ASSUME NEW n \in Nat, NEW i \in Nat, NEW words \in Seq({0, 1})
  PROVE  IsReply(Reply(n, i, words), n, i, words)
  <1> DEFINE x == Reply(n, i, words)
             L == IntSize * Len(words)
             w(p) == (p - 1) \div IntSize
             j(p) == 1 + ((p - 1) % IntSize)
  <1>1. IntSize \in Nat \ {0} /\ Len(words) \in Nat
    BY ProtocolAssumption
  <1>2. L \in Nat
    BY <1>1, SMT
  <1>3. ASSUME NEW p \in 1..L
        PROVE  /\ w(p) \in 0..(Len(words) - 1) /\ j(p) \in 1..IntSize
               /\ p = IntSize * w(p) + j(p)
    <2>1. p - 1 \in Nat /\ p - 1 < L
      BY <1>2
    <2>2. /\ w(p) \in Nat /\ (p - 1) % IntSize \in Nat /\ (p - 1) % IntSize < IntSize
          /\ p - 1 = IntSize * w(p) + ((p - 1) % IntSize)
      BY <1>1, <2>1, Quotient
    <2>3. IntSize * w(p) \in Nat
      BY <1>1, <2>2, SMT
    <2>4. w(p) < Len(words)
      <3> DEFINE d == w(p)
                 e == IntSize * d
      <3>1. d \in Nat /\ e \in Nat /\ e <= p - 1
        BY <2>1, <2>2, <2>3
      <3> HIDE DEF d
      <3> SUFFICES ASSUME d >= Len(words) PROVE FALSE
        BY <1>1, <3>1 DEF d
      <3>2. IntSize * d >= IntSize * Len(words)
        BY <1>1, <3>1, SMT
      <3> HIDE DEF e, L
      <3>3. e >= L
        BY <3>2 DEF e, L
      <3> QED  BY <1>2, <2>1, <3>1, <3>3
    <2> DEFINE e == IntSize * w(p)
               m == (p - 1) % IntSize
    <2>5. e \in Nat /\ m \in Nat /\ m < IntSize /\ p - 1 = e + m
      BY <2>2, <2>3
    <2> HIDE DEF e, m
    <2>6. 1 + m \in 1..IntSize /\ p = e + (1 + m)
      BY <1>1, <2>1, <2>5
    <2> QED  BY <1>1, <2>2, <2>4, <2>6 DEF e, m
  <1>4. x = [p \in 1..L |-> [call |-> n, word |-> i + w(p), val |-> words[w(p) + 1], pos |-> j(p)]]
    BY DEF Reply
  <1> HIDE DEF x, w, j
  <1>5. ASSUME NEW p \in 1..L
        PROVE  /\ x[p] = [call |-> n, word |-> i + w(p), val |-> words[w(p) + 1], pos |-> j(p)]
               /\ x[p] \in BackPiece
               /\ x[p].call = n /\ x[p].pos = j(p)
               /\ x[p].word = i + w(p) /\ x[p].val = words[w(p) + 1]
    <2>1. words[w(p) + 1] \in {0, 1}
      BY <1>1, <1>3
    <2>2. w(p) \in Nat /\ j(p) \in Nat
      BY <1>1, <1>3
    <2>3. x[p] = [call |-> n, word |-> i + w(p), val |-> words[w(p) + 1], pos |-> j(p)]
      BY <1>4
    <2> DEFINE word == i + w(p)
               val == words[w(p) + 1]
               pos == j(p)
    <2>4. n \in Nat /\ word \in Nat /\ val \in {0, 1} /\ pos \in Nat
      BY <2>1, <2>2
    <2> HIDE DEF word, val, pos
    <2>5. /\ x[p] = [call |-> n, word |-> word, val |-> val, pos |-> pos]
          /\ x[p] \in BackPiece
          /\ x[p].call = n /\ x[p].pos = pos /\ x[p].word = word /\ x[p].val = val
      BY <2>3, <2>4 DEF BackPiece, word, val, pos
    <2> QED  BY <2>5 DEF word, val, pos
  <1>6. x \in Seq(BackPiece) /\ Len(x) = L /\ DOMAIN x = 1..L
    <2> HIDE DEF L
    <2>1. x \in [1..L -> BackPiece]
      BY <1>4, <1>5
    <2> QED  BY <1>2, <2>1
  <1>7. ASSUME NEW v \in 0..(Len(words) - 1), NEW k \in 1..IntSize
        PROVE  /\ IntSize * v + k \in 1..L
               /\ w(IntSize * v + k) = v /\ j(IntSize * v + k) = k
    <2> DEFINE e == IntSize * v
    <2>1. e \in Nat
      BY <1>1, SMT
    <2>2. IntSize * (v + 1) <= IntSize * Len(words)
      BY <1>1, SMT
    <2>3. IntSize * (v + 1) = e + IntSize
      BY <1>1, SMT
    <2> DEFINE r == k - 1
    <2>4. (e + r) \div IntSize = v /\ (e + r) % IntSize = r
      <3>1. r \in 0..(IntSize - 1)
        BY <1>1
      <3> HIDE DEF r
      <3> QED  BY <1>1, <3>1, QuotientIs
    <2> HIDE DEF e
    <2>5. e + k \in 1..L
      BY <1>1, <1>2, <2>1, <2>2, <2>3
    <2>6. (e + k) - 1 = e + r /\ 1 + r = k
      BY <2>1
    <2> HIDE DEF r
    <2>7. w(e + k) = v /\ j(e + k) = k
      BY <2>4, <2>6 DEF w, j
    <2> QED  BY <2>5, <2>7 DEF e
  <1> HIDE DEF L
  <1>8. \A p \in 1..L : \E v \in 0..(Len(words) - 1) :
                  /\ p = IntSize * v + x[p].pos /\ x[p].word = i + v /\ x[p].val = words[v + 1]
    <2> SUFFICES ASSUME NEW p \in 1..L
                 PROVE  \E v \in 0..(Len(words) - 1) :
                  /\ p = IntSize * v + x[p].pos /\ x[p].word = i + v /\ x[p].val = words[v + 1]
      OBVIOUS
    <2>1. x[p].pos = j(p) /\ x[p].word = i + w(p) /\ x[p].val = words[w(p) + 1]
      BY <1>5
    <2>2. w(p) \in 0..(Len(words) - 1) /\ p = IntSize * w(p) + x[p].pos
      BY <1>3, <2>1
    <2> QED  BY <2>1, <2>2
  <1> QED
    <2>1. ASSUME NEW p \in 1..L PROVE x[p].call = n /\ x[p].pos \in 1..IntSize
      <3>1. x[p].call = n /\ x[p].pos = j(p)
        BY <1>5
      <3> QED  BY <1>3, <3>1
    <2>2. \A v \in 0..(Len(words) - 1), k \in 1..IntSize :
            /\ IntSize * v + k \in 1..L
            /\ x[IntSize * v + k] = [call |-> n, word |-> i + v, val |-> words[v + 1], pos |-> k]
      BY <1>5, <1>7
    <2>3. IsReply(x, n, i, words)
      BY <1>6, <1>8, <2>1, <2>2, Zenon DEF L, IsReply
    <2> QED  BY <2>3 DEF x

----------------------------------------------------------------------------
(* Types.                                                                  *)

WordType == [call : Nat, word : Nat, val : {-1, 0, 1}]

SvType == [state : States, request : DOMAIN handler, length : Int, got : Seq(Piece)]

CallsOK ==
    /\ calls \in Seq(DOMAIN Steps) /\ Now \in 1..MaxCalls
    /\ \A n \in DOMAIN calls : calls[n] = "esd_send_auth" <=> n = 1

ClientOK ==
    /\ step \in 0..Len(Steps[api])
    /\ results \in Seq(WordType)
    /\ Len(results) = IF step = 0 THEN Now ELSE Now - 1
    /\ \A n \in DOMAIN results : results[n].call <= n
    /\ last \in WordType /\ last.call <= Now
    /\ open \in BOOLEAN

WireOK ==
    /\ sv \in SvType
    /\ sv.state # "NEEDS_REQDATA" => sv.got = <<>>
    /\ sv.state = "CACHING_SAMPLE" => sv.length \in 0..(DataSize - 1)
    /\ sent \in Seq(Piece) /\ back \in Seq(BackPiece)
    /\ \A i \in DOMAIN sent : sent[i].call <= Now
    /\ \A i \in DOMAIN sv.got : sv.got[i].call <= Now
    /\ \A i \in DOMAIN back : back[i].call <= Now
    /\ fault \subseteq Faults

Types == CallsOK /\ ClientOK /\ WireOK

LEMMA FailTyped == Fail \in WordType /\ Fail.call = 0 /\ Fail.val = -1
  BY DEF Fail, WordType

LEMMA ApiTyped ==
  ASSUME CallsOK
  PROVE  api \in DOMAIN Steps /\ Now \in Nat \ {0} /\ Now \in DOMAIN calls
  BY DEF CallsOK, api, Now

LEMMA StepNow ==
  ASSUME CallsOK, ClientOK, step # 0
  PROVE  /\ step \in DOMAIN Steps[api]
         /\ Step.op \in {"write", "read"} /\ Step.size \in Nat \ {0}
         /\ Step.fail \in 0..Len(Steps[api]) /\ Step.more \in 0..Len(Steps[api])
         /\ Len(Steps[api]) \in 2..9
         /\ Len(results) = Now - 1
  <1>1. api \in DOMAIN Steps
    BY ApiTyped
  <1>2. Len(Steps[api]) \in 2..9 /\ DOMAIN Steps[api] = 1..Len(Steps[api])
    BY <1>1, StepTyped
  <1>3. step \in DOMAIN Steps[api]
    BY <1>2 DEF ClientOK
  <1> QED  BY <1>1, <1>2, <1>3, StepTyped DEF Step, ClientOK

LEMMA InitTypes == Init => Types
  <1> SUFFICES ASSUME Init PROVE Types
    OBVIOUS
  <1>1. "esd_send_auth" \in DOMAIN Steps
    BY DEF Steps
  <1>2. CallsOK
    BY <1>1, ConversationAssumption DEF Init, CallsOK, Now
  <1>3. ClientOK
    <2>1. Len(Steps[api]) \in 2..9
      BY <1>2, ApiTyped, StepTyped
    <2>2. Now = 1
      BY DEF Init, Now
    <2> QED  BY <2>1, <2>2, FailTyped DEF Init, ClientOK
  <1>4. WireOK
    BY Handlers DEF Init, WireOK, States, SvType
  <1> QED  BY <1>2, <1>3, <1>4 DEF Types

\* The call returns r.
LEMMA ReturnedTypes ==
  ASSUME CallsOK, ClientOK, step # 0, UNCHANGED calls, NEW r \in WordType, r.call <= Now,
         NEW answer, Returned(r, answer), last' \in WordType, last'.call <= Now
  PROVE  CallsOK' /\ ClientOK'
  <1>1. Len(results) = Now - 1 /\ Now \in Nat \ {0} /\ Len(Steps[api]) \in 2..9
    BY StepNow, ApiTyped
  <1>2. Now' = Now /\ api' = api
    BY DEF Now, api
  <1>3. CallsOK'
    BY <1>2 DEF CallsOK
  <1>4. results' \in Seq(WordType) /\ Len(results') = Now
    BY <1>1 DEF Returned, ClientOK
  <1>5. \A n \in DOMAIN results' : results'[n].call <= n
    BY <1>1 DEF Returned, ClientOK
  <1>6. open' \in BOOLEAN
    BY DEF Returned, ClientOK
  <1> QED  BY <1>1, <1>2, <1>3, <1>4, <1>5, <1>6 DEF ClientOK, Returned

LEMMA SameClientTypes ==
  ASSUME CallsOK, ClientOK, step # 0, UNCHANGED <<calls, results, open>>,
         step' \in DOMAIN Steps[api], last' \in WordType, last'.call <= Now
  PROVE  CallsOK' /\ ClientOK'
  <1>1. Len(results) = Now - 1 /\ Now \in Nat \ {0} /\ Len(Steps[api]) \in 2..9
    BY StepNow, ApiTyped
  <1>2. Now' = Now /\ api' = api
    BY DEF Now, api
  <1>3. step' \in 1..Len(Steps[api])
    BY StepTyped, ApiTyped
  <1> QED  BY <1>1, <1>2, <1>3 DEF CallsOK, ClientOK

LEMMA GoOnTypes ==
  ASSUME CallsOK, ClientOK, step # 0, UNCHANGED calls, NEW s, NEW read \in WordType,
         read.call <= Now, GoOn(s, read)
  PROVE  CallsOK' /\ ClientOK'
  BY ReturnedTypes, SameClientTypes DEF GoOn

LEMMA FailedTypes ==
  ASSUME CallsOK, ClientOK, step # 0, UNCHANGED calls, Failed
  PROVE  CallsOK' /\ ClientOK'
  <1>1. Step.fail # 0 => Step.fail \in DOMAIN Steps[api]
    BY StepNow, StepTyped, ApiTyped
  <1>2. Now \in Nat
    BY ApiTyped
  <1> QED  BY <1>1, <1>2, ReturnedTypes, SameClientTypes, FailTyped DEF Failed

LEMMA PieceTyped ==
  ASSUME NEW q \in Seq(Piece), NEW i \in DOMAIN q
  PROVE  q[i].call \in Nat \ {0} /\ q[i].pos \in Nat \ {0}
  <1>1. q[i] \in Piece
    OBVIOUS
  <1> QED  BY <1>1 DEF Piece

LEMMA BackPieceTyped ==
  ASSUME NEW q \in Seq(BackPiece), NEW i \in DOMAIN q
  PROVE  /\ q[i].call \in Nat /\ q[i].word \in Nat
         /\ q[i].val \in {0, 1} /\ q[i].pos \in Nat
  <1>1. q[i] \in BackPiece
    OBVIOUS
  <1> QED  BY <1>1 DEF BackPiece

\* Suffixes.
LEMMA Rest ==
  ASSUME NEW S, NEW q \in Seq(S), NEW k \in 0..Len(q)
  PROVE  /\ SubSeq(q, k + 1, Len(q)) \in Seq(S)
         /\ Len(SubSeq(q, k + 1, Len(q))) = Len(q) - k
         /\ \A i \in 1..(Len(q) - k) : SubSeq(q, k + 1, Len(q))[i] = q[k + i]
  OBVIOUS

LEMMA Front ==
  ASSUME NEW S, NEW q \in Seq(S), NEW k \in 0..Len(q)
  PROVE  /\ SubSeq(q, 1, k) \in Seq(S) /\ Len(SubSeq(q, 1, k)) = k
         /\ \A i \in 1..k : SubSeq(q, 1, k)[i] = q[i]
  OBVIOUS

LEMMA NowPieces ==
  ASSUME CallsOK, NEW i \in Nat \ {0}, NEW k \in Nat
  PROVE  /\ Pieces(Now, i, k) \in Seq(Piece) /\ Len(Pieces(Now, i, k)) = k
         /\ \A j \in 1..k : /\ Pieces(Now, i, k)[j].call = Now
                            /\ Pieces(Now, i, k)[j].pos = i + j - 1
  <1>1. Now \in Nat \ {0}
    BY ApiTyped
  <1> QED  BY <1>1, PiecesTyped, Zenon

LEMMA Concat ==
  ASSUME NEW S, NEW x \in Seq(S), NEW y \in Seq(S)
  PROVE  /\ x \o y \in Seq(S) /\ Len(x \o y) = Len(x) + Len(y)
         /\ \A i \in 1..(Len(x) + Len(y)) :
              (x \o y)[i] = IF i <= Len(x) THEN x[i] ELSE y[i - Len(x)]
  OBVIOUS

LEMMA ConcatCalls ==
  ASSUME NEW n, NEW x \in Seq(Piece), \A i \in DOMAIN x : x[i].call <= n,
         NEW y \in Seq(Piece), \A i \in DOMAIN y : y[i].call <= n
  PROVE  /\ x \o y \in Seq(Piece) /\ Len(x \o y) = Len(x) + Len(y)
         /\ \A i \in DOMAIN (x \o y) : (x \o y)[i].call <= n
  OBVIOUS

LEMMA SvData ==
  ASSUME NEW s \in SvType, NEW n \in Int, NEW g \in Seq(Piece)
  PROVE  /\ [s EXCEPT !.length = n, !.got = g] \in SvType
         /\ [s EXCEPT !.length = n, !.got = g].state = s.state
         /\ [s EXCEPT !.length = n, !.got = g].request = s.request
         /\ [s EXCEPT !.length = n, !.got = g].length = n
         /\ [s EXCEPT !.length = n, !.got = g].got = g
  BY DEF SvType

LEMMA SvLength ==
  ASSUME NEW s \in SvType, NEW n \in Int
  PROVE  /\ [s EXCEPT !.length = n] \in SvType
         /\ [s EXCEPT !.length = n].state = s.state
         /\ [s EXCEPT !.length = n].request = s.request
         /\ [s EXCEPT !.length = n].length = n
         /\ [s EXCEPT !.length = n].got = s.got
  BY DEF SvType

LEMMA SvState ==
  ASSUME NEW s \in SvType, NEW t \in States
  PROVE  /\ [s EXCEPT !.state = t] \in SvType
         /\ [s EXCEPT !.state = t].state = t
         /\ [s EXCEPT !.state = t].request = s.request
         /\ [s EXCEPT !.state = t].length = s.length
         /\ [s EXCEPT !.state = t].got = s.got
  BY DEF SvType

LEMMA SentTypes ==
  ASSUME CallsOK, WireOK, UNCHANGED <<calls, back, sv>>, fault' \subseteq Faults,
         NEW i \in Nat \ {0}, NEW k \in Nat, sent' = sent \o Pieces(Now, i, k)
  PROVE  WireOK'
  <1>1. Now \in Nat \ {0} /\ Now' = Now
    BY ApiTyped DEF Now
  <1> DEFINE x == Pieces(Now, i, k)
  <1>2. x \in Seq(Piece) /\ Len(x) = k /\ \A j \in 1..k : x[j].call = Now
    BY NowPieces
  <1> HIDE DEF x
  <1>3. sent' = sent \o x
    BY DEF x
  <1>4. sent' \in Seq(Piece) /\ \A j \in DOMAIN sent' : sent'[j].call <= Now
    <2>1. sent \in Seq(Piece) /\ \A j \in DOMAIN sent : sent[j].call <= Now
      BY DEF WireOK
    <2> QED  BY <1>1, <1>2, <1>3, <2>1
  <1> QED  BY <1>1, <1>4 DEF WireOK

LEMMA BackTypes ==
  ASSUME CallsOK, WireOK, UNCHANGED <<calls, sent, sv>>, fault' \subseteq Faults,
         NEW k \in 0..Len(back), back' = SubSeq(back, k + 1, Len(back))
  PROVE  WireOK'
  <1>1. Now' = Now
    BY DEF Now
  <1>2. back \in Seq(BackPiece) /\ \A j \in DOMAIN back : back[j].call <= Now
    BY DEF WireOK
  <1>3. back' \in Seq(BackPiece) /\ \A j \in DOMAIN back' : back'[j].call <= Now
    BY <1>2, Rest
  <1> QED  BY <1>1, <1>3 DEF WireOK

LEMMA SameWireTypes ==
  ASSUME WireOK, UNCHANGED <<calls, sent, back, sv>>, fault' \subseteq Faults
  PROVE  WireOK'
  BY DEF WireOK, Now

LEMMA WordTyped ==
  ASSUME CallsOK, WireOK, NEW k \in 1..Len(back)
  PROVE  Word(k) \in WordType /\ Word(k).call <= Now
  <1>1. back[1] \in BackPiece /\ back[1].call <= Now /\ Now \in Nat
    BY ApiTyped DEF WireOK
  <1> QED  BY <1>1 DEF Word, WordType, BackPiece

LEMMA FaultTypes ==
  ASSUME WireOK, NEW f \in Faults, Suffers(f)
  PROVE  fault' \subseteq Faults
  BY DEF WireOK, Suffers

LEMMA SplitTypes ==
  ASSUME WireOK, NEW k, NEW size, NEW wire, Splits(k, size, wire)
  PROVE  fault' \subseteq Faults
  BY FaultTypes DEF WireOK, Splits, Faults

LEMMA ClientTypes ==
  ASSUME Types, (\E a \in Used : Call(a)) \/ Close \/ Client
  PROVE  Types'
  <1> USE DEF Types
  <1>1. ASSUME NEW a \in Used, Call(a) PROVE Types'
    <2>1. a \in DOMAIN Steps /\ a # "esd_send_auth"
      BY ConversationAssumption
    <2>2. Now' = Now + 1 /\ api' = a /\ Now \in Nat \ {0} /\ calls \in Seq(DOMAIN Steps)
      BY <1>1, ApiTyped DEF CallsOK, Call, Now, api
    <2>3. CallsOK'
      <3>1. \A n \in DOMAIN calls' : calls'[n] = "esd_send_auth" <=> n = 1
        BY <1>1, <2>1, <2>2 DEF Call, CallsOK, Now
      <3>2. calls' \in Seq(DOMAIN Steps) /\ Now' \in 1..MaxCalls
        BY <1>1, <2>1, <2>2, ConversationAssumption DEF Call
      <3> QED  BY <3>1, <3>2 DEF CallsOK
    <2>4. ClientOK'
      <3>1. Len(Steps[a]) \in 2..9 /\ 1 \in 0..Len(Steps[a])
        BY <2>1, StepTyped
      <3>2. step' = 1 /\ last' = Fail /\ UNCHANGED <<results, open>> /\ step = 0
        BY <1>1 DEF Call
      <3>3. Len(results) = Now' - 1
        BY <2>2, <3>2 DEF ClientOK
      <3>4. step' \in 0..Len(Steps[api'])
        BY <2>2, <3>1, <3>2, Zenon
      <3>5. last' \in WordType /\ last'.call <= Now'
        BY <2>2, <3>2, FailTyped
      <3>6. Len(results') = IF step' = 0 THEN Now' ELSE Now' - 1
        BY <3>2, <3>3
      <3> QED  BY <3>2, <3>4, <3>5, <3>6 DEF ClientOK
    <2>5. WireOK'
      <3>1. UNCHANGED <<sv, sent, back, fault>>
        BY <1>1 DEF Call
      <3>2. \A i \in DOMAIN sent : sent[i].call \in Nat /\ sent[i].call <= Now
        BY PieceTyped DEF WireOK
      <3>3. \A i \in DOMAIN sv.got : sv.got[i].call \in Nat /\ sv.got[i].call <= Now
        BY PieceTyped DEF WireOK, SvType
      <3>4. \A i \in DOMAIN back : back[i].call \in Nat /\ back[i].call <= Now
        BY BackPieceTyped DEF WireOK
      <3> QED  BY <2>2, <3>1, <3>2, <3>3, <3>4 DEF WireOK
    <2> QED  BY <2>3, <2>4, <2>5
  <1>2. CASE Close
    BY <1>2 DEF Close, CallsOK, ClientOK, WireOK, Now, api
  <1>3. CASE Write
    <2>1. step # 0 /\ UNCHANGED calls /\ Step.size \in Nat /\ Now \in Nat \ {0}
      BY <1>3, StepNow, ApiTyped DEF Write, Writing
    <2>2. Start \in Nat \ {0}
      <3>1. step \in 1..(Len(Steps[api]) + 1)
        BY <2>1, StepNow DEF ClientOK
      <3>2. Written(api, step) \in Nat
        BY <3>1, WrittenFinite, ApiTyped
      <3> QED  BY <3>2 DEF Start
    <2>3. WireOK'
      BY <1>3, <2>1, <2>2, SentTypes DEF Write, WireOK
    <2>4. Socket \in WordType /\ Socket.call = Now
      BY <2>1 DEF Socket, WordType
    <2>5. CallsOK' /\ ClientOK'
      BY <1>3, <2>1, <2>4, GoOnTypes DEF Write, ClientOK
    <2> QED  BY <2>3, <2>5
  <1>4. CASE WriteTimeout
    <2>1. step # 0 /\ UNCHANGED calls /\ Step.size \in Nat \ {0}
      BY <1>4, StepNow DEF WriteTimeout, Writing
    <2>2. Start \in Nat \ {0}
      <3>1. step \in 1..(Len(Steps[api]) + 1)
        BY <2>1, StepNow DEF ClientOK
      <3>2. Written(api, step) \in Nat
        BY <3>1, WrittenFinite, ApiTyped
      <3> QED  BY <3>2 DEF Start
    <2>3. PICK k \in 0..(Step.size - 1) :
            /\ sent' = sent \o Pieces(Now, Start, k)
            /\ IF Unsent(k) THEN UNCHANGED fault ELSE Suffers("torn")
      BY <1>4 DEF WriteTimeout
    <2>4. fault' \subseteq Faults
      BY <2>3, FaultTypes DEF Faults, WireOK
    <2>5. WireOK'
      <3>1. k \in Nat /\ UNCHANGED <<calls, back, sv>>
        BY <1>4, <2>1, <2>3 DEF WriteTimeout
      <3> QED  BY <2>2, <2>3, <2>4, <3>1, SentTypes
    <2>6. CallsOK' /\ ClientOK'
      BY <1>4, <2>1, FailedTypes DEF WriteTimeout
    <2> QED  BY <2>5, <2>6
  <1>5. CASE WriteClosed
    <2>1. fault' \subseteq Faults
      BY <1>5 DEF WriteClosed, Killed, Faults, WireOK
    <2>2. WireOK'
      BY <1>5, <2>1, SameWireTypes DEF WriteClosed
    <2>3. step # 0 /\ UNCHANGED calls
      BY <1>5 DEF WriteClosed, Writing
    <2>4. CASE Failed
      BY <2>2, <2>3, <2>4, FailedTypes
    <2>5. CASE Killed
      <3>1. UNCHANGED <<calls, step, last, results>> /\ open' = FALSE
        BY <2>3, <2>5 DEF Killed
      <3> QED  BY <2>2, <3>1 DEF CallsOK, ClientOK, Now, api
    <2> QED  BY <1>5, <2>4, <2>5 DEF WriteClosed
  <1>6. CASE NoKey
    <2>1. fault' \subseteq Faults
      BY <1>6, FaultTypes DEF NoKey, Faults
    <2>2. WireOK'
      BY <1>6, <2>1, SameWireTypes DEF NoKey
    <2>3. step # 0 /\ UNCHANGED <<calls, last>>
      BY <1>6 DEF NoKey
    <2>4. last' \in WordType /\ last'.call <= Now /\ Now \in Nat
      BY <2>3, ApiTyped DEF ClientOK
    <2>5. CASE api \in Keyed
      <3>1. step = 2 /\ step' = Step.fail /\ UNCHANGED <<results, open>>
        BY <1>6, <2>5 DEF NoKey, Keyed
      <3>2. Step.fail = 5 /\ 5 \in DOMAIN Steps[api]
        <4>1. Steps[api] = WithAuth
          BY <2>5 DEF Keyed, Steps, esd_lock, esd_unlock, esd_standby, esd_resume
        <4> QED  BY <3>1, <4>1 DEF Step, WithAuth, W, R
      <3> QED  BY <2>2, <2>3, <2>4, <3>1, <3>2, SameClientTypes
    <2>6. CASE api \notin Keyed
      BY <1>6, <2>2, <2>3, <2>4, <2>6, ReturnedTypes, FailTyped DEF NoKey
    <2> QED  BY <2>5, <2>6
  <1>7. CASE Read
    <2>1. PICK k \in 1..Step.size :
            /\ k <= Len(back)
            /\ back' = SubSeq(back, k + 1, Len(back))
            /\ IF k = Step.size THEN GoOn(AfterRead(Word(k)), Word(k)) ELSE Failed
            /\ Splits(k, Step.size, back)
      BY <1>7 DEF Read
    <2>2. step # 0 /\ UNCHANGED <<calls, sent, sv>> /\ Step.size \in Nat
      BY <1>7, StepNow DEF Read, Reading
    <2>3. k \in 1..Len(back) /\ k \in 0..Len(back)
      BY <2>1, <2>2 DEF WireOK
    <2>4. WireOK'
      BY <2>1, <2>2, <2>3, BackTypes, SplitTypes
    <2>5. Word(k) \in WordType /\ Word(k).call <= Now
      BY <2>3, WordTyped
    <2> QED  BY <2>1, <2>2, <2>4, <2>5, GoOnTypes, FailedTypes
  <1>8. CASE ReadTimeout
    <2>1. fault' \subseteq Faults
      BY <1>8 DEF ReadTimeout, Faults, WireOK
    <2> QED  BY <1>8, <2>1, SameWireTypes, FailedTypes DEF ReadTimeout, Reading
  <1>9. CASE ReadEnd
    <2>1. WireOK'
      BY <1>9, SameWireTypes DEF ReadEnd, WireOK
    <2> QED  BY <1>9, <2>1, FailedTypes DEF ReadEnd, Reading
  <1> QED  BY <1>1, <1>2, <1>3, <1>4, <1>5, <1>6, <1>7, <1>8, <1>9 DEF Client

LEMMA OwnerTyped ==
  ASSUME CallsOK, NEW got \in Seq(Piece), \A i \in DOMAIN got : got[i].call <= Now
  PROVE  Owner(got) \in Nat /\ Owner(got) <= Now
  <1>1. Now \in Nat
    BY ApiTyped
  <1>2. got # <<>> => got[1].call \in Nat /\ got[1].call <= Now
    BY PieceTyped
  <1> QED  BY <1>1, <1>2 DEF Owner

LEMMA ReplyTypes ==
  ASSUME CallsOK, WireOK, NEW n \in Nat, n <= Now, NEW words \in Seq({0, 1})
  PROVE  /\ back \o Reply(n, 1, words) \in Seq(BackPiece)
         /\ \A i \in DOMAIN (back \o Reply(n, 1, words)) : (back \o Reply(n, 1, words))[i].call <= Now
  <1> DEFINE x == Reply(n, 1, words)
  <1>1. 1 \in Nat
    OBVIOUS
  <1>2. IsReply(x, n, 1, words)
    BY <1>1, ReplyPieces
  <1> HIDE DEF x
  <1>3. back \in Seq(BackPiece) /\ \A i \in DOMAIN back : back[i].call <= Now
    BY DEF WireOK
  <1>4. back \o x \in Seq(BackPiece) /\ \A i \in DOMAIN (back \o x) : (back \o x)[i].call <= Now
    <2>1. x \in Seq(BackPiece) /\ \A p \in DOMAIN x : x[p].call = n
      BY <1>2, Zenon DEF IsReply
    <2> QED  BY <1>3, <2>1
  <1> QED  BY <1>4 DEF x

LEMMA EraseTypes ==
  ASSUME WireOK, Erase
  PROVE  /\ sv' \in SvType
         /\ sv'.got = <<>> /\ sv'.state = "NONE" /\ sent' = <<>>
  BY DEF WireOK, Erase, States, SvType

\* The wire after the daemon has read.
LEMMA DaemonTypes ==
  ASSUME WireOK, UNCHANGED calls, fault' \subseteq Faults,
         sv' \in SvType,
         \A i \in DOMAIN sv'.got : sv'.got[i].call <= Now,
         sv'.state # "NEEDS_REQDATA" => sv'.got = <<>>,
         sv'.state = "CACHING_SAMPLE" => sv'.length \in 0..(DataSize - 1),
         NEW k \in 0..Len(sent),
         sent' \in {<<>>, SubSeq(sent, k + 1, Len(sent))},
         back' \in Seq(BackPiece), \A i \in DOMAIN back' : back'[i].call <= Now
  PROVE  WireOK'
  <1>1. Now' = Now
    BY DEF Now
  <1>2. sent \in Seq(Piece) /\ \A i \in DOMAIN sent : sent[i].call <= Now
    BY DEF WireOK
  <1> DEFINE x == SubSeq(sent, k + 1, Len(sent))
  <1>3. x \in Seq(Piece) /\ \A i \in DOMAIN x : x[i].call <= Now
    BY <1>2, Rest
  <1> HIDE DEF x
  <1>4. sent' = <<>> \/ sent' = x
    BY DEF x
  <1>5. sent' \in Seq(Piece) /\ \A i \in DOMAIN sent' : sent'[i].call <= Now
    <2>1. CASE sent' = <<>>
      BY <2>1
    <2>2. CASE sent' = x
      BY <1>3, <2>2
    <2> QED  BY <1>4, <2>1, <2>2
  <1> QED  BY <1>1, <1>5 DEF WireOK

LEMMA HandleTypes ==
  ASSUME CallsOK, WireOK, UNCHANGED calls, fault' \subseteq Faults,
         NEW r \in DOMAIN handler, NEW got \in Seq(Piece),
         \A i \in DOMAIN got : got[i].call <= Now,
         Len(got) - Len(sv.got) \in 0..Len(sent), Handle(r, got)
  PROVE  WireOK'
  <1>1. PICK out \in handler[r] :
          /\ back' = back \o Reply(Owner(got), 1, out.words)
          /\ IF out.state = "NONE" THEN Erase
             ELSE /\ sv' = [state |-> out.state, request |-> r, got |-> <<>>,
                            length |-> IF out.state = "CACHING_SAMPLE" THEN 0
                                       ELSE data_length[r]]
                  /\ sent' = SubSeq(sent, 1 + Len(got) - Len(sv.got), Len(sent))
    BY DEF Handle
  <1>2. out.state \in States /\ out.words \in Seq({0, 1})
    BY Outcomes DEF States
  <1>3. back' \in Seq(BackPiece) /\ \A i \in DOMAIN back' : back'[i].call <= Now
    BY <1>1, <1>2, OwnerTyped, ReplyTypes
  <1>4. CASE out.state = "NONE"
    <2>1. 0 \in 0..Len(sent)
      BY DEF WireOK
    <2>2. sent' = <<>> /\ \A i \in DOMAIN sv'.got : sv'.got[i].call <= Now
      BY <1>1, <1>4, EraseTypes
    <2> QED  BY <1>1, <1>3, <1>4, <2>1, <2>2, EraseTypes, DaemonTypes
  <1>5. CASE out.state # "NONE"
    <2> DEFINE k == Len(got) - Len(sv.got)
               n == IF out.state = "CACHING_SAMPLE" THEN 0 ELSE data_length[r]
    <2>1. n \in Int
      BY Handlers
    <2>2. k \in 0..Len(sent) /\ sent' = SubSeq(sent, k + 1, Len(sent))
      <3>1. Len(got) \in Nat /\ Len(sv.got) \in Nat
        BY DEF WireOK, SvType
      <3>2. 1 + Len(got) - Len(sv.got) = k + 1
        BY <3>1
      <3> QED  BY <1>1, <1>5, <3>2
    <2>3. sv' = [state |-> out.state, request |-> r, got |-> <<>>, length |-> n]
      BY <1>1, <1>5
    <2> HIDE DEF n, k
    <2>4. /\ sv' \in SvType
          /\ sv'.got = <<>> /\ \A i \in DOMAIN sv'.got : sv'.got[i].call <= Now
      BY <1>2, <2>1, <2>3 DEF SvType
    <2>5. sv'.state = "CACHING_SAMPLE" => sv'.length \in 0..(DataSize - 1)
      BY <2>3, ProtocolAssumption DEF n
    <2> QED  BY <1>3, <2>2, <2>4, <2>5, DaemonTypes
  <1> QED  BY <1>4, <1>5

LEMMA PollRequestTypes ==
  ASSUME Types, PollRequest
  PROVE  Types'
  <1> USE DEF Types
  <1>1. PICK k \in 1..IntSize :
         /\ k <= Len(sent)
         /\ Splits(k, IntSize, sent)
         /\ LET got == SubSeq(sent, 1, k)
                n == Owner(got)
                whole == n # 0 /\ k = IntSize /\ calls[n] \in DOMAIN Requests
            IN  \E r \in (IF whole THEN {Requests[calls[n]]} ELSE Mistaken) :
                  IF r \in {"CONNECT", "INVALID"} THEN Erase /\ UNCHANGED back
                  ELSE IF data_length[r] = 0 THEN Handle(r, got)
                  ELSE NeedsData(r, got) /\ UNCHANGED back
    BY DEF PollRequest
  <1>2. UNCHANGED <<calls, step, last, results, open>>
    BY DEF PollRequest
  <1>3. CallsOK' /\ ClientOK'
    BY <1>2 DEF CallsOK, ClientOK, Now, api
  <1>4. fault' \subseteq Faults
    BY <1>1, SplitTypes
  <1> DEFINE got == SubSeq(sent, 1, k)
             n == Owner(got)
             whole == n # 0 /\ k = IntSize /\ calls[n] \in DOMAIN Requests
  <1>5. sent \in Seq(Piece) /\ (\A i \in DOMAIN sent : sent[i].call <= Now) /\ k \in 0..Len(sent)
    BY <1>1, ProtocolAssumption DEF WireOK
  <1>6. got \in Seq(Piece) /\ Len(got) = k /\ \A i \in DOMAIN got : got[i].call <= Now
    BY <1>5, Front
  <1>7. back \in Seq(BackPiece) /\ \A i \in DOMAIN back : back[i].call <= Now
    BY DEF WireOK
  <1>8. PICK r \in (IF whole THEN {Requests[calls[n]]} ELSE Mistaken) :
                  IF r \in {"CONNECT", "INVALID"} THEN Erase /\ UNCHANGED back
                  ELSE IF data_length[r] = 0 THEN Handle(r, got)
                  ELSE NeedsData(r, got) /\ UNCHANGED back
    BY <1>1
  <1>9. r \in DOMAIN handler \cup {"INVALID"}
    BY <1>8, Handlers, ConversationAssumption
  <1> HIDE DEF got, n, whole
  <1>10. CASE r \in {"CONNECT", "INVALID"}
    <2>1. Erase /\ UNCHANGED back
      BY <1>8, <1>10
    <2>2. \A i \in DOMAIN sv'.got : sv'.got[i].call <= Now
      BY <2>1, EraseTypes
    <2> QED  BY <1>2, <1>3, <1>4, <1>5, <1>7, <2>1, <2>2, EraseTypes, DaemonTypes
  <1>11. CASE r \notin {"CONNECT", "INVALID"} /\ data_length[r] = 0
    <2>1. Handle(r, got) /\ r \in DOMAIN handler
      BY <1>8, <1>9, <1>11
    <2>2. sv.got = <<>>
      BY DEF PollRequest, WireOK
    <2>3. Len(got) - Len(sv.got) \in 0..Len(sent)
      BY <1>5, <1>6, <2>2
    <2> QED  BY <1>2, <1>3, <1>4, <1>6, <2>1, <2>3, HandleTypes
  <1>12. CASE r \notin {"CONNECT", "INVALID"} /\ data_length[r] # 0
    <2>1. NeedsData(r, got) /\ UNCHANGED back /\ r \in DOMAIN handler
      BY <1>8, <1>9, <1>12
    <2>2. /\ sv' \in SvType
          /\ sv'.got = got /\ sv'.state = "NEEDS_REQDATA"
      BY <1>6, <2>1 DEF NeedsData, States, SvType
    <2>3. sent' = SubSeq(sent, k + 1, Len(sent))
      BY <1>5, <1>6, <2>1 DEF NeedsData
    <2> QED  BY <1>2, <1>3, <1>4, <1>5, <1>6, <1>7, <2>1, <2>2, <2>3, DaemonTypes
  <1> QED  BY <1>10, <1>11, <1>12

LEMMA PollDataTypes ==
  ASSUME Types, PollData
  PROVE  Types'
  <1> USE DEF Types
  <1>1. UNCHANGED <<calls, step, last, results, open, fault>>
    BY DEF PollData
  <1>2. CallsOK' /\ ClientOK' /\ fault' \subseteq Faults
    BY <1>1 DEF CallsOK, ClientOK, WireOK, Now, api
  <1>3. /\ sent \in Seq(Piece) /\ \A i \in DOMAIN sent : sent[i].call <= Now
        /\ sv.got \in Seq(Piece) /\ \A i \in DOMAIN sv.got : sv.got[i].call <= Now
        /\ back \in Seq(BackPiece) /\ \A i \in DOMAIN back : back[i].call <= Now
    BY DEF WireOK, SvType
  <1>4. sv.request \in DOMAIN handler /\ sv.length \in Int /\ data_length[sv.request] \in Int
    BY Handlers DEF WireOK, SvType
  <1>5. CASE Insane
    <2>1. Erase /\ UNCHANGED back
      BY <1>5 DEF PollData
    <2>2. \A i \in DOMAIN sv'.got : sv'.got[i].call <= Now
      BY <2>1, EraseTypes
    <2>3. 0 \in 0..Len(sent)
      BY <1>3
    <2> QED  BY <1>1, <1>2, <1>3, <2>1, <2>2, <2>3, EraseTypes, DaemonTypes
  <1>6. CASE ~ Insane
    <2> DEFINE k == Least(data_length[sv.request] - sv.length, Len(sent))
               new == SubSeq(sent, 1, k)
               got == sv.got \o new
    <2>1. k \in 0..Len(sent)
      BY <1>3, <1>4, <1>6 DEF Insane, Least
    <2>2. new \in Seq(Piece) /\ Len(new) = k /\ \A i \in DOMAIN new : new[i].call <= Now
      BY <1>3, <2>1, Front
    <2> HIDE DEF new
    <2>3. /\ got \in Seq(Piece) /\ Len(got) = Len(sv.got) + k
          /\ \A i \in DOMAIN got : got[i].call <= Now
      <3> DEFINE old == sv.got
                 N == Now
      <3>1. old \in Seq(Piece) /\ \A i \in DOMAIN old : old[i].call <= N
        BY <1>3
      <3>2. new \in Seq(Piece) /\ Len(new) = k /\ \A i \in DOMAIN new : new[i].call <= N
        BY <2>2
      <3> HIDE DEF old, N, k
      <3>3. /\ old \o new \in Seq(Piece) /\ Len(old \o new) = Len(old) + k
            /\ \A i \in DOMAIN (old \o new) : (old \o new)[i].call <= N
        BY <3>1, <3>2, ConcatCalls, Zenon
      <3> QED  BY <3>3 DEF old, N
    <2> HIDE DEF got
    <2>4. IF sv.length + k = data_length[sv.request] THEN Handle(sv.request, got)
          ELSE /\ sv' = [sv EXCEPT !.length = @ + k, !.got = got]
               /\ sent' = SubSeq(sent, k + 1, Len(sent))
               /\ UNCHANGED back
      BY <1>6 DEF PollData, got, new
    <2> HIDE DEF k
    <2>5. CASE sv.length + k = data_length[sv.request]
      <3>1. Len(got) - Len(sv.got) \in 0..Len(sent)
        BY <1>3, <2>1, <2>3
      <3> QED  BY <1>1, <1>2, <1>4, <2>3, <2>4, <2>5, <3>1, HandleTypes
    <2>6. CASE sv.length + k # data_length[sv.request]
      <3>1. sv' = [sv EXCEPT !.length = sv.length + k, !.got = got]
        BY <2>4, <2>6
      <3>2. /\ sv' \in SvType
            /\ sv'.got = got /\ sv'.state = sv.state
        <4> DEFINE n == sv.length + k
        <4>1. n \in Int /\ sv \in SvType
          BY <1>4, <2>1 DEF WireOK
        <4>2. sv' = [sv EXCEPT !.length = n, !.got = got]
          BY <3>1
        <4> DEFINE s == sv
                   new_sv == [s EXCEPT !.length = n, !.got = got]
        <4>3. s \in SvType /\ n \in Int /\ got \in Seq(Piece)
          BY <2>3, <4>1
        <4> HIDE DEF n, s
        <4>4. new_sv \in SvType /\ new_sv.got = got /\ new_sv.state = s.state
          BY <4>3 DEF SvType
        <4>5. sv' = new_sv
          BY <4>2 DEF s
        <4> HIDE DEF new_sv
        <4> QED  BY <4>4, <4>5 DEF s
      <3>3. sv.state = "NEEDS_REQDATA"
        BY DEF PollData
      <3> QED  BY <1>1, <1>2, <1>3, <2>1, <2>3, <2>4, <2>6, <3>2, <3>3, DaemonTypes
    <2> QED  BY <2>5, <2>6
  <1> QED  BY <1>5, <1>6

LEMMA PollSampleTypes ==
  ASSUME Types, PollSample
  PROVE  Types'
  <1> USE DEF Types
  <1>1. UNCHANGED <<calls, step, last, results, open, fault>>
    BY DEF PollSample
  <1>2. CallsOK' /\ ClientOK' /\ fault' \subseteq Faults
    BY <1>1 DEF CallsOK, ClientOK, WireOK, Now, api
  <1>3. /\ sent \in Seq(Piece) /\ \A i \in DOMAIN sent : sent[i].call <= Now
        /\ back \in Seq(BackPiece) /\ \A i \in DOMAIN back : back[i].call <= Now
        /\ sv.length \in 0..(DataSize - 1) /\ sv.got = <<>>
    BY DEF PollSample, WireOK
  <1> DEFINE k == Least(DataSize - sv.length, Len(sent))
  <1>4. /\ sent' = SubSeq(sent, k + 1, Len(sent)) /\ sent # <<>>
        /\ IF sv.length + k < DataSize
           THEN sv' = [sv EXCEPT !.length = sv.length + k] /\ UNCHANGED back
           ELSE /\ sv' = [sv EXCEPT !.state = "NEXT_REQUEST"]
                /\ back' = back \o Reply(sent[1].call, 1, <<1>>)
    BY DEF PollSample
  <1>5. k \in 0..Len(sent)
    BY <1>3, ProtocolAssumption DEF Least
  <1> HIDE DEF k
  <1>6. sv \in SvType /\ sv.length + k \in Int /\ "NEXT_REQUEST" \in States
    BY <1>3, <1>5 DEF WireOK, States
  <1>7. CASE sv.length + k < DataSize
    <2> DEFINE n == sv.length + k
    <2>1. n \in Int /\ n \in 0..(DataSize - 1)
      BY <1>3, <1>5, <1>7, ProtocolAssumption
    <2>2. sv' = [sv EXCEPT !.length = n] /\ UNCHANGED back
      BY <1>4, <1>7
    <2> HIDE DEF n
    <2>3. sv' \in SvType /\ sv'.got = <<>> /\ sv'.length = n
      BY <1>3, <1>6, <2>1, <2>2, SvLength
    <2>4. \A i \in DOMAIN sv'.got : sv'.got[i].call <= Now
      BY <2>3
    <2> QED  BY <1>1, <1>2, <1>3, <1>4, <1>5, <2>1, <2>2, <2>3, <2>4, DaemonTypes
  <1>8. CASE ~ (sv.length + k < DataSize)
    <2>1. sv' = [sv EXCEPT !.state = "NEXT_REQUEST"]
      BY <1>4, <1>8
    <2>2. sv' \in SvType /\ sv'.got = <<>> /\ sv'.state = "NEXT_REQUEST"
      BY <1>3, <1>6, <2>1, SvState
    <2>3. sent[1].call \in Nat /\ sent[1].call <= Now
      BY <1>3, <1>4, PieceTyped
    <2>4. back' \in Seq(BackPiece) /\ \A i \in DOMAIN back' : back'[i].call <= Now
      BY <1>4, <1>8, <2>3, ReplyTypes, SomeWords
    <2>5. \A i \in DOMAIN sv'.got : sv'.got[i].call <= Now
      BY <2>2
    <2> QED  BY <1>1, <1>2, <1>4, <1>5, <2>2, <2>4, <2>5, DaemonTypes
  <1> QED  BY <1>7, <1>8

LEMMA PollEndTypes ==
  ASSUME Types, PollEnd
  PROVE  Types'
  <1> USE DEF Types
  <1>1. UNCHANGED <<calls, step, last, results, open, back, fault>> /\ Erase
    BY DEF PollEnd
  <1>2. CallsOK' /\ ClientOK' /\ fault' \subseteq Faults
    BY <1>1 DEF CallsOK, ClientOK, WireOK, Now, api
  <1>3. back \in Seq(BackPiece) /\ \A i \in DOMAIN back : back[i].call <= Now
    BY DEF WireOK
  <1>4. 0 \in 0..Len(sent) /\ \A i \in DOMAIN sv'.got : sv'.got[i].call <= Now
    BY <1>1, EraseTypes DEF WireOK
  <1> QED  BY <1>1, <1>2, <1>3, <1>4, EraseTypes, DaemonTypes

LEMMA NextTypes ==
  ASSUME Types, [Next]_vars
  PROVE  Types'
  <1>1. CASE UNCHANGED vars
    BY <1>1 DEF vars, Types, CallsOK, ClientOK, WireOK, Now, api
  <1> QED  BY <1>1, ClientTypes, PollRequestTypes, PollDataTypes, PollSampleTypes, PollEndTypes
           DEF Next, Server

\* Every variable keeps its type, for any number of calls of any kind.
THEOREM ConversationTyped == Spec => []TypeOK
  <1>1. Spec => []Types
    BY InitTypes, NextTypes, PTL DEF Spec
  <1>2. Types => TypeOK
    <2> SUFFICES ASSUME Types PROVE TypeOK
      OBVIOUS
    <2> USE DEF Types
    <2>1. Now \in Nat \ {0}
      BY ApiTyped
    <2>2. \A n \in DOMAIN results : results[n].call \in 0..n /\ results[n].val \in {-1, 0, 1}
      <3> SUFFICES ASSUME NEW n \in DOMAIN results
                   PROVE  results[n].call \in 0..n /\ results[n].val \in {-1, 0, 1}
        OBVIOUS
      <3>1. results[n] \in WordType /\ results[n].call <= n /\ n \in Nat
        BY DEF ClientOK
      <3> QED  BY <3>1 DEF WordType
    <2>3. last.call \in 0..Now /\ last.val \in {-1, 0, 1}
      BY <2>1 DEF ClientOK, WordType
    <2>4. \A i \in DOMAIN sent : sent[i].call \in 1..Now
      BY <2>1, PieceTyped DEF WireOK
    <2>5. \A i \in DOMAIN back : back[i].call \in 0..Now
      BY <2>1, BackPieceTyped DEF WireOK
    <2>6. sv.state \in States /\ sv.request \in DOMAIN handler /\ sv.length \in Int
      BY DEF WireOK, SvType
    <2> QED  BY <2>2, <2>3, <2>4, <2>5, <2>6 DEF TypeOK, CallsOK, ClientOK, WireOK, States
  <1> QED  BY <1>1, <1>2, PTL
============================================================================
