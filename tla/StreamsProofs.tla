--------------------------- MODULE StreamsProofs ---------------------------
(***************************************************************************)
(* The invariants of Streams hold for any number of clients, any formats,  *)
(* rates and volumes they ask for, and any size of the output buffer.      *)
(*                                                                         *)
(* IInv is the inductive invariant.  It adds to the properties that the    *)
(* fields of a stream that follow from others still do, that only formats  *)
(* that can be mixed are on a list, that whatever is not a filter holds    *)
(* whole frames that fit, and that the length of the output fits it.       *)
(***************************************************************************)
EXTENDS Streams, MixProofs, FiniteSetTheorems, WellFoundedInduction, TLAPS

----------------------------------------------------------------------------
(* The inductive invariant.                                                *)

StreamType == [format : Formats, rate : Nat, buffer_length : Nat,
               actual_length : Int, left : Int, right : Int,
               mix : [format : Formats, sv : BOOLEAN]]

\* The fields that new_stream_player() and a pan request compute from others.
Derived(s) ==
    /\ s.mix = MixFunc(s.format, s.left, s.right)
    /\ s.buffer_length = BufferLength(s.format, s.rate)

Holds(s) ==
    /\ s.actual_length \in 0..s.buffer_length
    /\ s.actual_length % FrameBytes(s.format) = 0

Mixable(f) == f \in [bits : {8, 16}, chan : {1, 2}]

OnceEach(l) ==
    \A k \in Kinds, m \in Kinds : \A i \in DOMAIN l[k], j \in DOMAIN l[m] :
      l[k][i] = l[m][j] => k = m /\ i = j

ListsOK ==
    /\ client \in [Clients -> {"NONE", "NEXT_REQUEST", "STREAMING_DATA"}]
    /\ list \in [Kinds -> Seq(Clients)]
    /\ OnceEach(list)
    /\ \A c \in Clients : client[c] = "STREAMING_DATA" <=> \E k \in Kinds : c \in On(k)

RecordOK == record \in BOOLEAN /\ (record <=> list["record"] # <<>>)

SlotsOK ==
    /\ stream \in [Clients -> StreamType]
    /\ \A c \in Clients : Derived(stream[c])
    /\ \A c \in Clients \ On("filter") : Holds(stream[c])
    /\ \A k \in Kinds : \A c \in On(k) : Mixable(stream[c].format)

\* n bytes of output are whole frames of no more than the mix buffer's time.
LengthOK(n) ==
    /\ n \in 0..BufOctets
    /\ AudioFormat.bits # 16 => 2 * n <= BufOctets
    /\ n % FrameBytes(AudioFormat) = 0

ScalarsOK ==
    /\ pc \in {"poll", "read", "add", "filter", "monitor", "record"}
    /\ min \in 0..BufOctets /\ min % 4 = 0
    /\ LengthOK(length)
    /\ cut \subseteq Clients /\ stale \subseteq Clients
    /\ pc # "record" => stale = {}

\* Only short reads put a stream out of step with its frames.
InStep(o) == o \in [taken : 0..3, dropped : 0..3] /\ o.taken = o.dropped
OctetsOK ==
    /\ octets \in [Clients -> [taken : 0..3, dropped : 0..3]]
    /\ \A c \in Clients : InStep(octets[c])

IInv == ListsOK /\ RecordOK /\ SlotsOK /\ ScalarsOK /\ OctetsOK /\ MixInside /\ MonitorsFresh

----------------------------------------------------------------------------
(* Least and greatest numbers of a set.                                    *)

LEMMA LeastElement ==
  ASSUME NEW T \in SUBSET Nat, T # {}
  PROVE  \E x \in T : \A y \in T : x <= y
  <1> DEFINE R == OpToRel(<, Nat)
  <1>1. IsWellFoundedOn(R, Nat)
    BY NatLessThanWellFounded
  <1>2. \A x \in Nat, y \in Nat : <<x, y>> \in R <=> x < y
    BY DEF OpToRel
  <1> HIDE DEF R
  <1>3. PICK x \in T : \A y \in T : <<y, x>> \notin R
    BY <1>1, WFMin
  <1>4. ASSUME NEW y \in T PROVE x <= y
    <2>1. ~ (y < x)
      BY <1>2, <1>3
    <2> QED  BY <2>1
  <1> QED  BY <1>4

LEMMA GreatestElement ==
  ASSUME NEW n \in Nat, NEW T \in SUBSET (1..n), T # {}
  PROVE  \E x \in T : \A y \in T : y <= x
  <1> DEFINE U == {b \in Nat : \A t \in T : t <= b}
  <1>1. n \in U
    OBVIOUS
  <1>2. PICK m \in U : \A b \in U : m <= b
    BY <1>1, LeastElement
  <1>3. m \in T
    <2> SUFFICES ASSUME m \notin T PROVE FALSE
      OBVIOUS
    <2>1. m - 1 \in U
      <3>1. PICK t \in T : TRUE
        OBVIOUS
      <3>2. m - 1 \in Nat
        BY <1>2, <3>1
      <3>3. \A u \in T : u <= m - 1
        BY <1>2
      <3> QED  BY <3>2, <3>3
    <2> QED  BY <1>2, <2>1
  <1> QED  BY <1>2, <1>3

----------------------------------------------------------------------------
(* Lists.                                                                  *)

LEMMA OnElements ==
  ASSUME NEW k \in Kinds
  PROVE  /\ On(k) = {list[k][i] : i \in DOMAIN list[k]}
         /\ On(k)' = {list'[k][i] : i \in DOMAIN list'[k]}
  BY DEF On, ToSet

LEMMA OnClients ==
  ASSUME ListsOK, NEW k \in Kinds
  PROVE  On(k) \subseteq Clients
  BY OnElements DEF ListsOK

\* No stream is on two lists.
LEMMA OnApart ==
  ASSUME ListsOK, NEW k \in Kinds, NEW m \in Kinds, k # m, NEW c \in On(k)
  PROVE  c \notin On(m)
  BY OnElements DEF ListsOK, OnceEach

\* Erasing streams takes them off their list and nothing else.
LEMMA ErasedLists ==
  ASSUME ListsOK, NEW k \in Kinds, NEW S \in SUBSET On(k), Erased(k, S)
  PROVE  /\ ListsOK'
         /\ On(k)' = On(k) \ S
         /\ \A m \in Kinds \ {k} : list'[m] = list[m] /\ On(m)' = On(m)
  <1> DEFINE kept == {i \in DOMAIN list[k] : list[k][i] \notin S}
             n == Cardinality(kept)
  <1>1. list[k] \in Seq(Clients) /\ DOMAIN list[k] = 1..Len(list[k]) /\ Len(list[k]) \in Nat
    BY DEF ListsOK
  <1>2. n \in Nat
    <2>1. IsFiniteSet(kept)
      <3>1. IsFiniteSet(DOMAIN list[k])
        BY <1>1, FS_Interval
      <3>2. kept \subseteq DOMAIN list[k]
        OBVIOUS
      <3> HIDE DEF kept
      <3> QED  BY <3>1, <3>2, FS_Subset
    <2> HIDE DEF kept
    <2> QED  BY <2>1, FS_CardinalityType
  <1>3. client' = [c \in Clients |-> IF c \in S THEN "NONE" ELSE client[c]]
    BY DEF Erased
  <1>4. PICK at \in [1..n -> kept] :
               /\ kept = {at[i] : i \in DOMAIN at}
               /\ \A i \in DOMAIN at, j \in DOMAIN at : i < j => at[i] < at[j]
               /\ list' = [list EXCEPT ![k] = [i \in DOMAIN at |-> list[k][at[i]]]]
    BY DEF Erased
  <1> DEFINE new == [i \in DOMAIN at |-> list[k][at[i]]]
  <1> HIDE DEF n
  <1>5. new \in Seq(Clients) /\ DOMAIN new = 1..n
    <2>1. \A i \in 1..n : list[k][at[i]] \in Clients
      BY <1>1, <1>4
    <2> QED  BY <1>2, <1>4, <2>1
  <1>6. list' \in [Kinds -> Seq(Clients)] /\ list'[k] = new
        /\ \A m \in Kinds \ {k} : list'[m] = list[m]
    <2> HIDE DEF new
    <2> QED  BY <1>4, <1>5 DEF ListsOK, new
  <1>7. \A m \in Kinds \ {k} : On(m)' = On(m)
    BY <1>6 DEF On, ToSet
  <1>8. On(k)' = On(k) \ S
    <2>1. On(k)' = {new[i] : i \in DOMAIN new}
      BY <1>6 DEF On, ToSet
    <2>2. ASSUME NEW c \in On(k)' PROVE c \in On(k) \ S
      <3>1. PICK i \in 1..n : c = list[k][at[i]]
        BY <1>5, <2>1
      <3>2. at[i] \in kept
        BY <1>4
      <3> QED  BY <3>1, <3>2, OnElements
    <2>3. ASSUME NEW c \in On(k) \ S PROVE c \in On(k)'
      <3>1. PICK j \in DOMAIN list[k] : c = list[k][j]
        BY OnElements
      <3>2. j \in kept
        BY <3>1
      <3>3. PICK i \in DOMAIN at : j = at[i]
        BY <1>4, <3>2
      <3>4. new[i] = c /\ i \in DOMAIN new
        BY <3>1, <3>3
      <3> QED  BY <2>1, <3>4
    <2> QED  BY <2>2, <2>3
  <1>9. OnceEach(list')
    <2> SUFFICES ASSUME NEW p \in Kinds, NEW q \in Kinds,
                        NEW i \in DOMAIN list'[p], NEW j \in DOMAIN list'[q],
                        list'[p][i] = list'[q][j]
                 PROVE  p = q /\ i = j
      BY DEF OnceEach
    <2>1. CASE p # k /\ q # k
      BY <1>6, <2>1 DEF ListsOK, OnceEach
    <2>2. CASE p # q
      <3>1. list'[p][i] \in On(p) /\ list'[q][j] \in On(q)
        BY <1>7, <1>8, OnElements
      <3> QED  BY <2>2, <3>1, OnApart
    <2>3. CASE p = k /\ q = k
      <3>1. i \in 1..n /\ j \in 1..n /\ list[k][at[i]] = list[k][at[j]]
        BY <1>5, <1>6, <2>3
      <3>2. at[i] \in DOMAIN list[k] /\ at[j] \in DOMAIN list[k]
        BY <1>4, <3>1
      <3>3. at[i] = at[j]
        BY <3>1, <3>2 DEF ListsOK, OnceEach
      <3>4. \A a \in 1..n, b \in 1..n : a < b => at[a] < at[b]
        BY <1>4
      <3>5. at[i] \in Nat
        BY <1>1, <3>2
      <3> HIDE DEF kept
      <3>6. i = j
        BY <1>2, <3>1, <3>3, <3>4, <3>5
      <3> QED  BY <2>3, <3>6
    <2> QED  BY <2>1, <2>2, <2>3
  <1>10. client' \in [Clients -> {"NONE", "NEXT_REQUEST", "STREAMING_DATA"}]
    BY <1>3 DEF ListsOK
  <1>11. ASSUME NEW c \in Clients
         PROVE  client'[c] = "STREAMING_DATA" <=> \E m \in Kinds : c \in On(m)'
    <2>1. client[c] = "STREAMING_DATA" <=> \E m \in Kinds : c \in On(m)
      BY DEF ListsOK
    <2>2. CASE c \in S
      <3>1. client'[c] # "STREAMING_DATA"
        BY <1>3, <2>2
      <3>2. c \in On(k)
        BY <2>2
      <3>3. \A m \in Kinds : c \notin On(m)'
        BY <1>7, <1>8, <2>2, <3>2, OnApart
      <3> QED  BY <3>1, <3>3
    <2>3. CASE c \notin S
      <3>1. client'[c] = client[c]
        BY <1>3, <2>3
      <3>2. \A m \in Kinds : c \in On(m)' <=> c \in On(m)
        BY <1>7, <1>8, <2>3
      <3> QED  BY <2>1, <3>1, <3>2
    <2> QED  BY <2>2, <2>3
  <1> HIDE DEF new, kept
  <1> QED  BY <1>6, <1>7, <1>8, <1>9, <1>10, <1>11 DEF ListsOK

----------------------------------------------------------------------------
(* Slots.                                                                  *)

\* All but actual_length.
Same(t, s) ==
    /\ t.format = s.format /\ t.rate = s.rate /\ t.buffer_length = s.buffer_length
    /\ t.left = s.left /\ t.right = s.right /\ t.mix = s.mix

LEMMA MixFuncType ==
  ASSUME NEW f \in Formats, NEW left \in Int, NEW right \in Int
  PROVE  /\ MixFunc(f, left, right) \in [format : Formats, sv : BOOLEAN]
         /\ MixFunc(f, left, right) # NoMixFunc <=> Mixable(f)
         /\ Mixable(f) =>
              /\ MixFunc(f, left, right).format = f
              /\ MixFunc(f, left, right).sv <=> left = VolumeBase /\ right = VolumeBase
  <1> DEFINE sv == left = VolumeBase /\ right = VolumeBase
             some == [format |-> f, sv |-> sv]
             none == [format |-> [bits |-> 0, chan |-> 0], sv |-> FALSE]
  <1>1. Mixable(f) <=> f.bits \in {8, 16} /\ f.chan \in {1, 2}
    BY DEF Mixable, Formats
  <1>2. MixFunc(f, left, right) = IF Mixable(f) THEN some ELSE none
    BY <1>1 DEF MixFunc, NoMixFunc
  <1>3. sv \in BOOLEAN
    OBVIOUS
  <1> HIDE DEF sv
  <1>4. some \in [format : Formats, sv : BOOLEAN] /\ some.format = f /\ some.sv = sv
    BY <1>3
  <1>5. none \in [format : Formats, sv : BOOLEAN] /\ none.format.bits = 0
    BY DEF Formats
  <1>6. Mixable(f) => some # none
    <2>1. Mixable(f) => f.bits # 0
      BY <1>1
    <2> HIDE DEF some, none
    <2> QED  BY <1>4, <1>5, <2>1
  <1> QED  BY <1>2, <1>4, <1>5, <1>6 DEF NoMixFunc, sv

LEMMA BufferEmpty ==
  ASSUME NEW f \in Formats
  PROVE  BufferLength(f, 0) = 0
  <1>1. BufOctets * 0 = 0 /\ 0 \div AudioRate = 0
    BY MixAssumption, SMT
  <1>2. BufferLengthExact(f, 0) = 0
    BY <1>1 DEF BufferLengthExact
  <1> QED  BY <1>2 DEF BufferLength

LEMMA NoStreamOK ==
  NoStream \in StreamType /\ Derived(NoStream) /\ Holds(NoStream)
  <1> DEFINE mf == MixFunc(AudioFormat, 0, 0)
  <1>1. mf \in [format : Formats, sv : BOOLEAN]
    BY OutputFormat, MixFuncType
  <1>2. BufferLength(AudioFormat, 0) = 0
    BY OutputFormat, BufferEmpty
  <1>3. NoStream = [format |-> AudioFormat, rate |-> 0, buffer_length |-> 0,
                    actual_length |-> 0, left |-> 0, right |-> 0, mix |-> mf]
    BY DEF NoStream
  <1> HIDE DEF mf
  <1>4. NoStream \in StreamType
    BY <1>1, <1>3, OutputFormat DEF StreamType
  <1>5. Derived(NoStream)
    BY <1>2, <1>3 DEF Derived, mf
  <1>6. Holds(NoStream)
    BY <1>3, OutputFormat DEF Holds
  <1> QED  BY <1>4, <1>5, <1>6

\* A stream with a buffer has a rate, and its buffer holds whole frames.
LEMMA BufferWhole ==
  ASSUME NEW s \in StreamType, Derived(s), s.buffer_length > 0
  PROVE  /\ s.rate > 0
         /\ s.buffer_length % FrameBytes(s.format) = 0
         /\ s.buffer_length >= FrameBytes(s.format)
         /\ BufOctets > 0
  <1>1. s.format \in Formats /\ s.rate \in Nat /\ s.buffer_length \in Nat
    BY DEF StreamType
  <1>2. s.buffer_length = BufferLength(s.format, s.rate)
    BY DEF Derived
  <1>3. s.rate > 0
    BY <1>1, <1>2, BufferEmpty
  <1>4. s.buffer_length % FrameBytes(s.format) = 0
    BY <1>1, <1>2, BufferFrames
  <1>5. s.buffer_length >= FrameBytes(s.format)
    BY <1>1, <1>4, FrameSizes
  <1>6. BufOctets # 0
    <2> SUFFICES ASSUME BufOctets = 0 PROVE FALSE
      OBVIOUS
    <2>1. BufOctets * s.rate = 0 /\ 0 \div AudioRate = 0
      BY <1>1, MixAssumption, SMT
    <2>2. 4 * (s.buffer_length \div FrameBytes(s.format)) <= 0
      BY <1>1, <1>2, <2>1, BufferFrames
    <2> QED  BY <1>1, <1>5, <2>2, FrameSizes
  <1> QED  BY <1>3, <1>4, <1>5, <1>6, MixAssumption

LEMMA LengthSet ==
  ASSUME NEW s \in StreamType, NEW n \in Int
  PROVE  LET t == [s EXCEPT !.actual_length = n]
         IN  t \in StreamType /\ Same(t, s) /\ t.actual_length = n
  BY DEF StreamType, Same

LEMMA SameDerived ==
  ASSUME NEW s, NEW t, Same(t, s), Derived(s)
  PROVE  Derived(t)
  BY DEF Same, Derived

\* Streams S are freed, the others keep all but actual_length.
LEMMA SlotStep ==
  ASSUME SlotsOK, NEW S, NEW new,
         stream' = [c \in Clients |-> IF c \in S THEN NoStream ELSE new[c]],
         \A c \in Clients \ S : new[c] \in StreamType /\ Same(new[c], stream[c]),
         \A c \in Clients \ S : c \notin On("filter") => Holds(new[c]),
         \A k \in Kinds : On(k)' \subseteq On(k) \ S,
         \A k \in Kinds : On(k) \subseteq Clients,
         On("filter") \ S \subseteq On("filter")'
  PROVE  SlotsOK' /\ \A c \in Clients \ S : Same(stream'[c], stream[c])
  <1>1. stream' \in [Clients -> StreamType]
    BY NoStreamOK
  <1>2. ASSUME NEW c \in Clients PROVE Derived(stream'[c])
    BY NoStreamOK, SameDerived DEF SlotsOK
  <1>3. ASSUME NEW c \in Clients, c \notin On("filter")' PROVE Holds(stream'[c])
    BY <1>3, NoStreamOK
  <1>4. \A c \in Clients \ S : Same(stream'[c], stream[c])
    OBVIOUS
  <1>5. ASSUME NEW k \in Kinds, NEW c \in On(k)' PROVE Mixable(stream'[c].format)
    <2>1. c \in On(k) /\ c \in Clients \ S
      OBVIOUS
    <2>2. Mixable(stream[c].format) /\ stream'[c].format = stream[c].format
      BY <1>4, <2>1 DEF SlotsOK, Same
    <2> QED  BY <2>2
  <1> QED  BY <1>1, <1>2, <1>3, <1>4, <1>5 DEF SlotsOK

----------------------------------------------------------------------------
(* What a step leaves alone.                                               *)

LEMMA SlotsSame ==
  ASSUME SlotsOK, UNCHANGED <<stream, list>>
  PROVE  SlotsOK'
  <1>1. \A k : On(k)' = On(k)
    BY DEF On
  <1> QED  BY <1>1 DEF SlotsOK

LEMMA ListsSame ==
  ASSUME ListsOK, UNCHANGED <<client, list>>
  PROVE  ListsOK'
  <1>1. \A k : On(k)' = On(k)
    BY DEF On
  <1> QED  BY <1>1 DEF ListsOK

\* No monitor has been served yet in this turn.
LEMMA NoneStale ==
  ASSUME stale' = {}
  PROVE  MonitorsFresh'
  BY DEF MonitorsFresh

LEMMA OctetsSame ==
  ASSUME OctetsOK, UNCHANGED octets
  PROVE  OctetsOK'
  BY DEF OctetsOK

LEMMA NotAdding ==
  ASSUME pc' # "add"
  PROVE  MixInside'
  BY DEF MixInside

----------------------------------------------------------------------------
(* The actions, one by one.                                                *)

LEMMA LengthZero == LengthOK(0)
  BY MixAssumption, OutputFormat DEF LengthOK

LEMMA NoOctetsOK == InStep(NoOctets) /\ NoOctets \in [taken : 0..3, dropped : 0..3]
  BY DEF InStep, NoOctets

LEMMA InitInv == Init => IInv
  <1> SUFFICES ASSUME Init PROVE IInv
    OBVIOUS
  <1>1. \A k \in Kinds : On(k) = {} /\ list[k] = <<>>
    BY DEF Init, On, ToSet
  <1>2. ListsOK
    <2>1. list \in [Kinds -> Seq(Clients)]
      BY DEF Init
    <2>2. OnceEach(list)
      BY <1>1 DEF OnceEach
    <2> QED  BY <1>1, <2>1, <2>2 DEF Init, ListsOK
  <1>3. RecordOK
    BY <1>1 DEF Init, RecordOK, Kinds
  <1>4. SlotsOK
    BY <1>1, NoStreamOK DEF Init, SlotsOK
  <1>5. ScalarsOK
    <2>1. LengthOK(0)
      BY LengthZero
    <2> QED  BY <2>1, MixAssumption DEF Init, ScalarsOK
  <1>6. MixInside /\ MonitorsFresh
    BY DEF Init, MixInside, MonitorsFresh
  <1>7. OctetsOK
    BY NoOctetsOK DEF Init, OctetsOK
  <1> QED  BY <1>2, <1>3, <1>4, <1>5, <1>6, <1>7 DEF IInv

\* A client that does not stream comes or goes.
LEMMA ClientStep ==
  ASSUME IInv, NEW c \in Clients, client[c] # "STREAMING_DATA",
         NEW st \in {"NONE", "NEXT_REQUEST"}, client' = [client EXCEPT ![c] = st],
         UNCHANGED <<stream, list, pc, min, length, record, cut, octets, stale>>, pc = "poll"
  PROVE  IInv'
  <1>1. ListsOK'
    <2>1. \A k : On(k)' = On(k)
      BY DEF On
    <2>2. client' \in [Clients -> {"NONE", "NEXT_REQUEST", "STREAMING_DATA"}]
      BY DEF IInv, ListsOK
    <2>3. \A d \in Clients : client'[d] = "STREAMING_DATA" <=> client[d] = "STREAMING_DATA"
      BY DEF IInv, ListsOK
    <2> QED  BY <2>1, <2>2, <2>3 DEF IInv, ListsOK
  <1>2. SlotsOK' /\ OctetsOK' /\ MonitorsFresh' /\ MixInside'
    BY SlotsSame, OctetsSame, NoneStale, NotAdding DEF IInv, ScalarsOK
  <1>3. RecordOK' /\ ScalarsOK'
    BY DEF IInv, RecordOK, ScalarsOK
  <1> QED  BY <1>1, <1>2, <1>3 DEF IInv

LEMMA ConnectInv ==
  ASSUME IInv, NEW c \in Clients, Connect(c) \/ Refused(c)
  PROVE  IInv'
  BY ClientStep DEF Connect, Refused

\* A step that changes only where the loop is.
LEMMA LoopStep ==
  ASSUME IInv, PollDone \/ Idle
  PROVE  IInv'
  <1>1. UNCHANGED <<client, stream, list, min, length, record, cut, octets, stale>> /\ pc' \in {"read", "record"}
        /\ pc = "poll"
    BY DEF PollDone, Idle
  <1>2. ListsOK' /\ SlotsOK' /\ OctetsOK' /\ MonitorsFresh' /\ MixInside'
    BY <1>1, ListsSame, SlotsSame, OctetsSame, NoneStale, NotAdding DEF IInv, ScalarsOK
  <1>3. RecordOK' /\ ScalarsOK'
    BY <1>1 DEF IInv, RecordOK, ScalarsOK
  <1> QED  BY <1>2, <1>3 DEF IInv

\* new_stream_player() makes a stream that is empty and complete.
LEMMA NewStreamOK ==
  ASSUME NEW src \in Sources, NewStream(src).mix # NoMixFunc
  PROVE  /\ NewStream(src) \in StreamType /\ Derived(NewStream(src)) /\ Holds(NewStream(src))
         /\ Mixable(NewStream(src).format)
  <1> DEFINE f == src.format
             r == src.rate
             len == BufferLength(f, r)
             mf == MixFunc(f, VolumeBase, VolumeBase)
  <1>1. f \in Formats /\ r \in Nat
    BY StreamsAssumption
  <1>2. len \in Nat
    BY <1>1, BufferFrames
  <1>3. VolumeBase \in Int
    BY DEF VolumeBase
  <1>4. NewStream(src) = [format |-> f, rate |-> r, buffer_length |-> len, actual_length |-> 0,
                          left |-> VolumeBase, right |-> VolumeBase, mix |-> mf]
    BY DEF NewStream
  <1>5. mf \in [format : Formats, sv : BOOLEAN] /\ (mf # NoMixFunc <=> Mixable(f))
    <2> HIDE DEF f
    <2> QED  BY <1>1, <1>3, MixFuncType
  <1> HIDE DEF f, r, len, mf
  <1>6. NewStream(src) \in StreamType
    BY <1>1, <1>2, <1>3, <1>4, <1>5 DEF StreamType
  <1>7. Derived(NewStream(src))
    BY <1>4 DEF Derived, mf, len
  <1>8. Holds(NewStream(src))
    BY <1>1, <1>2, <1>4, FrameSizes DEF Holds
  <1> QED  BY <1>4, <1>5, <1>6, <1>7, <1>8

\* A stream of a client without one goes to the head of a list.
LEMMA AddedLists ==
  ASSUME ListsOK, NEW c \in Clients, client[c] = "NEXT_REQUEST", NEW k \in Kinds,
         client' = [client EXCEPT ![c] = "STREAMING_DATA"],
         list' = [list EXCEPT ![k] = <<c>> \o @]
  PROVE  /\ ListsOK'
         /\ \A m \in Kinds : c \notin On(m)
         /\ On(k)' = On(k) \cup {c} /\ list'[k] # <<>>
         /\ \A m \in Kinds \ {k} : list'[m] = list[m] /\ On(m)' = On(m)
  <1> DEFINE old == list[k]
             new == <<c>> \o old
             n == Len(old)
  <1>1. old \in Seq(Clients) /\ n \in Nat /\ DOMAIN old = 1..n
    BY DEF ListsOK
  <1>2. \A m \in Kinds : c \notin On(m)
    BY DEF ListsOK
  <1>3. list'[k] = new /\ \A m \in Kinds \ {k} : list'[m] = list[m]
    BY DEF ListsOK
  <1>4. /\ new \in Seq(Clients) /\ DOMAIN new = 1..(n + 1) /\ new[1] = c
        /\ \A i \in 2..(n + 1) : new[i] = old[i - 1]
    <2> HIDE DEF old
    <2> QED  BY <1>1
  <1>5. list' \in [Kinds -> Seq(Clients)]
    <2> HIDE DEF new
    <2>1. list' = [list EXCEPT ![k] = new]
      BY DEF new
    <2> QED  BY <1>4, <2>1 DEF ListsOK
  <1> HIDE DEF new
  <1>6. \A m \in Kinds \ {k} : On(m)' = On(m)
    BY <1>3 DEF On, ToSet
  <1>7. On(k)' = On(k) \cup {c}
    <2>1. On(k)' = {new[i] : i \in DOMAIN new} /\ On(k) = {old[i] : i \in DOMAIN old}
      BY <1>3 DEF On, ToSet
    <2> HIDE DEF old
    <2>2. ASSUME NEW d \in On(k) PROVE d \in On(k)'
      <3>1. PICK i \in 1..n : d = old[i]
        BY <1>1, <2>1
      <3>2. i + 1 \in 2..(n + 1) /\ (i + 1) - 1 = i
        BY <1>1 DEF n
      <3>3. new[i + 1] = d /\ i + 1 \in DOMAIN new
        BY <1>4, <3>1, <3>2
      <3> QED  BY <2>1, <3>3
    <2>3. c \in On(k)'
      <3>1. 1 \in DOMAIN new
        BY <1>1, <1>4
      <3> QED  BY <1>4, <2>1, <3>1
    <2>4. ASSUME NEW d \in On(k)' PROVE d \in On(k) \cup {c}
      <3>1. PICK i \in 1..(n + 1) : d = new[i]
        BY <1>4, <2>1
      <3>2. CASE i = 1
        BY <1>4, <3>1, <3>2
      <3>3. CASE i # 1
        <4>1. i \in 2..(n + 1) /\ i - 1 \in 1..n
          BY <1>1, <3>3 DEF n
        <4>2. d = old[i - 1]
          BY <1>4, <3>1, <4>1
        <4> QED  BY <1>1, <2>1, <4>1, <4>2
      <3> QED  BY <3>2, <3>3
    <2> QED  BY <2>2, <2>3, <2>4
  <1>8. OnceEach(list')
    <2> SUFFICES ASSUME NEW p \in Kinds, NEW q \in Kinds,
                        NEW i \in DOMAIN list'[p], NEW j \in DOMAIN list'[q],
                        list'[p][i] = list'[q][j]
                 PROVE  p = q /\ i = j
      BY DEF OnceEach
    <2>1. CASE p # k /\ q # k
      BY <1>3, <2>1 DEF ListsOK, OnceEach
    <2>2. CASE p # q
      <3>1. list'[p][i] \in On(p)' /\ list'[q][j] \in On(q)'
        BY DEF On, ToSet
      <3> DEFINE d == list'[p][i]
      <3> HIDE DEF d
      <3>2. d \in On(p)' /\ d \in On(q)'
        BY <3>1 DEF d
      <3>3. CASE p = k
        BY <1>2, <1>6, <1>7, <2>2, <3>2, <3>3, OnApart
      <3>4. CASE q = k
        BY <1>2, <1>6, <1>7, <2>2, <3>2, <3>4, OnApart
      <3> QED  BY <2>1, <3>3, <3>4
    <2>3. CASE p = k /\ q = k
      <3>1. i \in 1..(n + 1) /\ j \in 1..(n + 1) /\ new[i] = new[j]
        BY <1>3, <1>4, <2>3
      <3>2. \A a \in 2..(n + 1) : new[a] \in On(k) /\ new[a] = old[a - 1] /\ a - 1 \in 1..n
        <4> TAKE a \in 2..(n + 1)
        <4>1. a - 1 \in 1..n
          BY <1>1 DEF n
        <4>2. new[a] = old[a - 1]
          BY <1>4
        <4> QED  BY <1>1, <4>1, <4>2 DEF On, ToSet
      <3>3. CASE i # 1 /\ j # 1
        <4>1. i \in 2..(n + 1) /\ j \in 2..(n + 1)
          BY <1>1, <3>1, <3>3 DEF n
        <4>2. old[i - 1] = old[j - 1] /\ i - 1 \in DOMAIN old /\ j - 1 \in DOMAIN old
          BY <1>1, <3>1, <3>2, <4>1
        <4>3. i - 1 = j - 1
          BY <4>2 DEF ListsOK, OnceEach
        <4> QED  BY <1>1, <2>3, <4>1, <4>3 DEF n
      <3>4. CASE i = 1 /\ j # 1
        <4>1. j \in 2..(n + 1)
          BY <1>1, <3>1, <3>4 DEF n
        <4> QED  BY <1>2, <1>4, <3>1, <3>2, <3>4, <4>1
      <3>5. CASE i # 1 /\ j = 1
        <4>1. i \in 2..(n + 1)
          BY <1>1, <3>1, <3>5 DEF n
        <4> QED  BY <1>2, <1>4, <3>1, <3>2, <3>5, <4>1
      <3> QED  BY <2>3, <3>3, <3>4, <3>5
    <2> QED  BY <2>1, <2>2, <2>3
  <1>9. client' \in [Clients -> {"NONE", "NEXT_REQUEST", "STREAMING_DATA"}]
    BY DEF ListsOK
  <1>10. ASSUME NEW d \in Clients
         PROVE  client'[d] = "STREAMING_DATA" <=> \E m \in Kinds : d \in On(m)'
    <2>1. client[d] = "STREAMING_DATA" <=> \E m \in Kinds : d \in On(m)
      BY DEF ListsOK
    <2>2. CASE d = c
      BY <1>7, <2>2 DEF ListsOK
    <2>3. CASE d # c
      <3>1. client'[d] = client[d]
        BY <2>3 DEF ListsOK
      <3>2. \A m \in Kinds : d \in On(m)' <=> d \in On(m)
        BY <1>6, <1>7, <2>3
      <3> QED  BY <2>1, <3>1, <3>2
    <2> QED  BY <2>2, <2>3
  <1>11. list'[k] # <<>>
    BY <1>1, <1>3, <1>4
  <1> HIDE DEF old, n
  <1> QED  BY <1>2, <1>3, <1>5, <1>6, <1>7, <1>8, <1>9, <1>10, <1>11 DEF ListsOK

LEMMA ProtoStreamInv ==
  ASSUME IInv, NEW c \in Clients, NEW k \in Kinds, NEW src \in Sources, ProtoStream(c, k, src)
  PROVE  IInv'
  <1> DEFINE s == NewStream(src)
  <1>1. /\ s \in StreamType /\ Derived(s) /\ Holds(s) /\ Mixable(s.format)
    BY NewStreamOK DEF ProtoStream
  <1> HIDE DEF s
  <1>2. /\ stream' = [stream EXCEPT ![c] = s]
        /\ list' = [list EXCEPT ![k] = <<c>> \o @]
        /\ client' = [client EXCEPT ![c] = "STREAMING_DATA"]
        /\ client[c] = "NEXT_REQUEST" /\ record' = (record \/ k = "record") /\ pc = "poll"
        /\ octets' = [octets EXCEPT ![c] = NoOctets] /\ UNCHANGED <<pc, min, length, cut, stale>>
    BY DEF ProtoStream, StreamAdded, s
  <1>3. /\ ListsOK'
        /\ \A m \in Kinds : c \notin On(m)
        /\ On(k)' = On(k) \cup {c} /\ list'[k] # <<>>
        /\ \A m \in Kinds \ {k} : list'[m] = list[m] /\ On(m)' = On(m)
    BY <1>2, AddedLists DEF IInv
  <1>4. \A m \in Kinds : On(m) \subseteq Clients /\ On(m) \subseteq On(m)' /\ On(m)' \subseteq On(m) \cup {c}
    BY <1>3, OnClients DEF IInv
  <1>5. \A d \in Clients : stream'[d] = IF d = c THEN s ELSE stream[d]
    BY <1>2 DEF IInv, SlotsOK
  <1>6. SlotsOK'
    <2>1. stream' \in [Clients -> StreamType]
      BY <1>1, <1>2 DEF IInv, SlotsOK
    <2>2. \A d \in Clients : Derived(stream'[d])
      BY <1>1, <1>5 DEF IInv, SlotsOK
    <2>3. \A d \in Clients \ On("filter")' : Holds(stream'[d])
      BY <1>1, <1>4, <1>5 DEF IInv, SlotsOK, Kinds
    <2>4. ASSUME NEW m \in Kinds, NEW d \in On(m)' PROVE Mixable(stream'[d].format)
      BY <1>1, <1>4, <1>5 DEF IInv, SlotsOK
    <2> QED  BY <2>1, <2>2, <2>3, <2>4 DEF SlotsOK
  <1>7. MonitorsFresh' /\ OctetsOK'
    <2>1. stale' = {}
      BY <1>2 DEF IInv, ScalarsOK
    <2>2. OctetsOK'
      BY <1>2, NoOctetsOK DEF IInv, OctetsOK
    <2> QED  BY <2>1, <2>2, NoneStale
  <1>8. MixInside'
    BY <1>2, NotAdding
  <1>9. RecordOK'
    <2>1. CASE k = "record"
      BY <1>2, <1>3, <2>1 DEF IInv, RecordOK
    <2>2. CASE k # "record"
      BY <1>2, <1>3, <2>2 DEF IInv, RecordOK, Kinds
    <2> QED  BY <2>1, <2>2
  <1>10. ScalarsOK'
    BY <1>2 DEF IInv, ScalarsOK
  <1> QED  BY <1>3, <1>6, <1>7, <1>8, <1>9, <1>10 DEF IInv

\* A pan request changes the volumes and, with them, the mix function.
LEMMA ProtoStreamPanInv ==
  ASSUME IInv, NEW c \in Clients, NEW t \in Clients, NEW left \in Int, NEW right \in Int,
         ProtoStreamPan(c, t, left, right)
  PROVE  IInv'
  <1> DEFINE s == stream[t]
             mf == MixFunc(s.format, left, right)
             u == [s EXCEPT !.left = left, !.right = right, !.mix = mf]
  <1>1. s \in StreamType /\ Derived(s) /\ s.format \in Formats
    BY DEF IInv, SlotsOK, StreamType
  <1>2. mf \in [format : Formats, sv : BOOLEAN]
    <2> HIDE DEF s
    <2> QED  BY <1>1, MixFuncType
  <1>3. /\ u \in StreamType /\ u.left = left /\ u.right = right /\ u.mix = mf
        /\ u.format = s.format /\ u.rate = s.rate /\ u.buffer_length = s.buffer_length
        /\ u.actual_length = s.actual_length
    <2> HIDE DEF s, mf
    <2> QED  BY <1>1, <1>2 DEF StreamType
  <1>4. Derived(u)
    BY <1>1, <1>3 DEF Derived
  <1>5. Holds(s) => Holds(u)
    BY <1>3 DEF Holds
  <1>6. stream' = [stream EXCEPT ![t] = u] /\ UNCHANGED <<client, list, pc, min, length, record, cut, octets, stale>>
        /\ pc = "poll"
    BY DEF ProtoStreamPan, Panned, IInv, SlotsOK
  <1> HIDE DEF u
  <1>7. \A d \in Clients : stream'[d] = IF d = t THEN u ELSE stream[d]
    BY <1>6 DEF IInv, SlotsOK
  <1>8. \A k : On(k)' = On(k)
    BY <1>6 DEF On
  <1>9. \A k \in Kinds : On(k) \subseteq Clients
    BY OnClients DEF IInv
  <1>10. SlotsOK'
    <2>1. stream' \in [Clients -> StreamType]
      BY <1>3, <1>6 DEF IInv, SlotsOK
    <2>2. \A d \in Clients : Derived(stream'[d])
      BY <1>4, <1>7 DEF IInv, SlotsOK
    <2>3. \A d \in Clients \ On("filter")' : Holds(stream'[d])
      BY <1>5, <1>7, <1>8 DEF IInv, SlotsOK
    <2>4. ASSUME NEW m \in Kinds, NEW d \in On(m)' PROVE Mixable(stream'[d].format)
      BY <1>3, <1>7, <1>8, <1>9 DEF IInv, SlotsOK
    <2> QED  BY <2>1, <2>2, <2>3, <2>4 DEF SlotsOK
  <1>11. MonitorsFresh'
    BY <1>6, NoneStale DEF IInv, ScalarsOK
  <1>12. ListsOK' /\ OctetsOK' /\ MixInside'
    BY <1>6, ListsSame, OctetsSame, NotAdding DEF IInv
  <1>13. RecordOK' /\ ScalarsOK'
    BY <1>6 DEF IInv, RecordOK, ScalarsOK
  <1> QED  BY <1>10, <1>11, <1>12, <1>13 DEF IInv

----------------------------------------------------------------------------
(* mix_players().                                                          *)

LEMMA TranslatedBounds ==
  ASSUME NEW f \in Formats, NEW rate \in Nat \ {0}, NEW len \in Nat
  PROVE  /\ Translated(f, rate, len) \in 0..BufOctets
         /\ Translated(f, rate, len) % 4 = 0
         /\ len >= FrameBytes(f) /\ BufOctets > 0 => Translated(f, rate, len) > 0
  <1> DEFINE n == len \div FrameBytes(f)
             a == n * AudioRate
             up == (a + rate - 1) \div rate
  <1>1. n \in Nat /\ (len >= FrameBytes(f) => n > 0)
    BY FrameSizes
  <1> HIDE DEF n
  <1>2. a \in Nat /\ (n > 0 => a > 0)
    BY <1>1, MixAssumption, SMT
  <1> HIDE DEF a
  <1>3. up \in Nat
    BY <1>2, Quotient
  <1>4. ASSUME a > 0 PROVE up > 0
    <2> SUFFICES ASSUME up = 0 PROVE FALSE
      BY <1>3
    <2>1. a + rate - 1 \in Nat
      BY <1>2
    <2>2. a + rate - 1 = rate * up + ((a + rate - 1) % rate) /\ (a + rate - 1) % rate < rate
      BY <2>1, Quotient
    <2>3. rate * up = 0
      BY SMT
    <2> HIDE DEF up
    <2> QED  BY <1>2, <1>4, <2>1, <2>2, <2>3
  <1>5. Translated(f, rate, len) = Least(4 * up, BufOctets)
    BY DEF Translated, n, a
  <1> HIDE DEF up
  <1> QED  BY <1>1, <1>2, <1>3, <1>4, <1>5, MixAssumption DEF Least

LEMMA FoundInt ==
  ASSUME NEW c, stream[c].buffer_length \in Int, stream[c].actual_length \in Int,
         NEW n \in Found(c)
  PROVE  n \in Int
  <1>1. \A x \in Shorts : x \in Int
    BY StreamsAssumption
  <1>2. Room(c) \in Int
    BY DEF Room
  <1>3. n \in {-1, 0, Room(c)} \cup Shorts
    BY DEF Found
  <1> QED  BY <1>1, <1>2, <1>3

\* What a player holds after read_player().
LEMMA ReadHolds ==
  ASSUME IInv, NEW c \in On("play"), NEW found \in Found(c)
  PROVE  /\ c \in Clients /\ c \notin On("filter")
         /\ stream[c] \in StreamType /\ Derived(stream[c])
         /\ stream[c].actual_length \in 0..stream[c].buffer_length
         /\ ReadLength(c, found) \in 0..stream[c].buffer_length
         /\ ReadLength(c, found) % FrameBytes(stream[c].format) = 0
         /\ stream[c].format \in Formats /\ stream[c].rate \in Nat /\ stream[c].buffer_length \in Nat
         /\ found \in Int
  <1>1. c \in Clients /\ c \notin On("filter")
    BY OnClients, OnApart DEF IInv, Kinds
  <1>2. stream[c] \in StreamType /\ Derived(stream[c]) /\ Holds(stream[c])
    BY <1>1 DEF IInv, SlotsOK
  <1>3. stream[c].format \in Formats /\ stream[c].rate \in Nat /\ stream[c].buffer_length \in Nat
    BY <1>2 DEF StreamType
  <1>4. stream[c].buffer_length % FrameBytes(stream[c].format) = 0
    BY <1>2, <1>3, BufferFrames DEF Derived
  <1>5. found \in Int
    BY <1>2, FoundInt DEF StreamType
  <1> QED  BY <1>1, <1>2, <1>3, <1>4, <1>5 DEF Holds, ReadLength

\* A read moves the frames of a player by what it dropped.
LEMMA ReadInStep ==
  ASSUME IInv, NEW c \in On("play"), NEW found \in Found(c)
  PROVE  InStep(ReadOctets(c, found))
  <1> DEFINE s == stream[c]
             frame == FrameBytes(s.format)
             t == octets[c].taken
             n == IF Partial(c, found) THEN found ELSE 0
  <1>1. /\ c \in Clients /\ s.actual_length \in 0..s.buffer_length /\ s.buffer_length \in Nat
        /\ s.format \in Formats /\ found \in Int /\ Derived(s) /\ s.rate \in Nat
    BY ReadHolds
  <1>2. frame \in {1, 2, 4}
    BY <1>1, FrameSizes
  <1>3. InStep(octets[c])
    BY <1>1 DEF IInv, OctetsOK
  <1>4. t \in 0..3 /\ octets[c].dropped = t
    BY <1>3 DEF InStep
  <1>5. s.buffer_length % frame = 0
    BY <1>1, BufferFrames DEF Derived
  <1>6. s.actual_length % frame = 0
    BY <1>1, ReadHolds DEF IInv, SlotsOK, Holds, StreamType
  <1>7. CASE found <= 0
    BY <1>3, <1>7 DEF ReadOctets
  <1>8. CASE found > 0
    <2>1. found = s.buffer_length - s.actual_length \/ Partial(c, found)
      BY <1>1, <1>8 DEF Found, Room, Partial
    <2>2. ReadOctets(c, found) = [taken |-> (t + found) % frame, dropped |-> (t + n) % frame]
      BY <1>1, <1>4, <1>8 DEF ReadOctets
    <2>3. n \in Nat /\ found \in Nat
      BY <1>1, <1>8
    <2>4. (t + found) % frame = (t + n) % frame
      <3>1. CASE Partial(c, found)
        BY <3>1
      <3>2. CASE ~ Partial(c, found)
        <4>1. n = 0 /\ found = s.buffer_length - s.actual_length
          BY <2>1, <3>2
        <4> HIDE DEF n, t, s, frame
        <4> QED  BY <1>1, <1>2, <1>4, <1>5, <1>6, <2>3, <4>1
      <3> QED  BY <3>1, <3>2
    <2> HIDE DEF n, t, s, frame
    <2>5. (t + found) % frame \in 0..3
      BY <1>2, <1>4, <2>3
    <2> QED  BY <2>2, <2>4, <2>5 DEF InStep
  <1> QED  BY <1>1, <1>7, <1>8

LEMMA MixReadInv ==
  ASSUME IInv, MixRead
  PROVE  IInv'
  <1> DEFINE play == list["play"]
             Ended(found) == {c \in On("play") : found[c] < 0}
             Counted(found) == {i \in DOMAIN play :
                                  /\ play[i] \notin Ended(found)
                                  /\ \/ found[play[i]] # 0
                                     \/ stream[play[i]].actual_length # 0}
             Bytes(found) == [i \in Counted(found) |->
                                Translated(stream[play[i]].format, stream[play[i]].rate,
                                           ReadLength(play[i], found[play[i]]))]
  <1>1. PICK found \in [On("play") -> UNION {Found(c) : c \in On("play")}] :
               /\ \A c \in On("play") : found[c] \in Found(c)
               /\ stream' = [c \in Clients |->
                               IF c \in Ended(found) THEN NoStream
                               ELSE IF c \notin On("play") THEN stream[c]
                               ELSE [stream[c] EXCEPT !.actual_length = ReadLength(c, found[c])]]
               /\ octets' = [c \in Clients |->
                               IF c \in Ended(found) THEN NoOctets
                               ELSE IF c \notin On("play") THEN octets[c]
                               ELSE ReadOctets(c, found[c])]
               /\ \/ Seen(Counted(found), Bytes(found)) = {} /\ min' = 0
                  \/ \E i \in Seen(Counted(found), Bytes(found)) :
                       /\ min' = Bytes(found)[i]
                       /\ \A j \in Seen(Counted(found), Bytes(found)) : Bytes(found)[i] <= Bytes(found)[j]
               /\ Erased("play", Ended(found))
               /\ cut' = {c \in On("play") : Partial(c, found[c])}
    BY ZenonT(60) DEF MixRead
  <1> DEFINE ended == Ended(found)
             counted == Counted(found)
             bytes == Bytes(found)
             seen == Seen(counted, bytes)
             Length(c) == ReadLength(c, found[c])
             new == [c \in Clients |-> IF c \notin On("play") THEN stream[c]
                                       ELSE [stream[c] EXCEPT !.actual_length = Length(c)]]
  <1>2. pc' = "add" /\ pc = "read" /\ UNCHANGED <<length, record, stale>>
    BY ZenonT(60) DEF MixRead
  <1>3. stream' = [c \in Clients |-> IF c \in ended THEN NoStream ELSE new[c]]
    BY <1>1, ZenonT(60)
  <1>4. \A c \in On("play") : found[c] \in Found(c) /\ found[c] \in Int
    BY <1>1, ReadHolds
  <1>5. /\ ListsOK'
        /\ On("play")' = On("play") \ ended
        /\ \A m \in Kinds \ {"play"} : list'[m] = list[m] /\ On(m)' = On(m)
    <2>1. ended \in SUBSET On("play")
      OBVIOUS
    <2>2. "play" \in Kinds /\ ListsOK /\ Erased("play", ended)
      BY <1>1 DEF Kinds, IInv
    <2> HIDE DEF ended
    <2> QED  BY <2>1, <2>2, ErasedLists
  <1>6. ASSUME NEW c \in Clients
        PROVE  /\ new[c] \in StreamType /\ Same(new[c], stream[c])
               /\ c \notin On("filter") => Holds(new[c])
               /\ c \in On("play") => new[c].actual_length = Length(c)
    <2>1. stream[c] \in StreamType
      BY DEF IInv, SlotsOK
    <2>2. CASE c \in On("play")
      <3>1. Length(c) \in 0..stream[c].buffer_length /\ stream[c].buffer_length \in Nat
            /\ Length(c) % FrameBytes(stream[c].format) = 0
        BY <1>4, <2>2, ReadHolds
      <3>2. new[c] = [stream[c] EXCEPT !.actual_length = Length(c)]
        BY <2>2
      <3>3. Length(c) \in Int
        BY <3>1
      <3> HIDE DEF Length, new
      <3>4. new[c] \in StreamType /\ Same(new[c], stream[c]) /\ new[c].actual_length = Length(c)
        BY <2>1, <3>2, <3>3, LengthSet
      <3> QED  BY <3>1, <3>4 DEF Holds, Same
    <2>3. CASE c \notin On("play")
      BY <2>1, <2>3 DEF Same, IInv, SlotsOK
    <2> QED  BY <2>2, <2>3
  <1>7. SlotsOK' /\ \A c \in Clients \ ended : Same(stream'[c], stream[c])
    <2>1. \A k \in Kinds : On(k) \subseteq Clients
      BY OnClients DEF IInv
    <2>2. \A k \in Kinds : On(k)' \subseteq On(k) \ ended
      <3> TAKE k \in Kinds
      <3>1. CASE k = "play"
        BY <1>5, <3>1
      <3>2. CASE k # "play"
        <4>1. \A c \in On(k) : c \notin On("play")
          BY <3>2, OnApart DEF IInv, Kinds
        <4> QED  BY <1>5, <3>2, <4>1
      <3> QED  BY <3>1, <3>2
    <2>3. On("filter") \ ended \subseteq On("filter")'
      BY <1>5 DEF Kinds
    <2> HIDE DEF ended, new
    <2> QED  BY <1>3, <1>6, <2>1, <2>2, <2>3, SlotStep DEF IInv
  <1>8. MonitorsFresh' /\ OctetsOK'
    <2>1. stale' = {}
      BY <1>2 DEF IInv, ScalarsOK
    <2>2. ASSUME NEW c \in Clients PROVE InStep(octets'[c])
      <3>1. CASE c \in ended
        BY <1>1, <3>1, NoOctetsOK
      <3>2. CASE c \notin ended /\ c \notin On("play")
        BY <1>1, <3>2 DEF IInv, OctetsOK
      <3>3. CASE c \notin ended /\ c \in On("play")
        <4>1. octets'[c] = ReadOctets(c, found[c])
          BY <1>1, <3>3
        <4>2. InStep(ReadOctets(c, found[c]))
          BY <1>4, <3>3, ReadInStep
        <4> QED  BY <4>1, <4>2
      <3> QED  BY <3>1, <3>2, <3>3
    <2>3. \E o : octets' = [c \in Clients |-> o[c]]
      <3> DEFINE o == [c \in Clients |-> IF c \in Ended(found) THEN NoOctets
                                         ELSE IF c \notin On("play") THEN octets[c]
                                         ELSE ReadOctets(c, found[c])]
      <3>1. octets' = o
        BY <1>1
      <3>2. o = [c \in Clients |-> o[c]]
        OBVIOUS
      <3> QED  BY <3>1, <3>2
    <2> QED  BY <2>1, <2>2, <2>3, NoneStale DEF OctetsOK, InStep
  <1>9. RecordOK'
    BY <1>2, <1>5 DEF IInv, RecordOK, Kinds
  <1>10. ASSUME NEW i \in counted
         PROVE  /\ i \in DOMAIN play /\ play[i] \in On("play") /\ play[i] \notin ended
                /\ stream[play[i]].rate > 0 /\ stream[play[i]].buffer_length > 0
                /\ bytes[i] = Translated(stream[play[i]].format, stream[play[i]].rate, Length(play[i]))
                /\ bytes[i] \in 0..BufOctets /\ bytes[i] % 4 = 0
                /\ ~ Partial(play[i], found[play[i]]) => Length(play[i]) > 0 /\ bytes[i] > 0
    <2> DEFINE c == play[i]
               s == stream[c]
    <2>1. c \in On("play") /\ c \notin ended /\ i \in DOMAIN play
          /\ (found[c] # 0 \/ s.actual_length # 0)
      BY DEF On, ToSet
    <2>2. bytes[i] = Translated(s.format, s.rate, Length(c))
      OBVIOUS
    <2>3. /\ s \in StreamType /\ Derived(s) /\ s.format \in Formats /\ s.rate \in Nat
          /\ s.buffer_length \in Nat /\ s.actual_length \in 0..s.buffer_length
          /\ Length(c) \in 0..s.buffer_length /\ Length(c) % FrameBytes(s.format) = 0
      BY <1>4, <2>1, ReadHolds
    <2>4. found[c] \in Found(c) /\ found[c] \in Nat
      BY <1>4, <2>1
    <2>5. s.buffer_length > 0 /\ (~ Partial(c, found[c]) => Length(c) > 0)
      <3> DEFINE b == s.buffer_length
                 a == s.actual_length
                 n == found[c]
      <3>1. /\ n \in (IF b - a > 0 THEN {-1, 0, b - a} \cup {k \in Shorts : k < b - a} ELSE {0})
            /\ Partial(c, n) <=> n > 0 /\ n < b - a
            /\ Length(c) = IF n > 0 /\ ~ Partial(c, n) THEN b ELSE a
        BY <2>4 DEF Found, Room, ReadLength, Partial
      <3>2. b \in Nat /\ a \in 0..b /\ n \in Nat /\ (n # 0 \/ a # 0)
        BY <2>1, <2>3, <2>4
      <3> HIDE DEF b, a, n, Length
      <3>3. b > 0 /\ (n # 0 => b - a > 0)
        BY <3>1, <3>2
      <3>4. ~ Partial(c, n) => Length(c) > 0
        BY <3>1, <3>2, <3>3
      <3> QED  BY <3>3, <3>4 DEF b, n
    <2> HIDE DEF s, c, Length, counted, bytes, ended
    <2>6. s.rate > 0 /\ BufOctets > 0
      BY <2>3, <2>5, BufferWhole
    <2>7. Length(c) > 0 => Length(c) >= FrameBytes(s.format)
      BY <2>3, FrameSizes
    <2>8. s.format \in Formats /\ s.rate \in Nat \ {0} /\ Length(c) \in Nat
      BY <2>3, <2>6
    <2>9. LET t == Translated(s.format, s.rate, Length(c))
          IN  /\ t \in 0..BufOctets /\ t % 4 = 0
              /\ Length(c) >= FrameBytes(s.format) /\ BufOctets > 0 => t > 0
      BY <2>8, TranslatedBounds, Zenon
    <2>10. bytes[i] \in 0..BufOctets /\ bytes[i] % 4 = 0
      BY <2>2, <2>9, Zenon
    <2>11. Length(c) > 0 => bytes[i] > 0
      BY <2>2, <2>6, <2>7, <2>9, Zenon
    <2> QED  BY <2>1, <2>2, <2>5, <2>6, <2>10, <2>11 DEF c, s
  <1>11. seen \subseteq counted
    BY DEF Seen
  <1>12. min' \in 0..BufOctets /\ min' % 4 = 0
    <2>1. CASE seen = {}
      <3>1. min' = 0
        BY <1>1, <2>1
      <3> QED  BY <3>1, MixAssumption
    <2>2. CASE seen # {}
      <3>1. PICK i \in seen : min' = bytes[i]
        BY <1>1, <2>2
      <3> HIDE DEF seen, bytes, counted
      <3> QED  BY <1>10, <1>11, <3>1
    <2> QED  BY <2>1, <2>2
  <1>13. ScalarsOK'
    <2>1. cut' \subseteq Clients
      BY <1>1, OnClients DEF IInv, ScalarsOK, Kinds
    <2> QED  BY <1>2, <1>12, <2>1 DEF IInv, ScalarsOK
  <1>14. MixInside'
    <2> SUFFICES ASSUME cut' \cap On("play")' = {}, NEW c \in Mixed'
                 PROVE  ReadFrame(stream'[c].format, stream'[c].rate, (min' \div 2) - 2)
                          < stream'[c].actual_length \div FrameBytes(stream'[c].format)
      <3>1. min' <= BufOctets /\ min' % 4 = 0
        BY <1>12, MixAssumption
      <3> HIDE DEF ended, counted, bytes, seen, new
      <3> QED  BY <3>1 DEF MixInside
    <2>1. c \in On("play") /\ c \notin ended /\ min' > 0 /\ stream'[c].actual_length > 0
      BY <1>5 DEF Mixed
    <2>2. c \in Clients
      BY <2>1, OnClients DEF IInv, Kinds
    <2>3. /\ stream'[c] = new[c] /\ Same(stream'[c], stream[c])
          /\ stream'[c].actual_length = Length(c)
      BY <1>3, <1>6, <1>7, <2>1, <2>2
    <2>4. PICK i \in DOMAIN play : c = play[i]
      BY <2>1 DEF On, ToSet
    <2>5. i \in counted
      <3>1. found[c] # 0 \/ stream[c].actual_length # 0
        BY <2>1, <2>3 DEF ReadLength
      <3> QED  BY <2>1, <2>4, <3>1
    <2>6. \A j \in counted : bytes[j] > 0
      <3> TAKE j \in counted
      <3>1. play[j] \in On("play") /\ play[j] \notin ended
        BY <1>10
      <3>2. play[j] \in On("play")'
        BY <1>5, <3>1
      <3>3. ~ Partial(play[j], found[play[j]])
        BY <1>1, <3>1, <3>2
      <3> QED  BY <1>10, <3>3
    <2>7. \A j \in counted : bytes[j] # 0
      <3> HIDE DEF bytes, counted
      <3> QED  BY <1>10, <2>6
    <2>8. seen = counted
      <3> HIDE DEF bytes, counted
      <3> QED  BY <2>7 DEF Seen
    <2>9. min' <= bytes[i]
      <3>1. seen # {}
        BY <2>5, <2>8
      <3>2. PICK k \in seen : min' = bytes[k] /\ \A j \in seen : bytes[k] <= bytes[j]
        BY <1>1, <3>1
      <3> QED  BY <2>5, <2>8, <3>2
    <2> DEFINE f == stream[c].format
               r == stream[c].rate
               j == (min' \div 4) - 1
    <2>10. f \in Formats /\ r \in Nat /\ r > 0 /\ Length(c) \in Nat
           /\ bytes[i] = Translated(f, r, Length(c))
      <3>1. f \in Formats /\ r \in Nat /\ Length(c) \in 0..stream[c].buffer_length
        BY <1>4, <2>1, ReadHolds
      <3>2. stream[play[i]].rate > 0
            /\ bytes[i] = Translated(stream[play[i]].format, stream[play[i]].rate, Length(play[i]))
        BY <1>10, <2>5
      <3> HIDE DEF bytes, Length
      <3> QED  BY <2>4, <3>1, <3>2
    <2>11. j \in Nat /\ 4 * (j + 1) = min' /\ 2 * j = (min' \div 2) - 2 /\ min' \in Nat
      <3>1. \A m \in Nat : m > 0 /\ m % 4 = 0 =>
              /\ (m \div 4) - 1 \in Nat /\ 4 * (((m \div 4) - 1) + 1) = m
              /\ 2 * ((m \div 4) - 1) = (m \div 2) - 2
        OBVIOUS
      <3>2. min' \in Nat /\ min' % 4 = 0
        <4>1. min' % 4 = 0
          BY <1>12
        <4>2. min' \in Nat
          BY <1>12
        <4> QED  BY <4>1, <4>2
      <3>3. min' > 0
        BY <2>1
      <3> QED  BY <3>1, <3>2, <3>3
    <2> HIDE DEF j, f, r, Length, bytes
    <2>12. ReadFrame(f, r, 2 * j) < Length(c) \div FrameBytes(f)
      BY <2>9, <2>10, <2>11, MixReadsInside
    <2> QED  BY <2>3, <2>11, <2>12 DEF Same, f, r
  <1> HIDE DEF ended, counted, bytes, seen, new
  <1> QED  BY <1>5, <1>7, <1>8, <1>9, <1>13, <1>14 DEF IInv

LEMMA LeftOverHolds ==
  ASSUME IInv, NEW c \in On("play")
  PROVE  /\ LeftOver(c) \in 0..stream[c].buffer_length
         /\ LeftOver(c) % FrameBytes(stream[c].format) = 0
  <1> DEFINE s == stream[c]
             k == ((min \div 4) * s.rate) \div AudioRate
             b == FrameBytes(s.format)
             a == s.actual_length
  <1>1. c \in Clients /\ c \notin On("filter")
    BY OnClients, OnApart DEF IInv, Kinds
  <1>2. s \in StreamType /\ Holds(s)
    BY <1>1 DEF IInv, SlotsOK
  <1>3. s.format \in Formats /\ s.rate \in Nat /\ s.buffer_length \in Nat /\ min \in Nat
        /\ a \in 0..s.buffer_length /\ a % b = 0
    BY <1>2, MixAssumption DEF StreamType, Holds, IInv, ScalarsOK
  <1>4. k \in Nat
    <2>1. min \div 4 \in Nat
      BY <1>3
    <2>2. (min \div 4) * s.rate \in Nat
      BY <1>3, <2>1, ProductNat
    <2> QED  BY <2>2, MixAssumption, Quotient
  <1>5. b \in {1, 2, 4}
    BY <1>3, FrameSizes
  <1>6. LeftOver(c) = IF a > k * b THEN a - k * b ELSE 0
    BY DEF LeftOver, Used
  <1> HIDE DEF s, k, b, a
  <1>7. ASSUME a > k * b PROVE a - k * b \in 0..s.buffer_length /\ (a - k * b) % b = 0
    <2>1. CASE b = 1
      BY <1>3, <1>4, <1>7, <2>1
    <2>2. CASE b = 2
      BY <1>3, <1>4, <1>7, <2>2
    <2>3. CASE b = 4
      BY <1>3, <1>4, <1>7, <2>3
    <2> QED  BY <1>5, <2>1, <2>2, <2>3
  <1>8. CASE a > k * b
    BY <1>6, <1>7, <1>8 DEF s, b
  <1>9. CASE ~ (a > k * b)
    BY <1>3, <1>5, <1>6, <1>9 DEF s, b
  <1> QED  BY <1>8, <1>9

LEMMA MixAddInv ==
  ASSUME IInv, MixAdd
  PROVE  IInv'
  <1> DEFINE new == [c \in Clients |-> IF c \in Mixed
                                       THEN [stream[c] EXCEPT !.actual_length = LeftOver(c)]
                                       ELSE stream[c]]
  <1>1. /\ UNCHANGED <<client, list, record, cut, octets, stale>> /\ pc = "add" /\ pc' = "filter" /\ min' = 0
        /\ length' = IF Mixed = {} THEN 0 ELSE IF AudioFormat.bits = 16 THEN min ELSE min \div 2
        /\ stream' = new
    BY DEF MixAdd
  <1>2. Mixed \subseteq On("play")
    BY DEF Mixed
  <1>3. \A k \in Kinds : On(k)' = On(k) /\ On(k) \subseteq Clients
    BY <1>1, OnClients DEF On, IInv
  <1>4. ASSUME NEW c \in Clients
        PROVE  /\ new[c] \in StreamType /\ Same(new[c], stream[c])
               /\ c \notin On("filter") => Holds(new[c])
    <2>1. stream[c] \in StreamType
      BY DEF IInv, SlotsOK
    <2>2. CASE c \in Mixed
      <3>1. LeftOver(c) \in 0..stream[c].buffer_length /\ stream[c].buffer_length \in Nat
            /\ LeftOver(c) % FrameBytes(stream[c].format) = 0
        BY <1>2, <2>1, <2>2, LeftOverHolds DEF StreamType
      <3>2. new[c] = [stream[c] EXCEPT !.actual_length = LeftOver(c)]
        BY <2>2
      <3>3. LeftOver(c) \in Int
        BY <3>1
      <3> HIDE DEF new
      <3>4. new[c] \in StreamType /\ Same(new[c], stream[c]) /\ new[c].actual_length = LeftOver(c)
        BY <2>1, <3>2, <3>3, LengthSet
      <3> QED  BY <3>1, <3>4 DEF Holds, Same
    <2>3. CASE c \notin Mixed
      BY <2>1, <2>3 DEF Same, IInv, SlotsOK
    <2> QED  BY <2>2, <2>3
  <1>5. stream' = [c \in Clients |-> IF c \in {} THEN NoStream ELSE new[c]]
    BY <1>1
  <1> HIDE DEF new
  <1>6. SlotsOK' /\ \A c \in Clients : Same(stream'[c], stream[c])
    <2>1. On("filter") \ {} \subseteq On("filter")'
      BY <1>3 DEF Kinds
    <2>2. \A k \in Kinds : On(k)' \subseteq On(k) \ {}
      BY <1>3
    <2> QED  BY <1>3, <1>4, <1>5, <2>1, <2>2, SlotStep DEF IInv
  <1>7. MonitorsFresh' /\ OctetsOK'
    BY <1>1, NoneStale, OctetsSame DEF IInv, ScalarsOK
  <1>8. ListsOK' /\ RecordOK' /\ MixInside'
    BY <1>1, ListsSame, NotAdding DEF IInv, RecordOK
  <1>9. ScalarsOK'
    <2>1. min \in Nat /\ min <= BufOctets /\ BufOctets \in Nat /\ min % 4 = 0
      BY MixAssumption DEF IInv, ScalarsOK
    <2>2. LengthOK(IF AudioFormat.bits = 16 THEN min ELSE min \div 2)
      <3>1. CASE AudioFormat.bits = 16
        BY <2>1, <3>1, OutputFormat DEF LengthOK
      <3>2. CASE AudioFormat.bits # 16
        BY <2>1, <3>2, OutputFormat DEF LengthOK
      <3> QED  BY <3>1, <3>2
    <2>3. LengthOK(length')
      BY <1>1, <2>2, LengthZero
    <2> QED  BY <1>1, <2>1, <2>3 DEF IInv, ScalarsOK
  <1> QED  BY <1>6, <1>7, <1>8, <1>9 DEF IInv

----------------------------------------------------------------------------
(* filter_write(), monitor_write() and recorder_write().                   *)

\* Streams of one list are erased; those left on it may change actual_length if
\* they are filters.
LEMMA EraseStep ==
  ASSUME IInv, NEW k \in Kinds, NEW S \in SUBSET On(k), Erased(k, S), NEW new,
         stream' = [c \in Clients |-> IF c \in S THEN NoStream ELSE new[c]],
         \A c \in Clients \ S : new[c] \in StreamType /\ Same(new[c], stream[c]),
         \A c \in Clients \ On("filter") : new[c] = stream[c]
  PROVE  /\ ListsOK' /\ SlotsOK'
         /\ \A c \in Clients \ S : Same(stream'[c], stream[c])
         /\ On(k)' = On(k) \ S /\ S \subseteq Clients
         /\ \A m \in Kinds \ {k} : list'[m] = list[m] /\ On(m)' = On(m)
  <1>1. /\ ListsOK' /\ On(k)' = On(k) \ S
        /\ \A m \in Kinds \ {k} : list'[m] = list[m] /\ On(m)' = On(m)
    BY ErasedLists DEF IInv
  <1>2. \A m \in Kinds : On(m) \subseteq Clients
    BY OnClients DEF IInv
  <1>3. \A m \in Kinds : On(m)' = On(m) \ S
    <2> TAKE m \in Kinds
    <2>1. CASE m = k
      BY <1>1, <2>1
    <2>2. CASE m # k
      <3>1. \A c \in On(m) : c \notin On(k)
        BY <2>2, OnApart DEF IInv
      <3> QED  BY <1>1, <2>2, <3>1
    <2> QED  BY <2>1, <2>2
  <1>4. \A c \in Clients \ S : c \notin On("filter") => Holds(new[c])
    BY DEF IInv, SlotsOK
  <1>5. On("filter") \ S \subseteq On("filter")'
    BY <1>3 DEF Kinds
  <1>6. SlotsOK' /\ \A c \in Clients \ S : Same(stream'[c], stream[c])
    BY <1>2, <1>3, <1>4, <1>5, SlotStep DEF IInv
  <1> QED  BY <1>1, <1>2, <1>6

LEMMA FilterWriteInv ==
  ASSUME IInv, FilterWrite
  PROVE  IInv'
  <1> DEFINE Ended(found) == {c \in On("filter") : found[c] < 0}
  <1>1. PICK found \in [On("filter") -> {-1} \cup UNION {Found(c) : c \in On("filter")}] :
               /\ stream' = [c \in Clients |->
                               IF c \in Ended(found) THEN NoStream
                               ELSE IF c \notin On("filter") THEN stream[c]
                               ELSE [stream[c] EXCEPT !.actual_length = AnsweredLength(c, found[c])]]
               /\ Erased("filter", Ended(found))
               /\ length' = IF list["filter"] = <<>> THEN length
                            ELSE TranslateLength(stream[Last(list["filter"])].buffer_length, length)
    BY DEF FilterWrite
  <1> DEFINE ended == Ended(found)
             new == [c \in Clients |-> IF c \notin On("filter") THEN stream[c]
                                       ELSE [stream[c] EXCEPT !.actual_length = AnsweredLength(c, found[c])]]
  <1>2. pc' = "monitor" /\ pc = "filter" /\ UNCHANGED <<min, record, cut, octets, stale>>
    BY DEF FilterWrite
  <1>3. stream' = [c \in Clients |-> IF c \in ended THEN NoStream ELSE new[c]]
    BY <1>1
  <1>4. ASSUME NEW c \in Clients
        PROVE  /\ new[c] \in StreamType /\ Same(new[c], stream[c])
               /\ c \notin On("filter") => new[c] = stream[c]
    <2>1. stream[c] \in StreamType
      BY DEF IInv, SlotsOK
    <2>2. CASE c \in On("filter")
      <3>1. new[c] = [stream[c] EXCEPT !.actual_length = AnsweredLength(c, found[c])]
        BY <2>2
      <3>2. found[c] \in Int /\ stream[c].actual_length \in Int
        <4>1. \A d \in On("filter") : \A n \in Found(d) : n \in Int
          <5> TAKE d \in On("filter")
          <5>1. stream[d] \in StreamType
            BY OnClients DEF IInv, SlotsOK, Kinds
          <5> QED  BY <5>1, FoundInt DEF StreamType
        <4>2. found[c] = -1 \/ \E d \in On("filter") : found[c] \in Found(d)
          BY <2>2
        <4> QED  BY <2>1, <4>1, <4>2 DEF StreamType
      <3>4. AnsweredLength(c, found[c]) \in Int
        BY <3>2 DEF AnsweredLength
      <3> HIDE DEF new
      <3> QED  BY <2>1, <2>2, <3>1, <3>4, LengthSet
    <2>3. CASE c \notin On("filter")
      BY <2>1, <2>3 DEF Same
    <2> QED  BY <2>2, <2>3
  <1>5. ended \in SUBSET On("filter") /\ Erased("filter", ended) /\ "filter" \in Kinds
    BY <1>1 DEF Kinds
  <1> HIDE DEF ended, new
  <1>6. /\ ListsOK' /\ SlotsOK'
        /\ \A c \in Clients \ ended : Same(stream'[c], stream[c])
        /\ \A m \in Kinds \ {"filter"} : list'[m] = list[m] /\ On(m)' = On(m)
    BY <1>3, <1>4, <1>5, EraseStep
  <1>7. MonitorsFresh' /\ OctetsOK'
    BY <1>2, NoneStale, OctetsSame DEF IInv, ScalarsOK
  <1>8. RecordOK' /\ MixInside'
    BY <1>2, <1>6, NotAdding DEF IInv, RecordOK, Kinds
  <1>9. ScalarsOK'
    <2>1. length' \in {0, length}
      BY <1>1 DEF TranslateLength
    <2>2. LengthOK(length')
      BY <2>1, LengthZero DEF IInv, ScalarsOK
    <2> QED  BY <1>2, <2>2 DEF IInv, ScalarsOK
  <1> QED  BY <1>6, <1>7, <1>8, <1>9 DEF IInv

\* A monitor is served without source data only behind one without a buffer.
LEMMA StaleBehind ==
  ASSUME IInv, NEW ready \in SUBSET On("monitor"), NEW lost \in SUBSET ready,
         length = 0 => ready = {}, NEW i \in DOMAIN list["monitor"],
         list["monitor"][i] \in ready, SourceLength(i, ready, lost) = 0
  PROVE  \E m \in On("monitor") \ lost : stream[m].buffer_length = 0
  <1> DEFINE monitors == list["monitor"]
             before == {j \in 1..(i - 1) : monitors[j] \in ready}
             j == CHOOSE m \in before : \A n \in before : n <= m
  <1>1. monitors \in Seq(Clients) /\ DOMAIN monitors = 1..Len(monitors) /\ Len(monitors) \in Nat
    BY DEF IInv, ListsOK, Kinds
  <1>2. SourceLength(i, ready, lost) =
          IF before = {} THEN length
          ELSE IF monitors[j] \in lost THEN -1 ELSE stream[monitors[j]].buffer_length
    BY DEF SourceLength
  <1>3. length # 0
    OBVIOUS
  <1>4. before # {}
    BY <1>2, <1>3
  <1>5. j \in before
    <2>1. i - 1 \in Nat /\ before \in SUBSET (1..(i - 1))
      BY <1>1
    <2> HIDE DEF before
    <2>2. \E m \in before : \A n \in before : n <= m
      BY <1>4, <2>1, GreatestElement
    <2> QED  BY <2>2
  <1> HIDE DEF j
  <1>6. monitors[j] \in ready
    BY <1>5
  <1> HIDE DEF before
  <1>7. monitors[j] \notin lost /\ stream[monitors[j]].buffer_length = 0
    BY <1>2, <1>4
  <1> QED  BY <1>6, <1>7

\* The last frame of a stream's buffer ends inside the time of the output's.
LEMMA LastFrame ==
  ASSUME NEW s \in StreamType, Derived(s), s.buffer_length > 0,
         NEW d, d = (s.buffer_length \div FrameBytes(s.format)) - 1
  PROVE  /\ d \in Nat /\ d < BufferLength(s.format, s.rate) \div FrameBytes(s.format)
         /\ s.format \in Formats /\ s.rate \in Nat \ {0}
         /\ 4 * (d + 1) * AudioRate <= BufOctets * s.rate
  <1> DEFINE f == s.format
             r == s.rate
             len == s.buffer_length
             n == len \div FrameBytes(f)
             all == BufOctets * r
             whole == all \div AudioRate
  <1>1. f \in Formats /\ r \in Nat /\ len \in Nat /\ len = BufferLength(f, r)
    BY DEF StreamType, Derived
  <1>2. r > 0 /\ len >= FrameBytes(f)
    BY BufferWhole
  <1>3. n \in Nat /\ n > 0 /\ d = n - 1
    <2> HIDE DEF f, len
    <2>1. n \in Nat /\ n > 0
      BY <1>1, <1>2, FrameSizes
    <2> QED  BY <2>1 DEF f, len
  <1>4. 4 * n <= whole
    BY <1>1, BufferFrames
  <1>5. all \in Nat
    BY <1>1, MixAssumption, ProductNat
  <1> HIDE DEF all
  <1>6. whole \in Nat /\ AudioRate * whole <= all
    BY <1>5, MixAssumption, Quotient
  <1> HIDE DEF whole, n
  <1>7. 4 * n * AudioRate <= all
    <2> DEFINE m == AudioRate * whole
    <2>1. 4 * n * AudioRate <= m
      BY <1>3, <1>4, <1>6, MixAssumption, SMT
    <2>2. m \in Nat /\ 4 * n * AudioRate \in Nat
      BY <1>3, <1>6, MixAssumption, ProductNat
    <2> DEFINE l == 4 * n * AudioRate
    <2>3. l \in Nat /\ l <= m /\ m <= all
      BY <1>6, <2>1, <2>2
    <2> HIDE DEF m, l
    <2>4. l <= all
      BY <1>5, <2>2, <2>3
    <2> QED  BY <2>4 DEF l
  <1>8. d + 1 = n /\ d \in Nat /\ d < n
    BY <1>3
  <1> QED  BY <1>1, <1>2, <1>7, <1>8 DEF n, all

\* The block of a monitor reads no further than a full mix.
LEMMA MonitorReads ==
  ASSUME IInv, NEW c \in On("monitor"), NEW s, s = stream[c], s.buffer_length > 0
  PROVE  /\ LastRead(s.format, s.buffer_length, AudioRate, s.rate) \in Nat
         /\ LastRead(s.format, s.buffer_length, AudioRate, s.rate) < BufOctets \div 4
  <1> DEFINE d == (s.buffer_length \div FrameBytes(s.format)) - 1
  <1>1. s \in StreamType /\ Derived(s)
    BY OnClients DEF IInv, SlotsOK, Kinds
  <1>2. /\ d \in Nat /\ d < BufferLength(s.format, s.rate) \div FrameBytes(s.format)
        /\ s.format \in Formats /\ s.rate \in Nat \ {0}
    BY <1>1, LastFrame
  <1> HIDE DEF d
  <1>3. /\ SourceFrame(s.format, d, AudioRate, s.rate) \in Nat
        /\ SourceFrame(s.format, d, AudioRate, s.rate) < BufOctets \div 4
    BY <1>2, TranslateReadsMix
  <1> QED  BY <1>3 DEF LastRead, d

LEMMA MonitorWriteInv ==
  ASSUME IInv, MonitorWrite
  PROVE  IInv'
  <1> DEFINE Served(ready, lost) ==
               /\ length = 0 => ready = {}
               /\ stale' = {list["monitor"][i] : i \in
                              {i \in DOMAIN list["monitor"] :
                                 list["monitor"][i] \in ready \ lost /\ Outdated(i, ready, lost)}}
               /\ Erased("monitor", lost)
               /\ stream' = [c \in Clients |-> IF c \in lost THEN NoStream ELSE stream[c]]
  <1>0. PICK ready \in SUBSET On("monitor") : \E lost \in SUBSET ready : Served(ready, lost)
    BY DEF MonitorWrite
  <1>1. PICK lost \in SUBSET ready : Served(ready, lost)
    BY <1>0
  <1>2. pc' = "record" /\ UNCHANGED <<min, length, record, cut, octets>>
    BY DEF MonitorWrite
  <1>3. \A c \in Clients : stream[c] \in StreamType /\ Same(stream[c], stream[c])
    BY DEF IInv, SlotsOK, Same
  <1>4. /\ ListsOK' /\ SlotsOK'
        /\ \A c \in Clients \ lost : Same(stream'[c], stream[c])
        /\ On("monitor")' = On("monitor") \ lost
        /\ \A m \in Kinds \ {"monitor"} : list'[m] = list[m] /\ On(m)' = On(m)
    <2>1. "monitor" \in Kinds /\ lost \in SUBSET On("monitor")
      BY DEF Kinds
    <2> QED  BY <1>1, <1>3, <2>1, EraseStep
  <1>5. On("monitor") \subseteq Clients
    BY OnClients DEF IInv, Kinds
  <1>6. MonitorsFresh'
    <2> SUFFICES ASSUME Sounding' = BufOctets \div 4, NEW c \in stale'
                 PROVE  \E m \in On("monitor")' : stream'[m].buffer_length = 0
      BY DEF MonitorsFresh
    <2>1. PICK i \in DOMAIN list["monitor"] :
                 list["monitor"][i] \in ready \ lost /\ Outdated(i, ready, lost)
      BY <1>1
    <2>2. SourceLength(i, ready, lost) = 0
      <3> DEFINE s == stream[list["monitor"][i]]
      <3>1. list["monitor"][i] \in On("monitor") /\ s.buffer_length > 0
        BY <2>1 DEF Outdated
      <3>2. LastRead(s.format, s.buffer_length, AudioRate, s.rate) \in Nat
            /\ LastRead(s.format, s.buffer_length, AudioRate, s.rate) < BufOctets \div 4
        BY <3>1, MonitorReads
      <3>3. Sounding = BufOctets \div 4 /\ BufOctets \div 4 \in Nat
        BY <1>2, MixAssumption DEF Sounding
      <3> QED  BY <2>1, <3>2, <3>3 DEF Outdated
    <2>3. PICK m \in On("monitor") \ lost : stream[m].buffer_length = 0
      BY <1>1, <2>1, <2>2, StaleBehind
    <2>4. m \in On("monitor")' /\ stream'[m].buffer_length = 0
      BY <1>4, <1>5, <2>3 DEF Same
    <2> QED  BY <2>4
  <1>7. RecordOK' /\ OctetsOK' /\ MixInside'
    BY <1>2, <1>4, NotAdding, OctetsSame DEF IInv, RecordOK, Kinds
  <1>8. ScalarsOK'
    <2>1. stale' \subseteq Clients
      BY <1>1, <1>5
    <2> QED  BY <1>2, <2>1 DEF IInv, ScalarsOK
  <1> QED  BY <1>4, <1>6, <1>7, <1>8 DEF IInv

LEMMA RecorderWriteInv ==
  ASSUME IInv, RecorderWrite
  PROVE  IInv'
  <1>1. PICK lost \in SUBSET On("record") :
               /\ Erased("record", lost)
               /\ stream' = [c \in Clients |-> IF c \in lost THEN NoStream ELSE stream[c]]
               /\ record' = IF lost = {} THEN record ELSE list'["record"] # <<>>
    BY DEF RecorderWrite
  <1>2. pc' = "poll" /\ length' = 0 /\ stale' = {} /\ cut' = {} /\ UNCHANGED <<min, octets>>
    BY DEF RecorderWrite
  <1>3. \A c \in Clients : stream[c] \in StreamType /\ Same(stream[c], stream[c])
    BY DEF IInv, SlotsOK, Same
  <1>4. /\ ListsOK' /\ SlotsOK'
        /\ \A c \in Clients \ lost : Same(stream'[c], stream[c])
        /\ On("record")' = On("record") \ lost
        /\ \A m \in Kinds \ {"record"} : list'[m] = list[m] /\ On(m)' = On(m)
    <2>1. "record" \in Kinds
      BY DEF Kinds
    <2> QED  BY <1>1, <1>3, <2>1, EraseStep
  <1>5. MonitorsFresh' /\ OctetsOK'
    BY <1>2, NoneStale, OctetsSame DEF IInv
  <1>6. RecordOK'
    <2>1. CASE lost # {}
      BY <1>1, <2>1 DEF RecordOK
    <2>2. CASE lost = {}
      <3>1. list'["record"] # <<>> <=> list["record"] # <<>>
        <4>1. On("record")' = On("record")
          BY <1>4, <2>2
        <4>2. list["record"] \in Seq(Clients) /\ list'["record"] \in Seq(Clients)
          BY <1>4 DEF IInv, ListsOK, Kinds
        <4>3. \A s \in Seq(Clients) : s = <<>> <=> {s[i] : i \in DOMAIN s} = {}
          <5> TAKE s \in Seq(Clients)
          <5>1. s # <<>> => 1 \in DOMAIN s
            OBVIOUS
          <5>2. s # <<>> => s[1] \in {s[i] : i \in DOMAIN s}
            BY <5>1
          <5> QED  BY <5>2
        <4>4. On("record") = {list["record"][i] : i \in DOMAIN list["record"]}
              /\ On("record")' = {list'["record"][i] : i \in DOMAIN list'["record"]}
          BY DEF On, ToSet
        <4> QED  BY <4>1, <4>2, <4>3, <4>4
      <3> QED  BY <1>1, <2>2, <3>1 DEF IInv, RecordOK
    <2> QED  BY <2>1, <2>2
  <1>7. MixInside'
    BY <1>2, NotAdding
  <1>8. ScalarsOK'
    BY <1>2, LengthZero DEF IInv, ScalarsOK
  <1> QED  BY <1>4, <1>5, <1>6, <1>7, <1>8 DEF IInv

----------------------------------------------------------------------------
(* The invariant, and the properties it implies.                           *)

LEMMA NextInv == IInv /\ [Next]_vars => IInv'
  <1> SUFFICES ASSUME IInv, [Next]_vars PROVE IInv'
    OBVIOUS
  <1>1. CASE UNCHANGED vars
    <2>1. UNCHANGED <<client, stream, list, pc, min, length, record, cut, octets, stale>>
      BY <1>1 DEF vars
    <2>2. ListsOK' /\ SlotsOK' /\ OctetsOK'
      BY <2>1, ListsSame, SlotsSame, OctetsSame DEF IInv
    <2>3. RecordOK' /\ ScalarsOK'
      BY <2>1 DEF IInv, RecordOK, ScalarsOK
    <2>4. MixInside'
      <3>1. On("play")' = On("play") /\ Mixed' = Mixed
        BY <2>1 DEF On, Mixed
      <3> QED  BY <2>1, <3>1 DEF IInv, MixInside
    <2>5. MonitorsFresh'
      <3>1. On("monitor")' = On("monitor") /\ Sounding' = Sounding
        BY <2>1 DEF On, Sounding
      <3> QED  BY <2>1, <3>1 DEF IInv, MonitorsFresh
    <2> QED  BY <2>2, <2>3, <2>4, <2>5 DEF IInv
  <1>2. ASSUME NEW c \in Clients, Requests(c) PROVE IInv'
    <2>1. CASE Connect(c) \/ Refused(c)
      BY <2>1, ConnectInv
    <2>2. ASSUME NEW k \in Kinds, NEW src \in Sources, ProtoStream(c, k, src) PROVE IInv'
      BY <2>2, ProtoStreamInv
    <2>3. ASSUME NEW t \in Clients, NEW p \in Pans, ProtoStreamPan(c, t, p[1], p[2]) PROVE IInv'
      <3>1. p[1] \in Int /\ p[2] \in Int
        BY StreamsAssumption
      <3> QED  BY <2>3, <3>1, ProtoStreamPanInv
    <2> QED  BY <1>2, <2>1, <2>2, <2>3 DEF Requests
  <1>3. CASE PollDone \/ Idle
    BY <1>3, LoopStep
  <1>4. CASE MixRead
    BY <1>4, MixReadInv
  <1>5. CASE MixAdd
    BY <1>5, MixAddInv
  <1>6. CASE FilterWrite
    BY <1>6, FilterWriteInv
  <1>7. CASE MonitorWrite
    BY <1>7, MonitorWriteInv
  <1>8. CASE RecorderWrite
    BY <1>8, RecorderWriteInv
  <1> QED  BY <1>1, <1>2, <1>3, <1>4, <1>5, <1>6, <1>7, <1>8 DEF Next

\* The inductive invariant: whatever streams come and go, and wherever in a turn
\* of the loop that happens, the lists, the slots and the lengths of the mix fit
\* each other.
THEOREM StreamsInductive == Spec => []IInv
  BY InitInv, NextInv, PTL DEF Spec

\* Types: the lengths of the mix stay in the output buffer, and only a filter's
\* actual_length ever goes below 0.
THEOREM StreamsTyped == Spec => []TypeOK
  <1>1. IInv => TypeOK
    <2> SUFFICES ASSUME IInv PROVE TypeOK
      OBVIOUS
    <2>1. ASSUME NEW c \in Clients \ On("filter") PROVE stream[c].actual_length >= 0
      <3>1. Holds(stream[c]) /\ stream[c] \in StreamType
        BY DEF IInv, SlotsOK
      <3> QED  BY <3>1 DEF Holds, StreamType
    <2>2. stream \in [Clients -> [format : Formats, rate : Nat, buffer_length : Nat,
                                  actual_length : Int, left : Int, right : Int,
                                  mix : [format : Formats, sv : BOOLEAN]]]
      BY DEF IInv, SlotsOK, StreamType
    <2> QED  BY <2>1, <2>2 DEF TypeOK, IInv, ListsOK, RecordOK, ScalarsOK, OctetsOK, LengthOK
  <1> QED  BY <1>1, StreamsInductive, PTL

\* Whatever comes, goes and is erased in the middle of a walk over a list: a
\* client that streams is on one list, once, no list keeps a stream whose client
\* is gone, and the device records exactly while there is a recorder.
THEOREM StreamsOwned == Spec => []Owned
  <1>1. IInv => Owned
    BY DEF IInv, ListsOK, OnceEach, RecordOK, Owned
  <1> QED  BY <1>1, StreamsInductive, PTL

\* A player holds whole frames that fit its buffer, and they begin where the
\* client's frames do, shifted by what short reads dropped and by nothing else: for
\* all rates and formats, and reads of any sizes.
THEOREM PlayersHoldWholeFrames == Spec => []WholeFrames
  <1>1. IInv => WholeFrames
    <2> SUFFICES ASSUME IInv, NEW c \in On("play")
                 PROVE  Holds(stream[c]) /\ octets[c].taken = octets[c].dropped
      BY DEF WholeFrames, Holds
    <2>1. c \in Clients /\ c \notin On("filter")
      BY OnClients, OnApart DEF IInv, Kinds
    <2> QED  BY <2>1 DEF IInv, SlotsOK, OctetsOK, InStep
  <1> QED  BY <1>1, StreamsInductive, PTL

\* The mixer never reads behind what a player holds, nor fills more than the mix
\* buffer, in a turn without a short read.
THEOREM MixerReadsInside == Spec => []MixInside
  BY StreamsInductive, PTL DEF IInv

\* A monitor that is served in a turn that fills the output buffer gets the sound
\* of this turn to the end of its block, for all rates and formats, unless one on
\* the list has an empty buffer.
THEOREM MonitorsStayFresh == Spec => []MonitorsFresh
  BY StreamsInductive, PTL DEF IInv

----------------------------------------------------------------------------
(* Translation and samples.                                                *)

\* The last frame of the output ends inside the time of the output buffer.
LEMMA LastOutput ==
  ASSUME IInv, length > 0, NEW d, d = (length \div FrameBytes(AudioFormat)) - 1
  PROVE  d \in Nat /\ 4 * (d + 1) * AudioRate <= BufOctets * AudioRate
  <1> DEFINE b == FrameBytes(AudioFormat)
  <1>1. LengthOK(length) /\ b = IF AudioFormat.bits = 16 THEN 4 ELSE 2
    BY OutputFormat DEF IInv, ScalarsOK
  <1> HIDE DEF b
  <1>2. d \in Nat /\ 4 * (d + 1) <= BufOctets
    <2>1. d = (length \div b) - 1 /\ length % b = 0 /\ length \in Nat /\ length <= BufOctets
          /\ BufOctets \in Nat /\ (AudioFormat.bits # 16 => 2 * length <= BufOctets)
      BY <1>1, MixAssumption DEF LengthOK, b
    <2>2. CASE b = 4
      BY <2>1, <2>2
    <2>3. CASE b = 2
      BY <1>1, <2>1, <2>3
    <2> QED  BY <1>1, <2>2, <2>3
  <1> QED  BY <1>2, MixAssumption, SMT

\* Every translation reads inside its source, or at most the frame that the end
\* of the output buffer's duration cuts, when the source is the block of a
\* filter: for all rates and formats and any chain of filters.
THEOREM TranslationsReadInside == Spec => []TranslateInside
  <1>1. IInv => TranslateInside
    <2> SUFFICES ASSUME IInv PROVE TranslateInside
      OBVIOUS
    <2>1. \A k \in Kinds : \A c \in On(k) : stream[c] \in StreamType /\ Derived(stream[c])
      BY OnClients DEF IInv, SlotsOK
    <2>2. ASSUME NEW c \in On("monitor") \cup On("record") \cup On("filter"),
                 stream[c].buffer_length > 0
          PROVE  LastRead(stream[c].format, stream[c].buffer_length, AudioRate, stream[c].rate)
                   < BufOctets \div FrameBytes(AudioFormat)
      <3> DEFINE s == stream[c]
                 d == (s.buffer_length \div FrameBytes(s.format)) - 1
      <3>1. s \in StreamType /\ Derived(s)
        BY <2>1 DEF Kinds
      <3>2. /\ d \in Nat /\ d < BufferLength(s.format, s.rate) \div FrameBytes(s.format)
            /\ s.format \in Formats /\ s.rate \in Nat \ {0}
        BY <2>2, <3>1, LastFrame
      <3> HIDE DEF d
      <3>3. SourceFrame(s.format, d, AudioRate, s.rate) < BufOctets \div FrameBytes(AudioFormat)
        BY <3>2, TranslateReadsInside
      <3> QED  BY <3>3 DEF LastRead, d
    <2>3. ASSUME NEW i \in DOMAIN list["filter"], NEW src, src = stream[list["filter"][i]],
                 NEW dst, dst = stream[list["filter"][i + 1]],
                 src.buffer_length > 0
          PROVE  IF i < Len(list["filter"])
                 THEN dst.buffer_length > 0 =>
                        LastRead(dst.format, dst.buffer_length, src.rate, dst.rate) <= ExactFrames(src)
                 ELSE pc = "filter" /\ length > 0 =>
                        LastRead(AudioFormat, length, src.rate, AudioRate) <= ExactFrames(src)
      <3>1. src \in StreamType /\ Derived(src)
        BY <2>1, <2>3 DEF On, ToSet, Kinds
      <3>2. src.format \in Formats /\ src.rate \in Nat \ {0}
        BY <2>3, <3>1, BufferWhole DEF StreamType
      <3>3. CASE i < Len(list["filter"])
        <4> SUFFICES ASSUME dst.buffer_length > 0
                     PROVE  LastRead(dst.format, dst.buffer_length, src.rate, dst.rate) <= ExactFrames(src)
          BY <3>3
        <4> DEFINE d == (dst.buffer_length \div FrameBytes(dst.format)) - 1
        <4>1. i + 1 \in DOMAIN list["filter"]
          BY <3>3 DEF IInv, ListsOK, Kinds
        <4>2. dst \in StreamType /\ Derived(dst)
          BY <2>1, <2>3, <4>1 DEF On, ToSet, Kinds
        <4>3. /\ d \in Nat /\ dst.format \in Formats /\ dst.rate \in Nat \ {0}
              /\ 4 * (d + 1) * AudioRate <= BufOctets * dst.rate
          BY <4>2, LastFrame
        <4> HIDE DEF d
        <4>4. SourceFrame(dst.format, d, src.rate, dst.rate)
                <= BufferLengthExact(src.format, src.rate) \div FrameBytes(src.format)
          BY <3>2, <4>3, BlockReadsNear
        <4> QED  BY <4>4 DEF LastRead, ExactFrames, d
      <3>4. CASE ~ (i < Len(list["filter"]))
        <4> SUFFICES ASSUME length > 0
                     PROVE  LastRead(AudioFormat, length, src.rate, AudioRate) <= ExactFrames(src)
          BY <3>4
        <4> DEFINE d == (length \div FrameBytes(AudioFormat)) - 1
        <4>1. d \in Nat /\ 4 * (d + 1) * AudioRate <= BufOctets * AudioRate
          BY LastOutput
        <4> HIDE DEF d
        <4>2. SourceFrame(AudioFormat, d, src.rate, AudioRate)
                <= BufferLengthExact(src.format, src.rate) \div FrameBytes(src.format)
          BY <3>2, <4>1, OutputFormat, MixAssumption, BlockReadsNear
        <4> QED  BY <4>2 DEF LastRead, ExactFrames, d
      <3> QED  BY <3>3, <3>4
    <2> QED  BY <2>2, <2>3 DEF TranslateInside
  <1> QED  BY <1>1, StreamsInductive, PTL

LEMMA EdgesAreSamples ==
  ASSUME NEW f, NEW v \in Edges(f)
  PROVE  Sample(f, v)
  BY DEF Edges, Sample, InShort

\* The mix function of a player is the one for its format and volumes.
LEMMA PlayerMix ==
  ASSUME IInv, NEW k \in Kinds, NEW c \in On(k)
  PROVE  LET s == stream[c]
         IN  /\ s.format \in [bits : {8, 16}, chan : {1, 2}]
             /\ s.left \in Int /\ s.right \in Int /\ s.mix.sv \in BOOLEAN
             /\ s.mix = [format |-> s.format, sv |-> s.mix.sv] /\ s.mix.format = s.format
             /\ s.mix.sv <=> s.left = VolumeBase /\ s.right = VolumeBase
  <1> DEFINE s == stream[c]
             mf == MixFunc(s.format, s.left, s.right)
  <1>1. c \in Clients /\ Mixable(s.format)
    BY OnClients DEF IInv, SlotsOK
  <1>2. s \in StreamType /\ s.mix = mf
    BY <1>1 DEF IInv, SlotsOK, Derived
  <1>3. s.format \in Formats /\ s.left \in Int /\ s.right \in Int
        /\ s.mix \in [format : Formats, sv : BOOLEAN]
    BY <1>2 DEF StreamType
  <1> HIDE DEF s
  <1>4. mf.format = s.format /\ (mf.sv <=> s.left = VolumeBase /\ s.right = VolumeBase)
    BY <1>1, <1>3, MixFuncType
  <1> HIDE DEF mf
  <1>5. s.mix = [format |-> s.format, sv |-> s.mix.sv] /\ s.mix.sv \in BOOLEAN
    BY <1>2, <1>3, <1>4
  <1> QED  BY <1>1, <1>2, <1>3, <1>4, <1>5 DEF Mixable, s

LEMMA FieldSet ==
  ASSUME NEW g, NEW b, NEW x
  PROVE  [[format |-> g, sv |-> b] EXCEPT !.sv = x] = [format |-> g, sv |-> x]
  OBVIOUS

\* Which of the two functions a player is mixed with is never heard.
THEOREM PlainAlwaysScaled == Spec => []PlainIsScaled
  <1>1. IInv => PlainIsScaled
    <2> SUFFICES ASSUME IInv, NEW c \in On("play"), NEW f, f = stream[c].format,
                        NEW l \in Edges(f), NEW r \in Edges(f), f.chan = 1 => l = r
                 PROVE  Contribution(stream[c].mix, l, r, stream[c].left, stream[c].right)
                          = Contribution([stream[c].mix EXCEPT !.sv = FALSE], l, r,
                                         stream[c].left, stream[c].right)
      BY DEF PlainIsScaled
    <2> DEFINE left == stream[c].left
               right == stream[c].right
               mf == stream[c].mix
               sv == mf.sv
    <2>1. /\ f \in [bits : {8, 16}, chan : {1, 2}] /\ sv \in BOOLEAN
          /\ mf = [format |-> f, sv |-> sv]
          /\ sv <=> left = VolumeBase /\ right = VolumeBase
      BY PlayerMix DEF Kinds
    <2>2. Sample(f, l) /\ Sample(f, r)
      BY EdgesAreSamples
    <2> HIDE DEF left, right, sv, mf
    <2>3. [mf EXCEPT !.sv = FALSE] = [format |-> f, sv |-> FALSE]
      <3>2. [[format |-> f, sv |-> sv] EXCEPT !.sv = FALSE] = [format |-> f, sv |-> FALSE]
        BY FieldSet
      <3>3. mf = [format |-> f, sv |-> sv]
        BY <2>1
      <3> QED  BY <3>2, <3>3, Zenon
    <2>4. CASE sv
      <3>1. mf = [format |-> f, sv |-> TRUE] /\ left = VolumeBase /\ right = VolumeBase
        BY <2>1, <2>4
      <3>2. Contribution([format |-> f, sv |-> TRUE], l, r, VolumeBase, VolumeBase)
              = Contribution([format |-> f, sv |-> FALSE], l, r, VolumeBase, VolumeBase)
        BY <2>1, <2>2, PlainEqualsScaled
      <3> QED  BY <2>3, <3>1, <3>2 DEF left, right, mf
    <2>5. CASE ~ sv
      <3>1. mf = [format |-> f, sv |-> FALSE]
        BY <2>1, <2>5
      <3> QED  BY <2>3, <3>1 DEF mf
    <2> QED  BY <2>4, <2>5
  <1> QED  BY <1>1, StreamsInductive, PTL

\* A higher sample never lowers the output, whatever else is played, of a player
\* with volumes between 0 and ESD_VOLUME_BASE.
THEOREM MixAlwaysMonotone == Spec => []MixMonotone
  <1>1. IInv => MixMonotone
    <2> SUFFICES ASSUME IInv, NEW c \in On("play"),
                        {stream[c].left, stream[c].right} \subseteq 0..VolumeBase
                 PROVE  \A v \in Edges(stream[c].format), w \in Edges(stream[c].format) :
                          \A others \in {-40000, 40000} :
                            LET out(x, i) == Output(others + Contribution(stream[c].mix, x, x,
                                                      stream[c].left, stream[c].right)[i])
                            IN  v <= w => out(v, 1) <= out(w, 1) /\ out(v, 2) <= out(w, 2)
      BY DEF MixMonotone
    <2> DEFINE f == stream[c].format
               mf == stream[c].mix
               left == stream[c].left
               right == stream[c].right
    <2>1. "play" \in Kinds
      BY DEF Kinds
    <2>2. /\ mf.format = f /\ f \in [bits : {8, 16}, chan : {1, 2}]
          /\ left \in Int /\ right \in Int
      BY <2>1, PlayerMix
    <2>3. left \in 0..256 /\ right \in 0..256
      BY <2>2 DEF VolumeBase
    <2>4. \A v \in Edges(f) : v \in Int /\ Sample(f, v)
      <3>1. \A v \in Edges(f) : v \in Int
        BY DEF Edges
      <3> QED  BY <3>1, EdgesAreSamples
    <2> HIDE DEF f, mf, left, right
    <2>5. ASSUME NEW v \in Int, NEW w \in Int, Sample(mf.format, v), Sample(mf.format, w), v <= w,
                 NEW others \in Int, NEW i \in {1, 2}
          PROVE  Output(others + Contribution(mf, v, v, left, right)[i])
                   <= Output(others + Contribution(mf, w, w, left, right)[i])
      BY <2>2, <2>3, <2>5, ContributionMonotone, ZenonT(60)
    <2>6. ASSUME NEW v \in Edges(f), NEW w \in Edges(f), NEW others \in {-40000, 40000}, v <= w,
                 NEW i \in {1, 2}
          PROVE  Output(others + Contribution(mf, v, v, left, right)[i])
                   <= Output(others + Contribution(mf, w, w, left, right)[i])
      <3>1. others \in Int
        OBVIOUS
      <3>2. v \in Int /\ w \in Int /\ Sample(mf.format, v) /\ Sample(mf.format, w)
        BY <2>2, <2>4
      <3> QED  BY <2>5, <2>6, <3>1, <3>2
    <2> QED  BY <2>6 DEF f, mf, left, right
  <1> QED  BY <1>1, StreamsInductive, PTL

\* Through any filter that gives back what it got, a sample of the output loses
\* at most its low byte.
THEOREM FiltersRoundTrip == Spec => []RoundTrip
  <1>1. IInv => RoundTrip
    <2> SUFFICES ASSUME IInv, NEW c \in On("filter"), NEW v \in Edges(AudioFormat)
                 PROVE  LET there == TranslateFrame(TranslateFunc(AudioFormat), stream[c].format, v, v)
                            back == TranslateFrame(TranslateFunc(stream[c].format), AudioFormat,
                                                   there[1], there[Len(there)])
                        IN  \A i \in DOMAIN back : -256 < back[i] - v /\ back[i] - v < 256
      BY DEF RoundTrip
    <2> DEFINE f == stream[c].format
               there == TranslateFrame(TranslateFunc(AudioFormat), f, v, v)
               back == TranslateFrame(TranslateFunc(f), AudioFormat, there[1], there[Len(there)])
    <2>1. f \in [bits : {8, 16}, chan : {1, 2}]
      BY PlayerMix DEF Kinds
    <2>2. Sample(AudioFormat, v)
      BY EdgesAreSamples
    <2>3. 1 \in DOMAIN there /\ Len(there) \in DOMAIN there
      <3>1. \E x, y : there = IF f.chan = 1 THEN <<x>> ELSE <<x, y>>
        BY DEF TranslateFrame
      <3> HIDE DEF there
      <3>2. PICK x, y : there = IF f.chan = 1 THEN <<x>> ELSE <<x, y>>
        BY <3>1
      <3>3. CASE there = <<x>>
        BY <3>3
      <3>4. CASE there = <<x, y>>
        BY <3>4
      <3> QED  BY <3>2, <3>3, <3>4
    <2> HIDE DEF f, there, back
    <2>4. ASSUME NEW i \in DOMAIN back PROVE -256 < back[i] - v /\ back[i] - v < 256
      <3>1. /\ there = TranslateFrame(TranslateFunc(AudioFormat), f, v, v)
            /\ back = TranslateFrame(TranslateFunc(f), AudioFormat, there[1], there[Len(there)])
        BY DEF there, back
      <3> QED  BY <2>1, <2>2, <2>3, <3>1, RoundTripClose
    <2> QED  BY <2>4 DEF f, there, back
  <1> QED  BY <1>1, StreamsInductive, PTL
============================================================================
