----------------------------- MODULE MixProofs -----------------------------
(***************************************************************************)
(* Proofs about the arithmetic of mix.c, for every rate, format, length    *)
(* and sample.                                                             *)
(***************************************************************************)
EXTENDS Mix, TLAPS

----------------------------------------------------------------------------
(* Division.                                                               *)

\* What C's and TLA+'s quotient of naturals is.
LEMMA Quotient ==
  ASSUME NEW a \in Nat, NEW b \in Nat \ {0}
  PROVE  /\ a \div b \in Nat /\ a % b \in Nat /\ a % b < b
         /\ a = b * (a \div b) + (a % b)
         /\ b * (a \div b) <= a
  BY SMT

LEMMA ProductNat ==
  ASSUME NEW a \in Nat, NEW b \in Nat
  PROVE  a * b \in Nat
  BY SMT

\* A quotient is below q when the dividend is below q times the divisor.
LEMMA QuotientBelow ==
  ASSUME NEW a \in Nat, NEW b \in Nat \ {0}, NEW q \in Nat, a < q * b
  PROVE  a \div b < q
  <1> DEFINE d == a \div b
  <1>1. d \in Nat /\ b * d <= a
    BY Quotient
  <1> HIDE DEF d
  <1>2. SUFFICES ASSUME d >= q PROVE FALSE
    BY <1>1 DEF d
  <1>3. d * b >= q * b
    BY <1>1, <1>2, SMT
  <1> QED  BY <1>1, <1>3, SMT

\* Rounding up: k is at most the quotient rounded up only if (k - 1) * b < a.
LEMMA RoundedUp ==
  ASSUME NEW a \in Nat, NEW b \in Nat \ {0}, NEW k \in Nat \ {0}, k <= (a + b - 1) \div b
  PROVE  (k - 1) * b < a
  <1> DEFINE d == (a + b - 1) \div b
  <1>1. d \in Nat /\ b * d <= a + b - 1
    BY Quotient
  <1> HIDE DEF d
  <1>2. k <= d
    BY DEF d
  <1>3. k * b <= d * b
    BY <1>1, <1>2, SMT
  <1>4. (k - 1) * b = k * b - b
    BY SMT
  <1> QED  BY <1>1, <1>3, <1>4, SMT
----------------------------------------------------------------------------
(* Lengths.                                                                *)

LEMMA FrameSizes ==
  ASSUME NEW f \in Formats
  PROVE  /\ FrameBytes(f) \in {1, 2, 4}
         /\ FrameBytes(f) = 1 => f.bits = 8 /\ f.chan = 1
         /\ FrameBytes(f) = 4 => f.bits # 8 /\ f.chan # 1
         /\ FrameBytes(f) = 2 => ((f.bits = 8) # (f.chan = 1))
  BY DEF FrameBytes, Formats

LEMMA OutputFormat ==
  /\ AudioFormat \in Formats
  /\ FrameBytes(AudioFormat) = IF AudioFormat.bits = 16 THEN 4 ELSE 2
  BY MixAssumption DEF FrameBytes, Formats

\* mix_players() mixes at most the frames that every player is good for.  None of
\* the mix functions then reads a frame the player does not hold, whatever the
\* two rates are: rounding up the output frames never lets the last one read
\* beyond the data.
THEOREM MixReadsInside ==
  ASSUME NEW f \in Formats, NEW rate \in Nat \ {0}, NEW len \in Nat, NEW min \in Nat,
         min <= Translated(f, rate, len),
         NEW j \in Nat, 4 * (j + 1) <= min
  PROVE  ReadFrame(f, rate, 2 * j) < len \div FrameBytes(f)
  <1> DEFINE n == len \div FrameBytes(f)
             a == n * AudioRate
             up == (a + rate - 1) \div rate
             p == j * rate
  <1>1. n \in Nat
    BY FrameSizes, Quotient
  <1>2. a \in Nat
    BY <1>1, MixAssumption, ProductNat
  <1>3. up \in Nat /\ p \in Nat
    BY <1>2, Quotient, ProductNat
  <1>4. Translated(f, rate, len) = Least(4 * up, BufOctets)
    BY DEF Translated
  <1>5. ReadFrame(f, rate, 2 * j) = (((2 * j) * rate) \div AudioRate) \div 2
    BY DEF ReadFrame
  <1>6. (2 * j) * rate = 2 * p
    BY SMT
  <1> HIDE DEF n
  <1>7. j + 1 <= up
    BY <1>3, <1>4, MixAssumption DEF Least
  <1>8. p < a
    <2>1. ((j + 1) - 1) * rate < a
      BY <1>2, <1>7, RoundedUp
    <2> QED  BY <2>1
  <1>9. 2 * p < (2 * n) * AudioRate
    <2>1. (2 * n) * AudioRate = 2 * a
      BY <1>1, MixAssumption, SMT
    <2> HIDE DEF a, p
    <2> QED  BY <1>2, <1>3, <1>8, <2>1
  <1> DEFINE q == (2 * p) \div AudioRate
  <1>10. q < 2 * n /\ q \in Nat
    <2> HIDE DEF p
    <2>1. 2 * p \in Nat /\ 2 * n \in Nat
      BY <1>1, <1>3
    <2> QED  BY <1>9, <2>1, MixAssumption, QuotientBelow, Quotient
  <1> HIDE DEF q
  <1>11. q \div 2 < n
    BY <1>1, <1>10
  <1> QED  BY <1>5, <1>6, <1>11 DEF q, n

\* buffer_length is a whole number of frames, and no longer than the duration of
\* the output buffer.
LEMMA BufferFrames ==
  ASSUME NEW f \in Formats, NEW rate \in Nat
  PROVE  /\ BufferLength(f, rate) \in Nat
         /\ BufferLength(f, rate) % FrameBytes(f) = 0
         /\ 4 * (BufferLength(f, rate) \div FrameBytes(f)) <= (BufOctets * rate) \div AudioRate
  <1> DEFINE whole == (BufOctets * rate) \div AudioRate
  <1>1. whole \in Nat
    BY MixAssumption, ProductNat, Quotient
  <1>2. BufferLengthExact(f, rate) =
          IF f.bits = 8 THEN (IF f.chan = 1 THEN (whole \div 2) \div 2 ELSE whole \div 2)
          ELSE (IF f.chan = 1 THEN whole \div 2 ELSE whole)
    BY DEF BufferLengthExact
  <1> HIDE DEF whole
  <1>3. CASE FrameBytes(f) = 1
    BY <1>1, <1>2, <1>3, FrameSizes DEF BufferLength, whole
  <1>4. CASE FrameBytes(f) = 2
    BY <1>1, <1>2, <1>4, FrameSizes DEF BufferLength, whole
  <1>5. CASE FrameBytes(f) = 4
    BY <1>1, <1>2, <1>5, FrameSizes DEF BufferLength, whole
  <1> QED  BY <1>3, <1>4, <1>5, FrameSizes

\* What is read for a frame of a stream is among the frames of a full mix.
LEMMA TranslateReadsMix ==
  ASSUME NEW f \in Formats, NEW rate \in Nat \ {0}, NEW d \in Nat,
         d < BufferLength(f, rate) \div FrameBytes(f)
  PROVE  SourceFrame(f, d, AudioRate, rate) \in Nat
         /\ SourceFrame(f, d, AudioRate, rate) < BufOctets \div 4
  <1> DEFINE blocks == BufOctets \div 4
             frames == BufferLength(f, rate) \div FrameBytes(f)
             whole == (BufOctets * rate) \div AudioRate
             p == d * AudioRate
             b == blocks * rate
  <1>1. blocks \in Nat /\ BufOctets = 4 * blocks
    BY MixAssumption
  <1>2. BufOctets * rate = 4 * b
    BY <1>1, SMT
  <1>3. p \in Nat /\ b \in Nat
    BY <1>1, MixAssumption, ProductNat
  <1>4. whole \in Nat /\ AudioRate * whole <= BufOctets * rate
    BY MixAssumption, ProductNat, Quotient
  <1>5. frames \in Nat /\ 4 * frames <= whole
    BY BufferFrames, FrameSizes, Quotient
  <1>6. d < frames
    OBVIOUS
  <1> HIDE DEF blocks, frames, whole
  <1>7. 4 * (d + 1) * AudioRate <= whole * AudioRate
    <2>1. 4 * (d + 1) <= whole
      BY <1>4, <1>5, <1>6
    <2> QED  BY <1>4, <2>1, MixAssumption, SMT
  <1>8. p < b
    <2>1. 4 * (d + 1) * AudioRate = 4 * p + 4 * AudioRate
      BY MixAssumption, SMT
    <2>2. whole * AudioRate = AudioRate * whole
      BY <1>4, MixAssumption, SMT
    <2> DEFINE w == whole * AudioRate
    <2>3. 4 * p + 4 * AudioRate <= w /\ w <= 4 * b
      BY <1>2, <1>4, <1>7, <2>1, <2>2
    <2>4. w \in Nat
      BY <1>4, MixAssumption, ProductNat
    <2> HIDE DEF w, p, b
    <2> QED  BY <1>3, <2>3, <2>4, MixAssumption
  <1>9. SourceFrame(f, d, AudioRate, rate) < blocks
    <2>1. CASE f.chan = 1
      BY <1>1, <1>3, <1>8, <2>1, QuotientBelow DEF SourceFrame
    <2>2. CASE f.chan # 1
      <3> DEFINE q == (2 * p) \div rate
      <3>1. 2 * d * AudioRate = 2 * p
        BY MixAssumption, SMT
      <3>2. 2 * p < (2 * blocks) * rate
        <4>1. (2 * blocks) * rate = 2 * b
          BY <1>1, SMT
        <4> HIDE DEF p, b
        <4> QED  BY <1>3, <1>8, <4>1
      <3>3. q < 2 * blocks /\ q \in Nat
        <4> HIDE DEF p
        <4>1. 2 * p \in Nat /\ 2 * blocks \in Nat
          BY <1>1, <1>3
        <4> QED  BY <3>2, <4>1, QuotientBelow, Quotient
      <3>4. SourceFrame(f, d, AudioRate, rate) = q \div 2
        BY <2>2, <3>1 DEF SourceFrame
      <3> HIDE DEF q
      <3> QED  BY <1>1, <3>3, <3>4
    <2> QED  BY <2>1, <2>2
  <1>10. SourceFrame(f, d, AudioRate, rate) \in Nat
    <2>1. (d * AudioRate) \div rate \in Nat
      BY <1>3, Quotient
    <2>2. (2 * d * AudioRate) \div rate \in Nat
      BY <1>3, MixAssumption, ProductNat, Quotient
    <2>3. ((2 * d * AudioRate) \div rate) \div 2 \in Nat
      BY <2>2, Quotient
    <2> QED  BY <2>1, <2>3 DEF SourceFrame
  <1> QED  BY <1>9, <1>10 DEF blocks

\* mix_and_copy() for a monitor, a recorder or the first filter fills the
\* stream's buffer and reads inside the output buffer, whatever the stream's
\* rate and format.
THEOREM TranslateReadsInside ==
  ASSUME NEW f \in Formats, NEW rate \in Nat \ {0}, NEW d \in Nat,
         d < BufferLength(f, rate) \div FrameBytes(f)
  PROVE  SourceFrame(f, d, AudioRate, rate) < BufOctets \div FrameBytes(AudioFormat)
  <1> DEFINE frame == SourceFrame(f, d, AudioRate, rate)
  <1>1. frame \in Nat /\ frame < BufOctets \div 4
    BY TranslateReadsMix
  <1> HIDE DEF frame
  <1>2. BufOctets \in Nat /\ FrameBytes(AudioFormat) \in {2, 4}
    BY MixAssumption, OutputFormat
  <1>3. frame < BufOctets \div FrameBytes(AudioFormat)
    BY <1>1, <1>2
  <1> QED  BY <1>3 DEF frame

\* A frame of the source stands at or before the time of the destination's.
LEMMA SourceFrameBefore ==
  ASSUME NEW f \in Formats, NEW d \in Nat, NEW rs \in Nat, NEW rd \in Nat \ {0}
  PROVE  SourceFrame(f, d, rs, rd) \in Nat /\ SourceFrame(f, d, rs, rd) * rd <= d * rs
  <1> DEFINE p == d * rs
  <1>1. p \in Nat
    BY ProductNat
  <1>2. CASE f.chan = 1
    <2>1. SourceFrame(f, d, rs, rd) = p \div rd
      BY <1>2 DEF SourceFrame
    <2> DEFINE q == p \div rd
    <2>2. q \in Nat /\ rd * q <= p
      BY <1>1, Quotient
    <2> HIDE DEF q, p
    <2>3. q * rd = rd * q
      BY <2>2, SMT
    <2> QED  BY <2>1, <2>2, <2>3 DEF q, p
  <1>3. CASE f.chan # 1
    <2> DEFINE h == (2 * p) \div rd
               q == h \div 2
    <2>1. 2 * d * rs = 2 * p
      BY SMT
    <2>2. SourceFrame(f, d, rs, rd) = q
      BY <1>3, <2>1 DEF SourceFrame
    <2>3. h \in Nat /\ rd * h <= 2 * p
      <3> HIDE DEF p
      <3> QED  BY <1>1, Quotient
    <2> HIDE DEF h
    <2>4. q \in Nat /\ 2 * q <= h
      BY <2>3
    <2> HIDE DEF q, p
    <2> DEFINE x == q * rd
               y == rd * h
    <2>5. (2 * q) * rd <= h * rd
      BY <2>3, <2>4, SMT
    <2>6. (2 * q) * rd = 2 * x /\ h * rd = y /\ x \in Nat /\ y \in Nat
      BY <2>3, <2>4, SMT
    <2> HIDE DEF x, y
    <2>7. x <= p
      BY <1>1, <2>3, <2>5, <2>6 DEF y
    <2> QED  BY <2>2, <2>4, <2>7 DEF x, p
  <1> QED  BY <1>2, <1>3

\* The whole frames in the duration of the output buffer: the next one ends
\* after it.
LEMMA ExactDuration ==
  ASSUME NEW f \in Formats, NEW rate \in Nat
  PROVE  /\ BufferLengthExact(f, rate) \div FrameBytes(f) \in Nat
         /\ 4 * ((BufferLengthExact(f, rate) \div FrameBytes(f)) + 1) * AudioRate > BufOctets * rate
  <1> DEFINE all == BufOctets * rate
             whole == all \div AudioRate
             x == BufferLengthExact(f, rate) \div FrameBytes(f)
  <1>1. all \in Nat
    BY MixAssumption, ProductNat
  <1>2. whole \in Nat /\ all % AudioRate < AudioRate /\ all = AudioRate * whole + (all % AudioRate)
        /\ all % AudioRate \in Nat
    <2> HIDE DEF all
    <2> QED  BY <1>1, MixAssumption, Quotient
  <1>3. BufferLengthExact(f, rate) =
          IF f.bits = 8 THEN (IF f.chan = 1 THEN (whole \div 2) \div 2 ELSE whole \div 2)
          ELSE (IF f.chan = 1 THEN whole \div 2 ELSE whole)
    BY DEF BufferLengthExact
  <1> HIDE DEF whole, all
  <1>4. x \in Nat /\ whole < 4 * (x + 1)
    <2>1. CASE FrameBytes(f) = 1
      BY <1>2, <1>3, <2>1, FrameSizes
    <2>2. CASE FrameBytes(f) = 2
      BY <1>2, <1>3, <2>2, FrameSizes
    <2>3. CASE FrameBytes(f) = 4
      BY <1>2, <1>3, <2>3, FrameSizes
    <2> QED  BY <2>1, <2>2, <2>3, FrameSizes
  <1> HIDE DEF x
  <1> DEFINE r == all % AudioRate
             m == AudioRate * whole
             n == 4 * (x + 1) * AudioRate
  <1>5. r \in Nat /\ r < AudioRate /\ all = m + r /\ m \in Nat /\ n \in Nat
    BY <1>2, <1>4, MixAssumption, SMT
  <1>6. m + AudioRate <= n
    <2>1. whole + 1 <= 4 * (x + 1)
      BY <1>2, <1>4
    <2>2. (whole + 1) * AudioRate <= n
      BY <1>2, <1>4, <2>1, MixAssumption, SMT
    <2>3. (whole + 1) * AudioRate = m + AudioRate
      BY <1>2, MixAssumption, SMT
    <2> QED  BY <2>2, <2>3
  <1> HIDE DEF r, m, n
  <1>7. n > all
    BY <1>1, <1>5, <1>6, MixAssumption
  <1> QED  BY <1>4, <1>7 DEF n, all, x

\* The translation from a filter to the next one or to the output: for a frame
\* whose end is inside the duration of the output buffer, no frame of the source
\* is read behind the one that the end of this duration cuts.
THEOREM BlockReadsNear ==
  ASSUME NEW src \in Formats, NEW rs \in Nat \ {0}, NEW dst \in Formats,
         NEW rd \in Nat \ {0}, NEW d \in Nat, 4 * (d + 1) * AudioRate <= BufOctets * rd
  PROVE  SourceFrame(dst, d, rs, rd) <= BufferLengthExact(src, rs) \div FrameBytes(src)
  <1> DEFINE q == SourceFrame(dst, d, rs, rd)
             x == BufferLengthExact(src, rs) \div FrameBytes(src)
             blocks == BufOctets \div 4
  <1>1. q \in Nat /\ q * rd <= d * rs
    BY SourceFrameBefore
  <1>2. x \in Nat /\ 4 * (x + 1) * AudioRate > BufOctets * rs
    BY ExactDuration
  <1>3. blocks \in Nat /\ BufOctets = 4 * blocks
    BY MixAssumption
  <1> HIDE DEF q, x, blocks
  <1>4. (x + 1) * AudioRate > blocks * rs
    <2> DEFINE y == (x + 1) * AudioRate
               z == blocks * rs
    <2>1. 4 * (x + 1) * AudioRate = 4 * y /\ BufOctets * rs = 4 * z /\ y \in Nat /\ z \in Nat
      BY <1>2, <1>3, MixAssumption, SMT
    <2> HIDE DEF y, z
    <2>2. y > z
      BY <1>2, <2>1
    <2> QED  BY <2>2 DEF y, z
  <1>5. (d + 1) * AudioRate <= blocks * rd
    <2> DEFINE y == (d + 1) * AudioRate
               z == blocks * rd
    <2>1. 4 * (d + 1) * AudioRate = 4 * y /\ BufOctets * rd = 4 * z /\ y \in Nat /\ z \in Nat
      BY <1>3, MixAssumption, SMT
    <2> HIDE DEF y, z
    <2>2. y <= z
      BY <2>1
    <2> QED  BY <2>2 DEF y, z
  <1>6. SUFFICES ASSUME x + 1 <= q PROVE FALSE
    BY <1>1, <1>2 DEF q, x
  <1> DEFINE y == q * AudioRate
             z == blocks * rs
  <1>7. y \in Nat /\ z \in Nat
    BY <1>1, <1>3, MixAssumption, ProductNat
  <1>8. y > z
    <2>1. (x + 1) * AudioRate <= q * AudioRate
      BY <1>1, <1>2, <1>6, MixAssumption, SMT
    <2> DEFINE w == (x + 1) * AudioRate
    <2>2. w \in Nat
      BY <1>2, MixAssumption, SMT
    <2> HIDE DEF w, y, z
    <2> QED  BY <1>4, <1>7, <2>1, <2>2 DEF w, y, z
  <1>9. y * rd < z * rd
    <2> DEFINE g == q * rd
               h == d * rs
               e == (d + 1) * AudioRate
    <2>1. g \in Nat /\ h \in Nat /\ e \in Nat
      BY <1>1, MixAssumption, SMT
    <2>2. g * AudioRate <= h * AudioRate
      BY <1>1, <2>1, MixAssumption, SMT
    <2>3. y * rd = g * AudioRate
      BY <1>1, MixAssumption, SMT
    <2>4. h * AudioRate < e * rs
      <3>1. e * rs = h * AudioRate + AudioRate * rs
        BY MixAssumption, SMT
      <3>2. AudioRate * rs > 0
        BY MixAssumption, SMT
      <3>3. h * AudioRate \in Nat /\ AudioRate * rs \in Nat
        BY <2>1, MixAssumption, ProductNat
      <3> QED  BY <3>1, <3>2, <3>3
    <2>5. e * rs <= (blocks * rd) * rs
      <3> DEFINE k == blocks * rd
      <3>1. k \in Nat /\ e <= k
        BY <1>3, <1>5, ProductNat
      <3> HIDE DEF k, e
      <3>2. e * rs <= k * rs
        BY <2>1, <3>1, SMT
      <3> QED  BY <3>2 DEF k
    <2>6. (blocks * rd) * rs = z * rd
      BY <1>3, SMT
    <2>7. g * AudioRate \in Nat /\ h * AudioRate \in Nat /\ e * rs \in Nat /\ z * rd \in Nat
      BY <1>7, <2>1, MixAssumption, ProductNat
    <2> HIDE DEF g, h, e, z, y
    <2> QED  BY <2>2, <2>3, <2>4, <2>5, <2>6, <2>7
  <1>10. z * rd <= y * rd
    <2> HIDE DEF y, z
    <2> QED  BY <1>7, <1>8, SMT
  <1> QED
    <2>1. z * rd \in Nat /\ y * rd \in Nat
      BY <1>7, ProductNat
    <2> QED  BY <1>9, <1>10, <2>1

----------------------------------------------------------------------------
(* Samples.                                                                *)

\* However many players are added up, the sum is clipped to the range of the
\* output and never turns around: more is never less.
THEOREM OutputMonotone ==
  ASSUME NEW v \in Int, NEW w \in Int, v <= w
  PROVE  /\ Output(v) <= Output(w)
         /\ AudioFormat.bits = 16 => Output(v) \in Int /\ -32768 <= Output(v) /\ Output(v) <= 32767
         /\ AudioFormat.bits # 16 => Output(v) \in 0 .. 255
  <1>1. \A x \in Int : Clip16(x) \in Int /\ -32768 <= Clip16(x) /\ Clip16(x) <= 32767
    BY DEF Clip16
  <1>2. Clip16(v) <= Clip16(w)
    BY DEF Clip16
  <1>3. Clip8(v) <= Clip8(w) /\ Clip8(v) \in 0 .. 255
    BY DEF Clip8, UChar, CDiv
  <1>4. CASE AudioFormat.bits = 16
    BY <1>1, <1>2, <1>4 DEF Output
  <1>5. CASE AudioFormat.bits # 16
    BY <1>3, <1>5 DEF Output
  <1> QED  BY <1>4, <1>5

\* The frame <<v, v>> comes out as one value on every channel.
LEMMA SameOnAll ==
  ASSUME NEW fn, NEW dst, NEW v,
         Narrowed(fn, dst, v) \in Int
  PROVE  TranslateFrame(fn, dst, v, v) =
           IF dst.chan = 1 THEN <<Stored(dst, Narrowed(fn, dst, v))>>
           ELSE <<Stored(dst, Narrowed(fn, dst, v)), Stored(dst, Narrowed(fn, dst, v))>>
  <1> DEFINE n == Narrowed(fn, dst, v)
  <1> HIDE DEF n
  <1>1. CDiv(n + n, 2) = n
    BY DEF CDiv, n
  <1> QED  BY <1>1 DEF TranslateFrame, n

\* A sample of format f, but for 255 of 8 bits, which does not fit a short when
\* it is widened.
InShort(w) == w \in Int /\ -32768 <= w /\ w <= 32767
Sample(f, v) == IF f.bits = 8 THEN v \in 0 .. 254 ELSE InShort(v)

\* A sample of the output that goes to a filter in the filter's format and comes
\* back is off by less than 256: the low byte at most is lost, at the ends of the
\* range too, where an 8 bit sample or a short would wrap around.
THEOREM RoundTripClose ==
  ASSUME NEW f \in [bits : {8, 16}, chan : {1, 2}], NEW v, Sample(AudioFormat, v),
         NEW there, there = TranslateFrame(TranslateFunc(AudioFormat), f, v, v),
         NEW i \in DOMAIN there, NEW k \in DOMAIN there,
         NEW back, back = TranslateFrame(TranslateFunc(f), AudioFormat, there[i], there[k]),
         NEW j \in DOMAIN back
  PROVE  back[j] \in Int /\ -256 < back[j] - v /\ back[j] - v < 256
  <1> DEFINE n == Narrowed(TranslateFunc(AudioFormat), f, v)
             x == Stored(f, n)
             m == Narrowed(TranslateFunc(f), AudioFormat, x)
             y == Stored(AudioFormat, m)
  <1>1. n \in Int /\ x \in Int /\ m \in Int /\ y \in Int /\ -256 < y - v /\ y - v < 256
    <2>1. CASE AudioFormat.bits = 16
      <3>1. v \in Int /\ -32768 <= v /\ v <= 32767
        BY <2>1 DEF Sample, InShort
      <3>2. CASE f.bits = 8
        BY <2>1, <3>1, <3>2 DEF Stored, Narrowed, TranslateFunc, UChar, Short, CDiv
      <3>3. CASE f.bits = 16
        BY <2>1, <3>1, <3>3 DEF Stored, Narrowed, TranslateFunc, UChar, Short, CDiv
      <3> QED  BY <3>2, <3>3
    <2>2. CASE AudioFormat.bits = 8
      <3>1. v \in 0 .. 254
        BY <2>2 DEF Sample
      <3>2. CASE f.bits = 8
        BY <2>2, <3>1, <3>2 DEF Stored, Narrowed, TranslateFunc, UChar, Short, CDiv
      <3>3. CASE f.bits = 16
        BY <2>2, <3>1, <3>3 DEF Stored, Narrowed, TranslateFunc, UChar, Short, CDiv
      <3> QED  BY <3>2, <3>3
    <2> QED  BY <2>1, <2>2, MixAssumption
  <1>2. there = IF f.chan = 1 THEN <<x>> ELSE <<x, x>>
    BY <1>1, SameOnAll
  <1> HIDE DEF x
  <1>3. there[i] = x /\ there[k] = x
    BY <1>2
  <1>4. AudioFormat.chan # 1
    BY MixAssumption
  <1>5. back = <<y, y>>
    BY <1>1, <1>3, <1>4, SameOnAll
  <1> HIDE DEF y
  <1>6. back[j] = y
    BY <1>5
  <1> QED  BY <1>1, <1>6

\* w scaled by a volume.
Scaled(w, vol) == CDiv(w * vol, VolumeBase)

\* Up to ESD_VOLUME_BASE, scaling stays in a short and keeps the order.
LEMMA ScaledShort ==
  ASSUME NEW w, InShort(w), NEW vol \in 0 .. 256
  PROVE  InShort(Scaled(w, vol)) /\ Short(Scaled(w, vol)) = Scaled(w, vol)
  <1> DEFINE p == w * vol
  <1>1. p \in Int /\ -32768 * 256 <= p /\ p <= 32767 * 256
    <2>1. p \in Int
      BY DEF InShort
    <2>2. CASE w >= 0
      <3>1. 0 <= p /\ p <= w * 256
        BY <2>2, SMT DEF InShort
      <3> QED  BY <2>1, <3>1 DEF InShort
    <2>3. CASE w < 0
      <3>1. w * 256 <= p /\ p <= 0
        BY <2>3, SMT DEF InShort
      <3> QED  BY <2>1, <3>1 DEF InShort
    <2> QED  BY <2>2, <2>3 DEF InShort
  <1> HIDE DEF p
  <1>2. Scaled(w, vol) = CDiv(p, 256)
    BY DEF Scaled, VolumeBase, p
  <1>3. InShort(CDiv(p, 256))
    BY <1>1 DEF InShort, CDiv
  <1>4. \A x : InShort(x) => Short(x) = x
    BY DEF InShort, Short
  <1> QED  BY <1>2, <1>3, <1>4

LEMMA ScaledMonotone ==
  ASSUME NEW v, InShort(v), NEW w, InShort(w), v <= w, NEW vol \in 0 .. 256
  PROVE  Scaled(v, vol) <= Scaled(w, vol)
  <1> DEFINE p == v * vol
             q == w * vol
  <1>1. p \in Int /\ q \in Int /\ p <= q
    BY SMT DEF InShort
  <1> HIDE DEF p, q
  <1>2. CDiv(p, 256) <= CDiv(q, 256)
    BY <1>1 DEF CDiv
  <1> QED  BY <1>2 DEF Scaled, VolumeBase, p, q

LEMMA ScaledWhole ==
  ASSUME NEW w, InShort(w)
  PROVE  Scaled(w, 256) = w /\ Short(w) = w
  BY DEF InShort, Scaled, VolumeBase, CDiv, Short

LEMMA WidenedShort ==
  ASSUME NEW f, NEW v, Sample(f, v)
  PROVE  /\ InShort(Widened(f, v))
         /\ Widened(f, v) = IF f.bits = 8 THEN (v - 127) * 256 ELSE v
  BY DEF Sample, Widened, Short, InShort

\* The functions without volume control give what those with volume control
\* give at ESD_VOLUME_BASE, for every sample: choosing one or the other when a
\* stream is panned is not heard.
THEOREM PlainEqualsScaled ==
  ASSUME NEW f \in [bits : {8, 16}, chan : {1, 2}], NEW l, NEW r, Sample(f, l), Sample(f, r),
         f.chan = 1 => l = r
  PROVE  Contribution([format |-> f, sv |-> TRUE], l, r, VolumeBase, VolumeBase)
           = Contribution([format |-> f, sv |-> FALSE], l, r, VolumeBase, VolumeBase)
  <1> DEFINE wl == Widened(f, l)
             wr == Widened(f, r)
  <1>1. InShort(wl) /\ InShort(wr)
    BY WidenedShort
  <1>2. f.chan = 1 => wl = wr
    OBVIOUS
  <1> HIDE DEF wl, wr
  <1>3. /\ CDiv(wl * VolumeBase, VolumeBase) = wl /\ Short(wl) = wl
        /\ CDiv(wr * VolumeBase, VolumeBase) = wr /\ Short(wr) = wr
    BY <1>1, ScaledWhole DEF Scaled, VolumeBase
  <1> QED  BY <1>2, <1>3 DEF Contribution, wl, wr

\* The output grows with the sample of a player, whatever the others add, for
\* every format and all volumes up to ESD_VOLUME_BASE: no sample wraps around on
\* its way into the mix buffer.
THEOREM ContributionMonotone ==
  ASSUME NEW mf, mf.format \in [bits : {8, 16}, chan : {1, 2}],
         NEW v \in Int, NEW w \in Int, Sample(mf.format, v), Sample(mf.format, w), v <= w,
         NEW left \in 0 .. 256, NEW right \in 0 .. 256, NEW i \in {1, 2}, NEW others \in Int
  PROVE  /\ InShort(Contribution(mf, v, v, left, right)[i])
         /\ Output(others + Contribution(mf, v, v, left, right)[i])
              <= Output(others + Contribution(mf, w, w, left, right)[i])
  <1> DEFINE f == mf.format
             a == Contribution(mf, v, v, left, right)
             b == Contribution(mf, w, w, left, right)
             x == Widened(f, v)
             y == Widened(f, w)
  <1>1. InShort(x) /\ InShort(y) /\ x <= y
    <2>1. InShort(x) /\ InShort(y)
      BY WidenedShort
    <2>2. /\ x = IF f.bits = 8 THEN (v - 127) * 256 ELSE v
          /\ y = IF f.bits = 8 THEN (w - 127) * 256 ELSE w
      BY WidenedShort
    <2> HIDE DEF x, y
    <2>3. x <= y
      <3>1. CASE f.bits = 8
        <4>1. v \in 0 .. 254 /\ w \in 0 .. 254
          BY <3>1 DEF Sample
        <4>2. x = (v - 127) * 256 /\ y = (w - 127) * 256
          BY <2>2, <3>1
        <4> QED  BY <4>1, <4>2
      <3>2. CASE f.bits # 8
        BY <2>2, <3>2
      <3> QED  BY <3>1, <3>2
    <2> QED  BY <2>1, <2>3
  <1> DEFINE Out(z) == IF mf.sv THEN <<z, z>>
                       ELSE IF f.chan = 1 /\ f.bits = 8
                       THEN <<Short(Scaled(Short(Scaled(z, left)), right)),
                              Short(Scaled(Short(Scaled(z, left)), right))>>
                       ELSE IF f.chan = 1 THEN <<Scaled(z, left), Scaled(z, right)>>
                       ELSE <<Short(Scaled(z, left)), Short(Scaled(z, right))>>
  <1>2. a = Out(x) /\ b = Out(y)
    BY DEF Contribution, Scaled
  <1> HIDE DEF x, y
  <1> DEFINE xl == Scaled(x, left)
             yl == Scaled(y, left)
             xr == Scaled(x, right)
             yr == Scaled(y, right)
  <1>3. /\ InShort(xl) /\ Short(xl) = xl /\ InShort(yl) /\ Short(yl) = yl
        /\ InShort(xr) /\ Short(xr) = xr /\ InShort(yr) /\ Short(yr) = yr
        /\ xl <= yl /\ xr <= yr
    <2>1. InShort(xl) /\ Short(xl) = xl /\ InShort(yl) /\ Short(yl) = yl
      BY <1>1, ScaledShort
    <2>2. InShort(xr) /\ Short(xr) = xr /\ InShort(yr) /\ Short(yr) = yr
      BY <1>1, ScaledShort
    <2>3. xl <= yl /\ xr <= yr
      BY <1>1, ScaledMonotone
    <2> QED  BY <2>1, <2>2, <2>3
  <1>4. /\ InShort(Scaled(xl, right)) /\ Short(Scaled(xl, right)) = Scaled(xl, right)
        /\ InShort(Scaled(yl, right)) /\ Short(Scaled(yl, right)) = Scaled(yl, right)
        /\ Scaled(xl, right) <= Scaled(yl, right)
    <2> HIDE DEF xl, yl
    <2> QED  BY <1>3, ScaledShort, ScaledMonotone
  <1>5. InShort(a[i]) /\ InShort(b[i]) /\ a[i] <= b[i]
    BY <1>1, <1>2, <1>3, <1>4
  <1> HIDE DEF a, b
  <1> DEFINE m == others + a[i]
             n == others + b[i]
  <1>6. m \in Int /\ n \in Int /\ m <= n
    BY <1>5 DEF InShort
  <1> HIDE DEF m, n
  <1>7. Output(m) <= Output(n)
    BY <1>6, OutputMonotone
  <1> QED  BY <1>5, <1>7 DEF m, n, a, b
============================================================================
