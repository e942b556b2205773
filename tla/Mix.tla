-------------------------------- MODULE Mix --------------------------------
(***************************************************************************)
(* The arithmetic of mix.c: how many frames a player has to give, which of *)
(* its samples are read for which sample of the output, how a sample is    *)
(* widened, scaled, added and clipped, and how the sound is translated for *)
(* monitors, recorders and filters.  Each C function is a loop over the    *)
(* samples of the output; an operator gives what one turn of it computes.  *)
(***************************************************************************)
EXTENDS Integers

CONSTANTS AudioRate,    \* esd_audio_rate
          AudioFormat,  \* esd_audio_format
          BufOctets     \* esd_buf_size_octets, the size of the output buffer

\* esd_format_t: bits per sample and channels, 0 for a code that is neither.
Formats == [bits : {0, 8, 16}, chan : {0, 1, 2}]

\* The daemon asks the device for 8 or 16 bits, and for ESD_STEREO or nothing; a
\* block is ESD_BUF_SIZE or a fragment of the device, a power of two.
ASSUME MixAssumption ==
    /\ AudioRate \in Nat \ {0}
    /\ AudioFormat \in [bits : {8, 16}, chan : {0, 2}]
    /\ BufOctets \in Nat /\ BufOctets % 4 = 0

\* ESD_VOLUME_BASE.
VolumeBase == 256

Least(a, b) == IF a < b THEN a ELSE b

\* C's division of an int by a positive int: towards zero.
CDiv(a, b) == IF a >= 0 THEN a \div b ELSE -((-a) \div b)

\* Assignment to a signed short and to an unsigned char.
Short(x) == ((x + 32768) % 65536) - 32768
UChar(x) == x % 256

\* iBps, and the same in frames for buffer lengths: bytes of one frame.
FrameBytes(f) == (IF f.bits = 8 THEN 1 ELSE 2) * (IF f.chan = 1 THEN 1 ELSE 2)

----------------------------------------------------------------------------
(* Lengths.                                                                *)

\* Octets of the duration of the output buffer.
BufferLengthExact(f, rate) ==
    LET whole == (BufOctets * rate) \div AudioRate
        sized == IF f.bits = 8 THEN whole \div 2 ELSE whole
    IN  IF f.chan = 1 THEN sized \div 2 ELSE sized

\* buffer_length of a stream: the duration of the output buffer.
BufferLength(f, rate) ==
    LET exact == BufferLengthExact(f, rate)
    IN  exact - (exact % 4)

\* Mutant: one frame too many.
TranslatedUp(f, rate, len) ==
    Least(4 * (((len \div FrameBytes(f)) * AudioRate + rate) \div rate), BufOctets)

\* Bytes of output that len bytes of data are good for.
Translated(f, rate, len) ==
    Least(4 * (((len \div FrameBytes(f)) * AudioRate + rate - 1) \div rate), BufOctets)

\* Bytes of data that n bytes of output have used up.
Used(f, rate, n) == (((n \div 4) * rate) \div AudioRate) * FrameBytes(f)

----------------------------------------------------------------------------
(* mix_*_to_stereo_32s(): players into the mix buffer.                     *)

\* get_mix_func(): the function for the format, with volume control or without;
\* NULL for a format that cannot be mixed.
NoMixFunc == [format |-> [bits |-> 0, chan |-> 0], sv |-> FALSE]
MixFunc(f, left, right) ==
    IF f.bits \in {8, 16} /\ f.chan \in {1, 2}
    THEN [format |-> f, sv |-> left = VolumeBase /\ right = VolumeBase]
    ELSE NoMixFunc

\* The frame of the data that is read for samples wr and wr + 1 of the output:
\* rd_dat is halved for mono and forced to the left sample for stereo.
ReadFrame(f, rate, wr) == ((wr * rate) \div AudioRate) \div 2

\* A sample as a signed short.
Widened(f, v) == IF f.bits = 8 THEN Short((v - 127) * 256) ELSE v

\* What the frame <<l, r>> of a player adds to the two samples of the output
\* (l = r for a mono player).  Only mono 16 bit is scaled in an int; mono 8 bit
\* is scaled by both volumes on both channels.
Contribution(mf, l, r, left, right) ==
    LET f == mf.format
        wl == Widened(f, l)
        wr == Widened(f, r)
        scaled(w, vol) == CDiv(w * vol, VolumeBase)
        both == Short(scaled(Short(scaled(wl, left)), right))
    IN  IF mf.sv THEN <<wl, wr>>
        ELSE IF f.chan = 1 /\ f.bits = 8 THEN <<both, both>>
        ELSE IF f.chan = 1 THEN <<scaled(wl, left), scaled(wr, right)>>
        ELSE <<Short(scaled(wl, left)), Short(scaled(wr, right))>>

\* clip_mix_to_output_16s() and clip_mix_to_output_8u().
Clip16(m) == IF m < -32768 THEN -32768 ELSE IF m > 32767 THEN 32767 ELSE m
Clip8(m) ==
    IF m < -32768 THEN 0 ELSE IF m > 32767 THEN 255 ELSE UChar(CDiv(m, 256) + 128)

\* Mutant: a sum that does not fit wraps around.
OutputWraps(m) == IF AudioFormat.bits = 16 THEN Short(m) ELSE Clip8(m)

\* What is stored in the output buffer for a sum.
Output(m) == IF AudioFormat.bits = 16 THEN Clip16(m) ELSE Clip8(m)

----------------------------------------------------------------------------
(* mix_from_*(): output to monitors, recorders and filters, and back.      *)

\* get_translate_func() and mix_and_copy(): what the source is taken for.
TranslateFunc(src) ==
    [bits |-> IF src.bits = 16 THEN 16 ELSE 8, chan |-> IF src.chan = 1 THEN 1 ELSE 2]

\* Mutant: the destination's channels are counted twice.
SourceFrameTwice(dst, d, src_rate, dst_rate) == (d * dst.chan * src_rate) \div dst_rate

\* The frame of the source that is read for frame d of the destination; wr_dat
\* counts samples, and rd_dat is adjusted for the channels of either side.
SourceFrame(dst, d, src_rate, dst_rate) ==
    IF dst.chan = 1 THEN (d * src_rate) \div dst_rate
    ELSE ((2 * d * src_rate) \div dst_rate) \div 2

\* What is returned: dest_len, and 0 without source data.
TranslateLength(src_len, dst_len) == IF src_len = 0 THEN 0 ELSE dst_len

\* The samples of the source frame <<l, r>> (l = r for mono) in the width of the
\* destination before they are stored.
Narrowed(fn, dst, v) ==
    IF fn.bits = dst.bits THEN v
    ELSE IF dst.bits = 8 THEN CDiv(v, 256) + 127
    ELSE (v - 127) * 256

\* A value stored in the destination.
Stored(dst, v) == IF dst.bits = 8 THEN UChar(v) ELSE Short(v)

\* Mutant: the two channels are added up for a mono destination.
TranslateFrameSum(fn, dst, l, r) ==
    LET nl == Narrowed(fn, dst, l)
        nr == Narrowed(fn, dst, r)
    IN  IF dst.chan = 1 THEN <<Stored(dst, nl + nr)>>
        ELSE <<Stored(dst, nl), Stored(dst, nr)>>

\* The frame that is stored: the mean of the channels for a mono destination of
\* a stereo source.
TranslateFrame(fn, dst, l, r) ==
    LET nl == Narrowed(fn, dst, l)
        nr == Narrowed(fn, dst, r)
    IN  IF dst.chan = 1 THEN <<Stored(dst, IF fn.chan = 1 THEN nl ELSE CDiv(nl + nr, 2))>>
        ELSE <<Stored(dst, nl), Stored(dst, nr)>>
============================================================================
