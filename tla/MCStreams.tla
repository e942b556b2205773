----------------------------- MODULE MCStreams -----------------------------
EXTENDS Streams, TLC

F(b, n) == [bits |-> b, chan |-> n]
Stereo16 == F(16, 2)

\* The format of the output at a lower rate; mono 8 bit at a higher one that does
\* not divide the duration of the buffer into whole frames and fills it; a rate so
\* low that the buffer is empty; a format of neither kind.
SomeSources == {[format |-> F(16, 2), rate |-> 2], [format |-> F(8, 1), rate |-> 7],
                [format |-> F(8, 1), rate |-> 2], [format |-> F(0, 2), rate |-> 2]}
\* Softer on one side, as at first, and turned over on one side.
SomePans == {<<128, 256>>, <<256, 256>>, <<-256, 256>>}

SlotSymmetry == Permutations(Clients)
============================================================================
