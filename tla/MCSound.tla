------------------------------ MODULE MCSound ------------------------------
(* Instances of Sound: a memory with two songs and the envelopes they use.   *)
EXTENDS Sound

\* Address 0 stands for the zero page, where a channel that never made a
\* call is sent by a ReturnAll; it is taken to hold the end of a stream.
End == [op |-> "end"]
Songs ==
  [a \in 0 .. 23 |-> IF a = 0 THEN End ELSE <<
    \* a tune that calls a pattern, then plays a note with an attack twice
    [op |-> "instr", vol |-> 40, max |-> 100],
    [op |-> "call", to |-> 14],
    [op |-> "env", env |-> 1],
    [op |-> "loop", count |-> 2],
    [op |-> "note", dur |-> 2, pitch |-> 1],
    [op |-> "do"],
    End,
    \* a voice with a tremolo and a sweep, louder than the chip can play
    [op |-> "instr", vol |-> 127, max |-> 255],
    [op |-> "call", to |-> 16],
    [op |-> "sweep", on |-> TRUE],
    [op |-> "note", dur |-> 3, pitch |-> 0],
    [op |-> "off"],
    End,
    \* the pattern that takes all voices back, and the one that does not
    [op |-> "note", dur |-> 2, pitch |-> 0],
    [op |-> "retall"],
    [op |-> "env", env |-> 2],
    [op |-> "note", dur |-> 0, pitch |-> 1],
    [op |-> "pause", dur |-> 2],
    [op |-> "ret"],
    \* a note with a frequency envelope
    [op |-> "instr", vol |-> 64, max |-> 64],
    [op |-> "sweep", on |-> TRUE],
    [op |-> "note", dur |-> 2, pitch |-> 0],
    End>>[a]]

TwoSongs == {1, 8}
SweepSong == {20}

\* An attack that lasts two ticks and dies away, and a tremolo that loops.
SomeEnvelopes == <<[parts |-> <<<<2, 40>>, <<1, -8>>>>, loop |-> 0],
                   [parts |-> <<<<1, 60>>, <<1, -60>>>>, loop |-> 1]>>
=============================================================================
