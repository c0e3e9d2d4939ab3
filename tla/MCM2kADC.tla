------------------------------ MODULE MCM2kADC ------------------------------
EXTENDS M2kADC

\* Lengths that divide neither each other nor a window; values divisible by 2.
MCBuffers == {<<2, 4>>, <<6, -8, 10>>}
\* Rate, ratio of a rate of 0, and oversampling ratio: 4 is the full rate, 2 half
\* of it; 8 exceeds it.
MCTimings == {<<2, 0, 1>>, <<4, 0, 1>>, <<4, 0, 2>>, <<8, 0, 1>>}
\* An oversampling ratio of 0, and a rate of 0 with both ratios.
MCZeros == {<<4, 0, 0>>, <<0, 0, 1>>, <<0, 2, 1>>}
MCCompensation == [rate \in {2, 4} |-> IF rate = 4 THEN 1 ELSE 2]
MCGain == [range \in {"high", "low"} |-> IF range = "high" THEN 3 ELSE 1]
\* Some codes are outside.
MCShorts == (-40)..40
\* Equal ranges, both kinds of different ones, an unknown one; and offsets that
\* are zero, differ between the channels in raw and calibbias, or are out of range.
MCRanges == {<<"high", "high">>, <<"high", "low">>, <<"low", "high">>, <<"other", "low">>}
Zero == << <<0, 0>>, <<0, 0>> >>
Different == << <<9, 20>>, <<2, 5>> >>
OutOfRange == << <<50, 20>>, <<2, 5>> >>

MCDocument(t, range, o, parses) ==
    [rate |-> t[1], zero_ratio |-> t[2], oversampling |-> t[3], range |-> range,
     raw |-> o[1], calibbias |-> o[2], parses |-> parses]
\* Every timing with every range, and apart: timings with zeros, the other
\* offsets, an oversampling ratio that is no number.
MCDocuments ==
    LET t == <<4, 0, 1>>
        range == <<"high", "low">>
    IN  {MCDocument(u, r, Different, TRUE) : u \in MCTimings, r \in MCRanges}
            \cup {MCDocument(u, range, Different, TRUE) : u \in MCZeros}
            \cup {MCDocument(t, range, o, TRUE) : o \in {Zero, OutOfRange}}
            \cup {MCDocument(t, range, Different, FALSE)}
=============================================================================
