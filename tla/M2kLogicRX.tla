----------------------------- MODULE M2kLogicRX -----------------------------
(***************************************************************************)
(* The digital input device of the emulated ADALM2000                      *)
(* (iiod/context/adalm2000/devices/m2k_logic_rx.cpp), wired to M2kLogicTX: *)
(* the digital loop a client sees.  TX repeats each word to reach 100 MS/s, *)
(* RX takes as many samples as its own rate needs and lets the bits of     *)
(* each group vote.                                                        *)
(***************************************************************************)
EXTENDS M2kLogicTX, FiniteSets

CONSTANTS
    Width,      \* bits of a word
    RXRates,    \* values of the RX device's sampling_frequency: 0 stands for any
                \*   text that safe_stod makes no number of, too
    ZeroRatios, \* what converting 1E8 / 0 to an unsigned int, which is undefined,
                \*   may yield: 0 on x86, more on processors that saturate
    Garbage,    \* what lies beyond the end of a vector: it passes for no word
    MaxLen      \* bound: bytes of one READBUF

ASSUME LogicRXAssumption ==
    /\ Width \in Nat \ {0} /\ \A word \in Words : word \subseteq 0..(Width - 1)
    /\ RXRates \subseteq Nat /\ ZeroRatios \subseteq Nat
    /\ Garbage \notin SUBSET (0..(Width - 1)) /\ MaxLen \in Nat

VARIABLES
    rx_frequency,  \* sampling_frequency of the RX device in the XML document
    zero_ratio,    \* the ratio that a rate of 0 gives
    len,           \* the whole words the READBUF under way asks for
    half,          \* 1 if it asks for an odd number of bytes, otherwise 0
    pbuf,          \* the words it answers, <<>> once they are sent; a half word
                   \*   at the end counts as one
    hWords,        \* history: the words that play, as the client wrote them,
                   \*   while they have been read at their own rate only
                   \*   and by READBUFs of whole words
    hNext,         \* history: the 0-based position of the next of them
    hRatio         \* history: the ratio they were resampled with

rx == <<rx_frequency, zero_ratio, len, half, pbuf>>
rxHistory == <<hWords, hNext, hRatio>>
allVars == <<vars, rx, rxHistory>>

RXRatio == IF rx_frequency = 0 THEN zero_ratio ELSE MaxRate \div rx_frequency

Bits == 0..(Width - 1)

\* The vote of one bit over a group: bits_sum.at(k) >= (ratio >> 1).
Majority(group, k) == Cardinality({j \in DOMAIN group : k \in group[j]}) >= Len(group) \div 2

\* Mutant: setBit is one bit off.
digital_decimation_off_by_one(src, ratio) ==
    IF ratio < 2 THEN src
    ELSE [i \in 1..(Len(src) \div ratio) |->
            LET group == SubSeq(src, (i - 1) * ratio + 1, i * ratio)
            IN  {k + 1 : k \in {b \in Bits : Majority(group, b)}}]

digital_decimation(src, ratio) ==
    IF ratio < 2 THEN src
    ELSE [i \in 1..(Len(src) \div ratio) |->
            LET group == SubSeq(src, (i - 1) * ratio + 1, i * ratio)
            IN  {k \in Bits : Majority(group, k)}]

-----------------------------------------------------------------------------
RXInit ==
    /\ Init
    /\ rx_frequency \in RXRates /\ zero_ratio \in ZeroRatios
    /\ len = 0 /\ half = 0 /\ pbuf = <<>>
    /\ hWords = <<>> /\ hNext = 0 /\ hRatio = 1

\* The environment of the device: a client writes the attribute.
WriteRXAttr(rate) ==
    /\ alive /\ cmd = "none" /\ pbuf = <<>>
    /\ rx_frequency' = rate /\ zero_ratio' \in ZeroRatios
    /\ UNCHANGED <<vars, len, half, pbuf, rxHistory>>

\* Mutant: the words asked for are taken for samples.
SamplesToRead_words(bytes_count) == bytes_count \div 2

\* (len / 2) * ratio
SamplesToRead(bytes_count) == (bytes_count \div 2) * RXRatio

\* READBUF: read_dev calls resample, which first takes the samples from TX.
read_dev(bytes_count) ==
    /\ pbuf = <<>>
    /\ BeginRead(SamplesToRead(bytes_count))
    /\ len' = bytes_count \div 2 /\ half' = bytes_count % 2
    /\ IF RXRatio = hRatio /\ half' = 0 THEN UNCHANGED rxHistory
       ELSE hWords' = <<>> /\ hNext' = 0 /\ UNCHANGED hRatio
    /\ UNCHANGED <<rx_frequency, zero_ratio, pbuf>>

\* TX has delivered: decimate and copy; memcpy of bytes_count bytes reads past
\* the end of what decimation left if that is less.
Answer ==
    LET words == digital_decimation(samples, RXRatio)
    IN  /\ EndRead
        /\ pbuf' = [i \in 1..(len + half) |-> IF i <= Len(words) THEN words[i] ELSE Garbage]
        /\ hNext' = IF hWords = <<>> THEN 0 ELSE (hNext + len) % Len(hWords)
        /\ len' = 0
        /\ UNCHANGED <<rx_frequency, zero_ratio, half, hWords, hRatio>>

\* The answer leaves before the next command is handled.
Sent ==
    /\ pbuf # <<>> /\ pbuf' = <<>> /\ half' = 0
    /\ UNCHANGED <<vars, rx_frequency, zero_ratio, len, rxHistory>>

\* The end of a WRITEBUF: the words written become the ones to read.
TXTransfer ==
    /\ pbuf = <<>> /\ transfer_mem_to_dev
    /\ hWords' = IF hClean THEN hWritten ELSE <<>>
    /\ hNext' = 0 /\ hRatio' = IF Ratio < 2 THEN 1 ELSE Ratio
    /\ UNCHANGED rx

\* The TX device's other steps; nothing is owed once it has lost its buffer.
TXStep ==
    /\ pbuf = <<>>
    /\ \/ \E rate \in Rates : WriteAttr(rate)
       \/ cancel_buffer
       \/ \E words \in Chunks : write_dev(words)
       \/ CutOff
       \/ CopyWord
       \/ Dies
    /\ hWords' = IF hPattern' = <<>> THEN <<>> ELSE hWords
    /\ hNext' = IF hPattern' = <<>> THEN 0 ELSE hNext
    /\ UNCHANGED <<rx, hRatio>>

RXNext ==
    \/ TXStep \/ TXTransfer
    \/ \E rate \in RXRates : WriteRXAttr(rate)
    \/ \E bytes_count \in 0..MaxLen : read_dev(bytes_count)
    \/ Answer
    \/ Sent

RXSpec == RXInit /\ [][RXNext]_allVars

-----------------------------------------------------------------------------
(* Properties *)

RXTypeOK ==
    /\ TypeOK
    /\ rx_frequency \in RXRates /\ zero_ratio \in ZeroRatios
    /\ len \in Nat /\ half \in {0, 1}
    /\ pbuf \in Seq((SUBSET Bits) \cup {Garbage})
    /\ hWords \in Seq(Words) /\ hNext \in Nat /\ hRatio \in Nat

\* The digital loop: as long as a client reads whole words at the rate at which
\* they were written, what its READBUFs return, one after the other, is the written
\* words round and round, none lost, repeated or altered by the two resamplings
\* or at the ends of the reads and of the buffer.
Loop == INSTANCE CyclicPlayback
            WITH Sample <- Words, pattern <- hWords, pos <- hNext, out <- pbuf
DigitalLoop == Loop!Spec

\* An answer holds memory that decimation did not fill in these cases, and in
\* no other: every word of it if the RX rate is above 100 MS/s, or is no number
\* and the undefined conversion makes the ratio 0; and the half word at the end
\* of an odd number of bytes.  No position, length or end of the loop adds one.
Unfilled == rx_frequency > MaxRate \/ (rx_frequency = 0 /\ zero_ratio = 0)
GarbageReads ==
    \A i \in DOMAIN pbuf :
        pbuf[i] = Garbage <=> Unfilled \/ (half = 1 /\ i = Len(pbuf))
=============================================================================
