------------------------------- MODULE M2kADC -------------------------------
(***************************************************************************)
(* The analog input device of the emulated ADALM2000                       *)
(* (iiod/context/adalm2000/devices/m2k_adc.cpp), wired to two M2kDAC       *)
(* devices.  A READBUF starts one thread per channel, each of which takes  *)
(* the same number of samples from its DAC and averages them down; the     *)
(* handler joins both and interleaves the codes.  The DACs appear as the   *)
(* cyclic players M2kDAC is proved to be: an accepted buffer, an index,    *)
(* and the copy loop of transfer_samples_to_RX_device, one run per step.   *)
(***************************************************************************)
EXTENDS Integers, Sequences, FiniteSets

Channels == {1, 2}

CONSTANTS
    Buffers,        \* accepted buffers, not empty
    Documents,      \* values the attributes read_dev uses may have
    MaxRate,        \* 1E8
    Compensation,   \* m_filter_compensation_table
    Gain,           \* getCalibGain: the gain of the ranges it knows
    Ranges,         \* values of the gain attribute of a channel
    VerticalScale,  \* what one step of the vertical offset adds to a code
    Shorts,         \* what an int16_t holds
    Garbage,        \* an undefined number
    MaxLen,         \* bound: samples per channel of one READBUF
    MaxClock        \* bound: samples taken from a DAC in all

ASSUME ADCAssumption ==
    /\ \A b \in Buffers : b \in Seq(Int) /\ b # <<>>
    /\ \A a \in Documents :
          /\ {a.rate, a.zero_ratio, a.oversampling} \subseteq Nat
          /\ a.parses \in BOOLEAN
          /\ a.range \in [Channels -> Ranges]
          /\ {a.raw, a.calibbias} \subseteq [Channels -> Int]
    /\ MaxRate \in Nat \ {0}
    /\ \A rate \in DOMAIN Compensation : Compensation[rate] \in Nat \ {0}
    /\ DOMAIN Gain \subseteq Ranges /\ \A g \in DOMAIN Gain : Gain[g] \in Nat
    /\ VerticalScale \in Int /\ Shorts \subseteq Int
    /\ Garbage \notin Int /\ MaxLen \in Nat /\ MaxClock \in Nat

VARIABLES
    attrs,            \* the attributes in the XML document
    m_samples, m_current_index,  \* the DAC of each channel
    cal,              \* the attributes as loadCalibValues read them
    size,             \* what each thread has still to take of its DAC
    tmp_samples,      \* what it has taken
    len,              \* samples per channel that were asked for
    pbuf,             \* the answer, one pair of codes per sample
    pc,               \* "idle", "reading", or "answered" until it is sent
    alive,
    hClock,           \* history: samples every DAC has been read for
    hSince            \* history: the clock when each DAC's buffer was accepted

dac == <<m_samples, m_current_index>>
reading == <<cal, size, tmp_samples, len>>
vars == <<attrs, dac, reading, pbuf, pc, alive, hClock, hSince>>

\* A rate that is 0, or text that safe_stod makes no number of, gives infinity;
\* converting it to an unsigned int is undefined: 0 on x86, more on processors
\* that saturate.
Ratio(a) == IF a.rate = 0 THEN a.zero_ratio ELSE (MaxRate * a.oversampling) \div a.rate

\* The conversion to int16_t, undefined outside its range.
ToShort(n) == IF n \in Shorts THEN n ELSE Garbage

Truncate(a, b) == IF a >= 0 THEN a \div b ELSE -((-a) \div b)

\* std::accumulate from 0.
Sum(s) ==
    LET upTo[n \in 0..Len(s)] == IF n = 0 THEN 0 ELSE upTo[n - 1] + s[n]
    IN  upTo[Len(s)]

\* The average of each group of ratio samples (of none: the samples as they are).
analogical_decimation(src, ratio) ==
    IF ratio < 2 THEN src
    ELSE [i \in 1..(Len(src) \div ratio) |->
            Sum(SubSeq(src, (i - 1) * ratio + 1, i * ratio)) \div ratio]

\* Mutant: both channels are offset by the bias of the first.
loadCalibValues_first(a) ==
    [rate |-> a.rate, zero_ratio |-> a.zero_ratio, oversampling |-> a.oversampling,
     range |-> a.range,
     m_hw_offset |-> [ch \in Channels |-> ToShort(a.raw[ch] - a.calibbias[1])]]

\* The offset is kept in steps; the code turns it to volts with the gain that
\* convertVoltToRaw multiplies it by.
loadCalibValues(a) ==
    [rate |-> a.rate, zero_ratio |-> a.zero_ratio, oversampling |-> a.oversampling,
     range |-> a.range,
     m_hw_offset |-> [ch \in Channels |-> ToShort(a.raw[ch] - a.calibbias[ch])]]

\* An unknown range has gain 0 and an unknown rate compensation 0: dividing by
\* either and casting to int16_t is undefined.
convertVoltToRaw(v, ch) ==
    IF /\ cal.rate \in DOMAIN Compensation /\ cal.range[ch] \in DOMAIN Gain
       /\ cal.m_hw_offset[ch] # Garbage
    THEN ToShort(Truncate(v * Gain[cal.range[ch]] + VerticalScale * cal.m_hw_offset[ch],
                          Compensation[cal.rate]))
    ELSE Garbage

-----------------------------------------------------------------------------
Init ==
    /\ attrs \in Documents
    /\ m_samples \in [Channels -> Buffers] /\ m_current_index = [ch \in Channels |-> 0]
    /\ cal = loadCalibValues(attrs) /\ size = [ch \in Channels |-> 0]
    /\ tmp_samples = [ch \in Channels |-> <<>>] /\ len = 0
    /\ pbuf = <<>> /\ pc = "idle" /\ alive = TRUE
    /\ hClock = 0 /\ hSince = [ch \in Channels |-> 0]

\* The environment of the device: attributes are written, a DAC gets a buffer.
WriteAttr(a) ==
    /\ alive /\ pc = "idle"
    /\ attrs' = a
    /\ UNCHANGED <<dac, reading, pbuf, pc, alive, hClock, hSince>>

AcceptBuffer(ch, b) ==
    /\ alive /\ pc = "idle"
    /\ m_samples' = [m_samples EXCEPT ![ch] = b]
    /\ m_current_index' = [m_current_index EXCEPT ![ch] = 0]
    /\ hSince' = [hSince EXCEPT ![ch] = hClock]
    /\ UNCHANGED <<attrs, reading, pbuf, pc, alive, hClock>>

\* The start of read_dev: loadCalibValues, then the two threads.
read_dev(n) ==
    /\ alive /\ pc = "idle" /\ attrs.parses
    /\ hClock + n * Ratio(attrs) <= MaxClock
    /\ cal' = loadCalibValues(attrs) /\ len' = n
    /\ size' = [ch \in Channels |-> n * Ratio(attrs)]
    /\ tmp_samples' = [ch \in Channels |-> <<>>]
    /\ pc' = "reading"
    /\ UNCHANGED <<attrs, dac, pbuf, alive, hClock, hSince>>

\* The oversampling ratio is no number: std::stoi throws, nobody catches it.
StoiThrows ==
    /\ alive /\ pc = "idle" /\ ~attrs.parses
    /\ alive' = FALSE
    /\ UNCHANGED <<attrs, dac, reading, pbuf, pc, hClock, hSince>>

\* Mutant: the second thread reads the first DAC.
Source_crossed(ch) == 1

\* connectDevice in the constructor of Adalm2000Context: channel i reads DAC i.
Source(ch) == ch

\* Mutant: a run limited by the buffer only.
remaining_samples_to_end(ch) == Len(m_samples[Source(ch)]) - m_current_index[Source(ch)]

remaining_samples(ch) ==
    LET left == Len(m_samples[Source(ch)]) - m_current_index[Source(ch)]
    IN  IF left > size[ch] THEN size[ch] ELSE left

\* One run of the copy loop in the thread of a channel.
CopyRun(ch) ==
    LET d == Source(ch)
        run == remaining_samples(ch)
    IN  /\ alive /\ pc = "reading" /\ size[ch] > 0
        /\ tmp_samples' = [tmp_samples EXCEPT ![ch] =
              @ \o SubSeq(m_samples[d], m_current_index[d] + 1, m_current_index[d] + run)]
        /\ size' = [size EXCEPT ![ch] = @ - run]
        /\ m_current_index' =
              [m_current_index EXCEPT ![d] = (@ + run) % Len(m_samples[d])]
        /\ UNCHANGED <<attrs, m_samples, cal, len, pbuf, pc, alive, hClock, hSince>>

\* Mutant: the handler waits for one thread only.
Joined_first == size[1] = 0

\* read_ch1.join(); read_ch2.join();
Joined == \A ch \in Channels : size[ch] = 0

\* What a thread leaves in its vector.
Decimated(ch) == analogical_decimation(tmp_samples[ch], Ratio(cal))

\* Mutant: the channels are written one after the other.
Interleave_blocks(i, ch) ==
    LET k == 2 * (i - 1) + ch
    IN  IF k <= len THEN convertVoltToRaw(Decimated(1)[k], 1)
        ELSE convertVoltToRaw(Decimated(2)[k - len], 2)

Interleave(i, ch) == convertVoltToRaw(Decimated(ch)[i], ch)

\* The end of read_dev; a ratio of 0 leaves the vectors empty and at() throws.
Answer ==
    /\ alive /\ pc = "reading" /\ Joined
    /\ \A ch \in Channels : Len(Decimated(ch)) >= len
    /\ pbuf' = [i \in 1..len |-> [ch \in Channels |-> Interleave(i, ch)]]
    /\ pc' = "answered"
    /\ UNCHANGED <<attrs, dac, reading, alive, hClock, hSince>>

Dies ==
    /\ alive /\ pc = "reading" /\ Joined
    /\ \E ch \in Channels : Len(Decimated(ch)) < len
    /\ alive' = FALSE
    /\ UNCHANGED <<attrs, dac, reading, pbuf, pc, hClock, hSince>>

\* The answer leaves before the next command is handled.
Sent ==
    /\ pc = "answered"
    /\ pc' = "idle" /\ pbuf' = <<>>
    /\ cal' = loadCalibValues(attrs) /\ len' = 0 /\ tmp_samples' = [ch \in Channels |-> <<>>]
    /\ hClock' = hClock + len * Ratio(cal)
    /\ UNCHANGED <<attrs, dac, size, alive, hSince>>

Next ==
    \/ \E a \in Documents : WriteAttr(a)
    \/ \E ch \in Channels, b \in Buffers : AcceptBuffer(ch, b)
    \/ \E n \in 0..MaxLen : read_dev(n)
    \/ \E ch \in Channels : CopyRun(ch)
    \/ StoiThrows \/ Answer \/ Dies \/ Sent

Spec == Init /\ [][Next]_vars

\* Nothing in a thread's loop or in the handler blocks.
FairSpec == Spec /\ WF_vars(Answer \/ Dies \/ Sent) /\ \A ch \in Channels : WF_vars(CopyRun(ch))

-----------------------------------------------------------------------------
(* Properties *)

TypeOK ==
    /\ attrs \in Documents /\ cal \in {loadCalibValues(a) : a \in Documents}
    /\ m_samples \in [Channels -> Buffers] /\ m_current_index \in [Channels -> Nat]
    /\ size \in [Channels -> Nat] /\ tmp_samples \in [Channels -> Seq(Int)]
    /\ len \in Nat /\ pbuf \in Seq([Channels -> Int \cup {Garbage}])
    /\ pc \in {"idle", "reading", "answered"} /\ alive \in BOOLEAN
    /\ hClock \in Nat /\ hSince \in [Channels -> Nat]

\* The sample a DAC plays t samples after its buffer was accepted.
Played(ch, t) == m_samples[ch][(t % Len(m_samples[ch])) + 1]

\* The code of a voltage under the attributes of the document.
Code(v, ch) ==
    LET offset == ToShort(attrs.raw[ch] - attrs.calibbias[ch])
    IN  IF /\ attrs.rate \in DOMAIN Compensation /\ attrs.range[ch] \in DOMAIN Gain
           /\ offset # Garbage
        THEN ToShort(Truncate(v * Gain[attrs.range[ch]] + VerticalScale * offset,
                              Compensation[attrs.rate]))
        ELSE Garbage

\* Both channels of a READBUF are read over the same stretch of time, whatever
\* the threads' interleaving: the k-th pair of codes is the k-th window of
\* Ratio samples after the clock, of each channel's own buffer, averaged and
\* converted with that channel's own range and offset, as they were last
\* written.
SameWindow ==
    pc = "answered" =>
        \A i \in 1..len, ch \in Channels :
            LET from == hClock - hSince[ch] + (i - 1) * Ratio(attrs)
                window == [j \in 1..Ratio(attrs) |-> Played(ch, from + j - 1)]
            IN  pbuf[i][ch] = Code(Sum(window) \div Ratio(attrs), ch)

\* Between two READBUFs every DAC stands where the time played since its buffer
\* was accepted puts it: the channels keep their phase over any number of reads.
InPhase ==
    pc = "idle" /\ alive =>
        \A ch \in Channels :
            m_current_index[ch] = (hClock - hSince[ch]) % Len(m_samples[ch])

\* An exception ends a READBUF, and the emulator, in two cases: the oversampling
\* ratio is no number, or the ratio is 0 and samples are asked for.  In every
\* other case, whatever the threads' interleaving, it ends by an answer.
Throws == ~attrs.parses \/ (Ratio(attrs) = 0 /\ len > 0)
ReadEnds ==
    /\ pc = "reading" /\ ~Throws ~> pc = "idle"
    /\ pc = "reading" /\ Throws ~> ~alive
    /\ [](~alive => Throws)
=============================================================================
