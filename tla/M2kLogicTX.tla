----------------------------- MODULE M2kLogicTX -----------------------------
(***************************************************************************)
(* The digital output device of the emulated ADALM2000                     *)
(* (iiod/context/adalm2000/devices/m2k_logic_tx.cpp).  Like M2kDAC it keeps *)
(* a client's buffer and plays it cyclically, into M2kLogicRX; unlike it,   *)
(* open_dev and close_dev do nothing, cancel_buffer keeps the index, and    *)
(* the copy loop reads one word at a time through the checked at().         *)
(***************************************************************************)
EXTENDS Integers, Sequences

CONSTANTS
    Words,          \* the words clients write, each as the set of its 1 bits
    Rates,          \* values of the sampling_frequency attribute
    MaxRate,        \* 1E8, the rate the playback runs at
    MaxChunk,       \* bound: words of one write_dev call
    MaxSamples,     \* bound: words m_samples may hold
    MaxRead         \* bound: samples_count of one RX read

ASSUME LogicTXAssumption ==
    /\ \A word \in Words : word \subseteq Nat
    /\ Rates \subseteq Nat \ {0}
    /\ MaxRate \in Nat \ {0}
    /\ MaxChunk \in Nat /\ MaxSamples \in Nat /\ MaxRead \in Nat

VARIABLES
    sampling_frequency,     \* the attribute in the XML document
    m_samples, m_current_index, m_reset_buffer,
    cmd,                    \* the command in progress: "none", "writebuf", "read"
    alive,                  \* FALSE once an uncaught exception ended the process
    samples, samples_count  \* the read in progress: words copied, words to copy

\* History variables, for stating the properties (see M2kDAC).
VARIABLES hWritten, hClean, hPattern, hPos,
          hCancelled  \* cancel_buffer ran since the index was last set to 0

buffer == <<m_samples, m_current_index, m_reset_buffer>>
read == <<samples, samples_count>>
history == <<hWritten, hClean, hPattern, hPos, hCancelled>>
vars == <<sampling_frequency, buffer, read, cmd, alive, history>>

Ratio == MaxRate \div sampling_frequency

\* Mutant: one repetition too many, as analogical_interpolation makes.
digital_interpolation_extra(src, ratio) ==
    [k \in 1..(Len(src) * (ratio + 1)) |-> src[((k - 1) \div (ratio + 1)) + 1]]

\* digital_interpolation: each word ratio times.
digital_interpolation(src, ratio) ==
    [k \in 1..(Len(src) * ratio) |-> src[((k - 1) \div ratio) + 1]]

resample(src) == IF Ratio < 2 THEN src ELSE digital_interpolation(src, Ratio)

-----------------------------------------------------------------------------
\* The constructor: unlike M2kDAC's, it asks for no reset before the first write.
Init ==
    /\ sampling_frequency \in Rates
    /\ m_samples = <<>> /\ m_current_index = 0 /\ m_reset_buffer = FALSE
    /\ cmd = "none" /\ alive = TRUE
    /\ samples = <<>> /\ samples_count = 0
    /\ hWritten = <<>> /\ hClean = TRUE
    /\ hPattern = <<>> /\ hPos = 0 /\ hCancelled = FALSE

\* The environment of the device: a client writes the attribute.
WriteAttr(rate) ==
    /\ alive /\ cmd = "none"
    /\ sampling_frequency' = rate
    /\ UNCHANGED <<buffer, read, cmd, alive, history>>

cancel_buffer ==
    /\ alive /\ cmd = "none"
    /\ m_samples' = <<>>
    /\ hPattern' = <<>> /\ hPos' = 0
    /\ hCancelled' = TRUE
    /\ UNCHANGED <<sampling_frequency, m_current_index, m_reset_buffer, read,
                   cmd, alive, hWritten, hClean>>

\* Mutants: the first write after a transfer forgets to empty the buffer, or
\* to rewind.
FirstSamples_kept == m_samples
FirstIndex_not_rewound == m_current_index

\* What the first write after a transfer does to the buffer and the index.
FirstSamples == IF m_reset_buffer THEN <<>> ELSE m_samples
FirstIndex == IF m_reset_buffer THEN 0 ELSE m_current_index

\* One call of a WRITEBUF.
write_dev(words) ==
    /\ alive /\ cmd \in {"none", "writebuf"}
    /\ Len(FirstSamples) + Len(words) <= MaxSamples
    /\ m_samples' = FirstSamples \o words
    /\ m_current_index' = FirstIndex
    /\ m_reset_buffer' = FALSE
    /\ cmd' = "writebuf"
    /\ hWritten' = hWritten \o words
    /\ hPattern' = <<>> /\ hPos' = 0
    /\ hCancelled' = (hCancelled /\ ~m_reset_buffer)
    /\ UNCHANGED <<sampling_frequency, read, alive, hClean>>

\* The end of a WRITEBUF (its only call when the client announced 0 bytes).
transfer_mem_to_dev ==
    /\ alive /\ cmd \in {"none", "writebuf"}
    /\ m_samples' = resample(m_samples)
    /\ Len(m_samples') <= MaxSamples
    /\ m_reset_buffer' = TRUE
    /\ cmd' = "none"
    /\ hPattern' = IF hClean THEN resample(hWritten) ELSE <<>>
    /\ hPos' = 0
    /\ hClean' = TRUE /\ hWritten' = <<>>
    /\ UNCHANGED <<sampling_frequency, m_current_index, read, alive, hCancelled>>

\* The connection is lost in the middle of a WRITEBUF: no transfer follows.
CutOff ==
    /\ alive /\ cmd = "writebuf"
    /\ cmd' = "none"
    /\ hClean' = FALSE /\ hWritten' = <<>>
    /\ UNCHANGED <<sampling_frequency, buffer, read, alive, hPattern, hPos,
                   hCancelled>>

-----------------------------------------------------------------------------
(* transfer_samples_to_RX_device *)

\* The call: an empty buffer is filled with samples_count zero words.  Before
\* the first transfer nothing will remove them again.
BeginRead(count) ==
    /\ alive /\ cmd = "none"
    /\ m_samples' = IF m_samples = <<>> THEN [i \in 1..count |-> {}] ELSE m_samples
    /\ samples' = <<>> /\ samples_count' = count
    /\ cmd' = "read"
    /\ hClean' = (hClean /\ (m_reset_buffer \/ m_samples' = m_samples))
    /\ UNCHANGED <<sampling_frequency, m_current_index, m_reset_buffer, alive,
                   hWritten, hPattern, hPos, hCancelled>>

\* Mutant: the wrap-around test is off by one.
NextIndex_off_by_one ==
    IF m_current_index + 1 > Len(m_samples) THEN 0 ELSE m_current_index + 1

NextIndex == IF m_current_index + 1 >= Len(m_samples) THEN 0 ELSE m_current_index + 1

AtThrows == m_current_index >= Len(m_samples)

\* One iteration of the loop.
CopyWord ==
    /\ alive /\ cmd = "read" /\ samples_count > 0
    /\ ~AtThrows
    /\ samples' = Append(samples, m_samples[m_current_index + 1])
    /\ samples_count' = samples_count - 1
    /\ m_current_index' = NextIndex
    /\ hPos' = IF hPattern = <<>> THEN hPos ELSE (hPos + 1) % Len(hPattern)
    /\ UNCHANGED <<sampling_frequency, m_samples, m_reset_buffer, cmd, alive,
                   hWritten, hClean, hPattern, hCancelled>>

\* m_samples.at() throws std::out_of_range, nobody catches it: std::terminate.
Dies ==
    /\ alive /\ cmd = "read" /\ samples_count > 0
    /\ AtThrows
    /\ alive' = FALSE
    /\ UNCHANGED <<sampling_frequency, buffer, read, cmd, history>>

EndRead ==
    /\ alive /\ cmd = "read" /\ samples_count = 0
    /\ cmd' = "none" /\ samples' = <<>>
    /\ UNCHANGED <<sampling_frequency, buffer, samples_count, alive, history>>

Chunks == UNION {[1..n -> Words] : n \in 0..MaxChunk}

Next ==
    \/ \E rate \in Rates : WriteAttr(rate)
    \/ cancel_buffer
    \/ \E words \in Chunks : write_dev(words)
    \/ transfer_mem_to_dev
    \/ CutOff
    \/ \E count \in 0..MaxRead : BeginRead(count)
    \/ CopyWord
    \/ EndRead
    \/ Dies

Spec == Init /\ [][Next]_vars

-----------------------------------------------------------------------------
(* Properties *)

TypeOK ==
    /\ sampling_frequency \in Rates
    /\ m_samples \in Seq(Words \cup {{}}) /\ m_current_index \in Nat
    /\ m_reset_buffer \in BOOLEAN /\ alive \in BOOLEAN
    /\ cmd \in {"none", "writebuf", "read"}
    /\ samples \in Seq(Words \cup {{}}) /\ samples_count \in Nat
    /\ hWritten \in Seq(Words) /\ hPattern \in Seq(Words) /\ hPos \in Nat
    /\ hClean \in BOOLEAN /\ hCancelled \in BOOLEAN

\* at() throws only if cancel_buffer (a client that had the device open was
\* lost) ran since the index was last reset: no write, transfer, cut-off or
\* placeholder leaves the index outside the buffer a later read goes through.
ThrowsOnlyAfterCancel ==
    cmd = "read" /\ samples_count > 0 /\ AtThrows => hCancelled

\* What plays is exactly what one client's WRITEBUF supplied, resampled, from
\* the position earlier reads reached, when the WRITEBUF follows no cut-off one
\* and does not find the zeros of a read made before any client wrote.
AcceptedBufferPlays ==
    hPattern # <<>> => /\ m_samples = hPattern
                       /\ m_current_index = hPos
                       /\ hPos < Len(hPattern)

\* The device implements the cyclic playback it owes the logic analyzer.
Playback == INSTANCE CyclicPlayback
                WITH Sample <- Words, pattern <- hPattern, pos <- hPos,
                     out <- samples
PlaybackSpec == Playback!Spec

\* The bounds check at() states: the index is inside the buffer whenever the
\* copy loop of transfer_samples_to_RX_device uses it.
AtNeverThrows == cmd = "read" /\ samples_count > 0 => ~AtThrows
=============================================================================
