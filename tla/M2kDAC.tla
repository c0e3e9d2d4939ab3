------------------------------- MODULE M2kDAC -------------------------------
(***************************************************************************)
(* The analog output device of the emulated ADALM2000                      *)
(* (iiod/context/adalm2000/devices/m2k_dac.cpp): the buffer a client fills *)
(* with WRITEBUF, its resampling to 75 MS/s, and its cyclic playback into  *)
(* the ADC.  The server handles one command at a time, so the commands are *)
(* atomic except for two: a WRITEBUF is a run of write_dev calls that a    *)
(* lost connection can cut short, and transfer_samples_to_RX_device runs on *)
(* a thread of the ADC, one iteration of its copy loop per step.           *)
(*                                                                         *)
(* Volts are integers, in units of m_calib_vlsb / (2 * Scale).             *)
(***************************************************************************)
EXTENDS Integers, Sequences

CONSTANTS
    RawSamples,     \* the int16 codes clients write
    Rates,          \* values of the sampling_frequency attribute
    Oversamplings,  \* values of the oversampling_ratio attribute
    MaxRate,        \* 75E6, the rate the playback runs at
    Compensation,   \* m_filter_compensation_table
    Scale,          \* makes the interpolated volts integers
    Unset,          \* the content of a double nobody has initialised
    Garbage,        \* what lies beyond the end of m_samples
    MaxChunk,       \* bound: samples of one write_dev call
    MaxSamples,     \* bound: samples m_samples may hold
    MaxRead         \* bound: samples_count of one RX read

ASSUME DACAssumption ==
    /\ RawSamples \subseteq Int
    /\ Rates \subseteq Nat \ {0}
    /\ Oversamplings \subseteq Nat \ {0}
    /\ MaxRate \in Nat \ {0}
    /\ DOMAIN Compensation \subseteq Rates
    /\ \A rate \in DOMAIN Compensation : Compensation[rate] \in Int
    /\ Scale \in Nat \ {0}
    /\ Unset \notin Rates
    /\ Garbage \notin Int
    /\ MaxChunk \in Nat /\ MaxSamples \in Nat /\ MaxRead \in Nat

VARIABLES
    sampling_frequency,  \* attributes of the device in the XML document
    oversampling_ratio,
    m_samplerate,        \* sampling_frequency as loadCalibValues last read it
    m_enable,
    m_samples,
    m_current_index,
    m_reset_buffer,
    cmd,                 \* what the server is doing: "none", "writebuf" or "read"
    alive,               \* FALSE once an uncaught exception or a fault ended it
    buf, samples_count   \* the read in progress: samples copied, samples to copy

\* History variables, for stating the properties.
VARIABLES
    hWritten,   \* the volts the WRITEBUF in progress has supplied
    hClean,     \* the next WRITEBUF follows no cut-off one
    hPattern,   \* the accepted buffer that plays, <<>> when there is none
    hPos,       \* the 0-based position of its next sample
    hClosed     \* a CLOSE was handled since m_current_index was last set to 0

attrs == <<sampling_frequency, oversampling_ratio>>
buffer == <<m_samples, m_current_index, m_reset_buffer>>
config == <<m_samplerate, m_enable>>
read == <<buf, samples_count>>
history == <<hWritten, hClean, hPattern, hPos, hClosed>>
vars == <<attrs, buffer, config, read, cmd, alive, history>>

Volts == Int

-----------------------------------------------------------------------------
(* The device's functions. *)

\* convertRawToVolts, and the table lookup of getFilterCompensation.
convertRawToVolts(raw) ==
    -((2 * (raw \div 16) + 1) * Compensation[m_samplerate] * Scale)

\* m_filter_compensation_table.at() throws on any other sample rate.
Supported == m_samplerate \in DOMAIN Compensation

Ratio == (MaxRate * oversampling_ratio) \div sampling_frequency

\* analogical_interpolation: after each sample but the last, ratio steps
\* towards its successor (the successor itself included), then the last one.
analogical_interpolation(src, ratio) ==
    [k \in 1..((Len(src) - 1) * (ratio + 1) + 1) |->
        LET i == ((k - 1) \div (ratio + 1)) + 1
            j == (k - 1) % (ratio + 1)
        IN  IF i < Len(src)
            THEN src[i] + j * ((src[i + 1] - src[i]) \div ratio)
            ELSE src[Len(src)]]

resample(src) == IF Ratio < 2 THEN src ELSE analogical_interpolation(src, Ratio)

\* Interpolating an empty vector: src.size() - 1 wraps and reserve() throws.
ResampleThrows == Ratio >= 2 /\ m_samples = <<>>

-----------------------------------------------------------------------------
\* The constructor; m_enable and m_samplerate are left uninitialised.
Init ==
    /\ sampling_frequency \in Rates /\ oversampling_ratio \in Oversamplings
    /\ m_samplerate \in Rates \cup {Unset}
    /\ m_enable \in BOOLEAN
    /\ m_samples = <<>> /\ m_current_index = 0 /\ m_reset_buffer = TRUE
    /\ cmd = "none" /\ alive = TRUE
    /\ buf = <<>> /\ samples_count = 0
    /\ hWritten = <<>> /\ hClean = TRUE
    /\ hPattern = <<>> /\ hPos = 0 /\ hClosed = FALSE

\* The environment of the device: a client writes the two attributes.
WriteAttr(rate, ratio) ==
    /\ alive /\ cmd = "none"
    /\ sampling_frequency' = rate /\ oversampling_ratio' = ratio
    /\ UNCHANGED <<buffer, config, read, cmd, alive, history>>

open_dev(mask) ==
    /\ alive /\ cmd = "none"
    /\ m_samplerate' = sampling_frequency
    /\ m_enable' = (mask # 0)
    /\ UNCHANGED <<attrs, buffer, read, cmd, alive, history>>

close_dev ==
    /\ alive /\ cmd = "none"
    /\ m_samples' = <<>>
    /\ hPattern' = <<>> /\ hPos' = 0 /\ hClosed' = TRUE
    /\ UNCHANGED <<attrs, m_current_index, m_reset_buffer, config, read, cmd,
                   alive, hWritten, hClean>>

\* Mutant: a cancellation that keeps the index, as M2kLogicTX's does.
cancel_buffer_keeps_index ==
    /\ alive /\ cmd = "none"
    /\ m_samples' = <<>>
    /\ hPattern' = <<>> /\ hPos' = 0 /\ hClosed' = FALSE
    /\ UNCHANGED <<attrs, m_current_index, m_reset_buffer, config, read, cmd,
                   alive, hWritten, hClean>>

cancel_buffer ==
    /\ alive /\ cmd = "none"
    /\ m_samples' = <<>> /\ m_current_index' = 0
    /\ hPattern' = <<>> /\ hPos' = 0 /\ hClosed' = FALSE
    /\ UNCHANGED <<attrs, m_reset_buffer, config, read, cmd, alive,
                   hWritten, hClean>>

\* One call of a WRITEBUF, on a device opened with an empty mask: ignored.
write_dev_disabled ==
    /\ alive /\ cmd \in {"none", "writebuf"} /\ ~m_enable
    /\ cmd' = "writebuf"
    /\ UNCHANGED <<attrs, buffer, config, read, alive, history>>

\* Mutant: the first write after a transfer forgets to rewind.
FirstIndex_not_rewound == m_current_index

\* What the first write after a transfer does to the buffer and the index.
FirstSamples == IF m_reset_buffer THEN <<>> ELSE m_samples
FirstIndex == IF m_reset_buffer THEN 0 ELSE m_current_index

\* One call of a WRITEBUF.
write_dev(raws) ==
    /\ alive /\ cmd \in {"none", "writebuf"} /\ m_enable
    /\ raws # <<>> => Supported
    /\ Len(FirstSamples) + Len(raws) <= MaxSamples
    /\ LET volts == [i \in DOMAIN raws |-> convertRawToVolts(raws[i])]
       IN  /\ m_samples' = FirstSamples \o volts
           /\ hWritten' = hWritten \o volts
    /\ m_current_index' = FirstIndex
    /\ m_reset_buffer' = FALSE
    /\ cmd' = "writebuf"
    /\ hPattern' = <<>> /\ hPos' = 0
    /\ hClosed' = (hClosed /\ ~m_reset_buffer)
    /\ UNCHANGED <<attrs, config, read, alive, hClean>>

\* The end of a WRITEBUF (its only call when the client announced 0 bytes).
\* What was written becomes the accepted buffer when it is all there is.
transfer_mem_to_dev ==
    /\ alive /\ cmd \in {"none", "writebuf"}
    /\ ~ResampleThrows
    /\ m_samplerate' = sampling_frequency
    /\ m_samples' = resample(m_samples)
    /\ m_reset_buffer' = TRUE
    /\ cmd' = "none"
    /\ Len(m_samples') <= MaxSamples
    /\ hPattern' = IF m_enable /\ hClean /\ hWritten # <<>>
                   THEN resample(hWritten) ELSE <<>>
    /\ hPos' = 0
    /\ hClean' = TRUE /\ hWritten' = <<>>
    /\ UNCHANGED <<attrs, m_current_index, m_enable, read, alive, hClosed>>

\* The connection is lost in the middle of a WRITEBUF: no transfer follows.
CutOff ==
    /\ alive /\ cmd = "writebuf"
    /\ cmd' = "none"
    /\ hClean' = FALSE /\ hWritten' = <<>>
    /\ UNCHANGED <<attrs, buffer, config, read, alive,
                   hPattern, hPos, hClosed>>

-----------------------------------------------------------------------------
(* transfer_samples_to_RX_device *)

\* Mutant: an empty buffer is read as it is.
BeginRead_no_placeholder(count) ==
    /\ alive /\ cmd = "none"
    /\ buf' = <<>> /\ samples_count' = count
    /\ cmd' = "read"
    /\ UNCHANGED <<attrs, buffer, config, alive, history>>

\* The call: an empty buffer is filled with samples_count zeros.
BeginRead(count) ==
    /\ alive /\ cmd = "none"
    /\ m_samples' = IF m_samples = <<>> THEN [i \in 1..count |-> 0] ELSE m_samples
    /\ buf' = <<>> /\ samples_count' = count
    /\ cmd' = "read"
    /\ UNCHANGED <<attrs, m_current_index, m_reset_buffer, config, alive, history>>

\* Mutants: a run limited by the buffer only, or by the read only.
remaining_samples_to_end == Len(m_samples) - m_current_index
remaining_samples_to_count == samples_count

\* m_samples.size() - m_current_index is unsigned: it is huge past the end.
remaining_samples ==
    LET left == Len(m_samples) - m_current_index
    IN  IF left < 0 \/ left > samples_count THEN samples_count ELSE left

\* Mutant: the index is not wrapped.
NextIndex_no_wrap == m_current_index + remaining_samples

NextIndex == (m_current_index + remaining_samples) % Len(m_samples)

\* One iteration of the loop: memcpy of a run of samples.
CopyRun ==
    /\ alive /\ cmd = "read" /\ samples_count > 0
    /\ buf' = buf \o [i \in 1..remaining_samples |->
                         IF m_current_index + i <= Len(m_samples)
                         THEN m_samples[m_current_index + i] ELSE Garbage]
    /\ samples_count' = samples_count - remaining_samples
    /\ m_current_index' = NextIndex
    /\ hPos' = IF hPattern = <<>> THEN hPos ELSE (hPos + remaining_samples) % Len(hPattern)
    /\ UNCHANGED <<attrs, m_samples, m_reset_buffer, config, cmd, alive,
                   hWritten, hClean, hPattern, hClosed>>

EndRead ==
    /\ alive /\ cmd = "read" /\ samples_count = 0
    /\ cmd' = "none" /\ buf' = <<>>
    /\ UNCHANGED <<attrs, buffer, config, samples_count, alive, history>>

-----------------------------------------------------------------------------
\* The ends of the process: getFilterCompensation throws in write_dev, or the
\* interpolation in transfer_mem_to_dev, and nobody catches it; or a memcpy
\* past the end of m_samples faults.  (std::stoi throws there too, of an
\* oversampling_ratio that is text: here the attributes are numbers.)
Dies ==
    /\ alive
    /\ \/ cmd # "read" /\ m_enable /\ ~Supported
       \/ cmd # "read" /\ ResampleThrows
       \/ /\ cmd = "read" /\ samples_count > 0
          /\ m_current_index + remaining_samples > Len(m_samples)
    /\ alive' = FALSE
    /\ UNCHANGED <<attrs, buffer, config, read, cmd, history>>

Chunks == UNION {[1..n -> RawSamples] : n \in 0..MaxChunk}

Next ==
    \/ \E rate \in Rates, ratio \in Oversamplings : WriteAttr(rate, ratio)
    \/ \E mask \in {0, 1} : open_dev(mask)
    \/ close_dev
    \/ cancel_buffer
    \/ write_dev_disabled
    \/ \E raws \in Chunks : write_dev(raws)
    \/ transfer_mem_to_dev
    \/ CutOff
    \/ \E count \in 0..MaxRead : BeginRead(count)
    \/ CopyRun
    \/ EndRead
    \/ Dies

Spec == Init /\ [][Next]_vars

\* The thread that copies keeps running: nothing in its loop blocks.
FairSpec == Spec /\ WF_vars(CopyRun \/ EndRead)

-----------------------------------------------------------------------------
(* Properties *)

TypeOK ==
    /\ sampling_frequency \in Rates /\ oversampling_ratio \in Oversamplings
    /\ m_samplerate \in Rates \cup {Unset}
    /\ m_enable \in BOOLEAN /\ m_reset_buffer \in BOOLEAN /\ alive \in BOOLEAN
    /\ m_samples \in Seq(Volts) /\ m_current_index \in Nat
    /\ cmd \in {"none", "writebuf", "read"}
    /\ buf \in Seq(Volts \cup {Garbage}) /\ samples_count \in Nat
    /\ hWritten \in Seq(Volts) /\ hPattern \in Seq(Volts) /\ hPos \in Nat
    /\ hClean \in BOOLEAN /\ hClosed \in BOOLEAN

\* The copy loop of transfer_samples_to_RX_device reduces the index modulo
\* m_samples.size(): it never runs on an empty buffer, whatever commands and
\* lost connections came before the read.
NeverDividesByZero == cmd = "read" /\ samples_count > 0 => m_samples # <<>>

\* A read goes past the end of m_samples only if a CLOSE (which empties the
\* buffer and keeps the index) was handled since the index was last reset: no
\* write, transfer, cancellation or lost connection can cause it.
OutOfBoundsOnlyAfterClose ==
    /\ cmd = "read" /\ samples_count > 0
    /\ m_current_index + remaining_samples > Len(m_samples)
    => hClosed

\* What plays is exactly what one client's WRITEBUF supplied, resampled, from
\* the position earlier reads reached: once a WRITEBUF that follows no cut-off
\* one is complete, no left-over of an earlier buffer is before or after it.
AcceptedBufferPlays ==
    hPattern # <<>> => /\ m_samples = hPattern
                       /\ m_current_index = hPos
                       /\ hPos < Len(hPattern)

\* The device implements the cyclic playback it owes the ADC.
Playback == INSTANCE CyclicPlayback
                WITH Sample <- Volts, pattern <- hPattern, pos <- hPos,
                     out <- buf
PlaybackSpec == Playback!Spec

\* A read that has begun ends, however many times it goes round the buffer
\* (unless the process dies of a read past the end).
ReadEnds == cmd = "read" ~> (cmd = "none" \/ ~alive)
=============================================================================
