-------------------------- MODULE GenericLoopback --------------------------
(***************************************************************************)
(* A generic TX and a generic RX device linked to one file                 *)
(* (iiod/context/generic_xml/devices/generic_tx_device.cpp and             *)
(* generic_rx_device.cpp).  write_dev appends to the file.  read_dev takes *)
(* a prefix of it in five steps, through a scratch file with a fixed name. *)
(* No write is tested, and of the opens only the first one of each command *)
(* is: a full disk or a file that cannot be opened goes unnoticed.  The    *)
(* process may be killed in the middle of either command and started       *)
(* again, and another emulator started in the same directory, on a data    *)
(* file of its own, uses the same scratch file.                            *)
(*                                                                         *)
(* The bytes clients write are numbered from 1 in the order of the writes: *)
(* Foreign is a byte of the other emulator.                                *)
(***************************************************************************)
EXTENDS Integers, SequencesExt

CONSTANTS
    MaxChunk,    \* bound: bytes of one write_dev call
    MaxRead,     \* bound: bytes_count of one read_dev call
    MaxBytes,    \* bound: bytes written in all
    MaxFaults,   \* bound: opens, writes and removals that fail
    MaxKills,    \* bound: times the process is killed
    MaxOthers    \* bound: times the other emulator touches the scratch file

ASSUME LoopbackAssumption ==
    /\ MaxChunk \in Nat /\ MaxRead \in Nat /\ MaxBytes \in Nat
    /\ MaxFaults \in Nat /\ MaxKills \in Nat /\ MaxOthers \in Nat

VARIABLES
    present,   \* the data file exists ...
    file,      \* ... with this content
    exists,    \* the scratch file iio_emu_tmp_file.txt exists ...
    tmpFile,   \* ... with this content
    pc,        \* the process is "idle", at a step of read_dev, or "dead"
    pbuf,      \* what read_dev will answer: the bytes it took, then zeros
    rest,      \* what m_input has left to read
    hNext,     \* history: the number of the next byte written
    hStart,    \* history: the data file when the read_dev under way began
    hAnswered, \* history: the bytes answered, without the padding
    hCount,    \* history: how often something of each kind went wrong
    hNow,      \* history: what went wrong in the read_dev under way
    hEver      \* history: what went wrong in any command

disk == <<present, file, exists, tmpFile>>
reading == <<pbuf, rest, hStart>>
wrongs == <<hCount, hNow, hEver>>
vars == <<disk, pc, reading, hNext, hAnswered, wrongs>>

Foreign == -1
NoAnswer == [bytes |-> <<>>, zeros |-> 0]
Steps == {"prefix", "copied", "truncated", "restored"}
Numbers(n) == [i \in 1..n |-> hNext + i - 1]

\* What an interrupted or failing write leaves of s.
Shorter(s) == Prefixes(s) \ {s}

Init ==
    /\ present \in BOOLEAN /\ file = <<>>
    /\ exists = FALSE /\ tmpFile = <<>>
    /\ pc = "idle" /\ pbuf = NoAnswer /\ rest = <<>>
    /\ hNext = 1 /\ hStart = <<>> /\ hAnswered = <<>>
    /\ hCount = [faults |-> 0, kills |-> 0, others |-> 0] /\ hNow = {} /\ hEver = {}

\* Something goes wrong in the command under way, or nothing does.
Wrong(events) ==
    /\ hEver' = hEver \cup events
    /\ hNow' = IF pc = "idle" THEN {} ELSE hNow \cup events
Fault(events) ==
    /\ hCount.faults < MaxFaults /\ hCount' = [hCount EXCEPT !.faults = @ + 1]
    /\ Wrong(events)
Fine == UNCHANGED wrongs

-----------------------------------------------------------------------------
(* GenericTXDevice *)

\* The file is opened for appending, which creates it; if it does not open, the
\* answer is -1 and nothing has changed.  A write that fails is answered as if
\* all bytes were in the file.
write_dev(n) ==
    /\ pc = "idle" /\ hNext + n - 1 <= MaxBytes
    /\ hNext' = hNext + n /\ present' = TRUE
    /\ \/ file' = file \o Numbers(n) /\ Fine
       \/ /\ \E written \in Shorter(Numbers(n)) : file' = file \o written
          /\ Fault({"write"})
    /\ UNCHANGED <<exists, tmpFile, pc, reading, hAnswered>>

-----------------------------------------------------------------------------
(* GenericRXDevice::read_dev, step by step *)

\* Mutant: one byte too many is taken from the file.
Split_off_by_one(n) ==
    LET taken == IF n < Len(file) THEN n ELSE Len(file)
    IN  [taken |-> SubSeq(file, 1, taken), left |-> SubSeq(file, taken + 2, Len(file))]

\* What read() takes of the file and what it leaves.
Split(n) ==
    LET taken == IF n < Len(file) THEN n ELSE Len(file)
    IN  [taken |-> SubSeq(file, 1, taken), left |-> SubSeq(file, taken + 1, Len(file))]

\* Read the prefix, pad with zeros; without a data file the answer is -1.
ReadPrefix(bytes_count) ==
    /\ pc = "idle" /\ present
    /\ LET s == Split(bytes_count) IN
       /\ pbuf' = [bytes |-> s.taken, zeros |-> bytes_count - Len(s.taken)]
       /\ rest' = s.left
    /\ hStart' = file
    /\ pc' = "prefix"
    /\ Fine
    /\ UNCHANGED <<disk, hNext, hAnswered>>

\* Mutant: the scratch file is appended to.
CopyOut_appends ==
    /\ pc = "prefix" /\ pc' = "copied"
    /\ exists' = TRUE /\ tmpFile' = tmpFile \o rest /\ Fine
    /\ UNCHANGED <<present, file, reading, hNext, hAnswered>>

\* Copy the rest to the scratch file.  That may not open, and then one of an
\* earlier run stays as it is; the copy may be cut short.
CopyOut ==
    /\ pc = "prefix" /\ pc' = "copied"
    /\ \/ exists' = TRUE /\ tmpFile' = rest /\ Fine
       \/ exists' = TRUE /\ tmpFile' \in Shorter(rest) /\ Fault({"copy"})
       \/ /\ UNCHANGED <<exists, tmpFile>>
          /\ Fault({"scratch"} \cup IF exists THEN {"stale"} ELSE {})
    /\ UNCHANGED <<present, file, reading, hNext, hAnswered>>

\* Mutant: the scratch file is removed before it is copied back.
Truncate_removes ==
    /\ pc = "copied" /\ pc' = "truncated"
    /\ present' = TRUE /\ file' = <<>>
    /\ exists' = FALSE /\ tmpFile' = <<>> /\ Fine
    /\ UNCHANGED <<reading, hNext, hAnswered>>

\* Open the data file to truncate it, which may fail.
Truncate ==
    /\ pc = "copied" /\ pc' = "truncated"
    /\ \/ present' = TRUE /\ file' = <<>> /\ Fine
       \/ UNCHANGED <<present, file>> /\ Fault({"truncate"})
    /\ UNCHANGED <<exists, tmpFile, reading, hNext, hAnswered>>

Scratch == IF exists THEN tmpFile ELSE <<>>

\* Copy the scratch file back; nothing if there is none to open.  The data file
\* is opened for output, which truncates it once more; if it does not open, it
\* stays as the last step left it.  The copy may be cut short, to nothing if the
\* scratch file does not open.
CopyBack ==
    /\ pc = "truncated" /\ pc' = "restored"
    /\ \/ file' = Scratch /\ Fine
       \/ file' \in Shorter(Scratch) /\ Fault({"restore"})
       \/ /\ UNCHANGED file
          /\ Fault({"target"} \cup IF "truncate" \in hNow THEN {"whole"} ELSE {})
    /\ UNCHANGED <<present, exists, tmpFile, reading, hNext, hAnswered>>

\* Remove the scratch file, which may fail, and answer.
Answer ==
    /\ pc = "restored" /\ pc' = "idle"
    /\ \/ exists' = FALSE /\ tmpFile' = <<>> /\ UNCHANGED hCount
       \/ /\ UNCHANGED <<exists, tmpFile>>
          /\ hCount.faults < MaxFaults /\ hCount' = [hCount EXCEPT !.faults = @ + 1]
    /\ hAnswered' = hAnswered \o pbuf.bytes
    /\ pbuf' = NoAnswer /\ rest' = <<>> /\ hStart' = <<>> /\ hNow' = {}
    /\ UNCHANGED <<present, file, hNext, hEver>>

-----------------------------------------------------------------------------
(* What happens around the process *)

\* Killed; late if the data file is left as neither command began with it nor
\* was to leave it.
Kill(late) ==
    /\ pc' = "dead"
    /\ hCount.kills < MaxKills /\ hCount' = [hCount EXCEPT !.kills = @ + 1]
    /\ Wrong(IF late THEN {"late"} ELSE {})

\* Killed in write_dev, with a part of the bytes in the file.
KilledWriting(n) ==
    /\ pc = "idle" /\ hNext + n - 1 <= MaxBytes
    /\ \E written \in Prefixes(Numbers(n)) :
          file' = file \o written /\ Kill(written # Numbers(n))
    /\ hNext' = hNext + n /\ present' = TRUE
    /\ UNCHANGED <<exists, tmpFile, reading, hAnswered>>

\* Killed in read_dev before the next step, or with a part of a copy made.  The
\* bytes it took are still in the file until that is truncated.
KilledReading ==
    /\ \/ pc \in Steps /\ UNCHANGED <<file, exists, tmpFile>>
       \/ pc = "prefix" /\ exists' = TRUE /\ tmpFile' \in Prefixes(rest) /\ UNCHANGED file
       \/ pc = "truncated" /\ file' \in Prefixes(Scratch) /\ UNCHANGED <<exists, tmpFile>>
    /\ Kill(file' # hStart)
    /\ UNCHANGED <<present, reading, hNext, hAnswered>>

\* The emulator is started again; what is on disk stays, the scratch file too.
Restart ==
    /\ pc = "dead" /\ pc' = "idle"
    /\ pbuf' = NoAnswer /\ rest' = <<>> /\ hStart' = <<>> /\ hNow' = {}
    /\ UNCHANGED <<disk, hNext, hAnswered, hCount, hEver>>

\* The other emulator's read_dev: it fills the scratch file, or removes it.  It
\* comes in between if this one has bytes there: to copy back, or only there.
OtherEmulator ==
    /\ hCount.others < MaxOthers /\ hCount' = [hCount EXCEPT !.others = @ + 1]
    /\ \/ exists' = TRUE /\ tmpFile' \in {<<>>, <<Foreign>>}
       \/ exists' = FALSE /\ tmpFile' = <<>>
    /\ Wrong(CASE pc \in {"copied", "truncated"} -> {"crossed"}
                [] pc \in {"restored", "dead"} -> {"overwritten"}
                [] OTHER -> {})
    /\ UNCHANGED <<present, file, pc, reading, hNext, hAnswered>>

-----------------------------------------------------------------------------
Next ==
    \/ \E n \in 1..MaxChunk : write_dev(n) \/ KilledWriting(n)
    \/ \E n \in 1..MaxRead : ReadPrefix(n)
    \/ CopyOut \/ Truncate \/ CopyBack \/ Answer
    \/ KilledReading \/ Restart \/ OtherEmulator

Spec == Init /\ [][Next]_vars

-----------------------------------------------------------------------------
(* Properties *)

\* GENERIC_EMULATOR.md: the output of the TX device is the input of the RX
\* device.  Between commands, what was answered and what the file holds are
\* exactly the bytes written, in order, unless one of these went wrong: a write
\* or a copy cut short, the scratch file or the data file not opened for a copy,
\* a kill that left the data file incomplete, another emulator between a copy
\* out and the copy back.  A data file that could not be truncated, a scratch
\* file that could not be removed and any other kill cost nothing by themselves.
Lossy == {"write", "copy", "scratch", "restore", "target", "late", "crossed"}
LossExplained ==
    pc = "idle" /\ hEver \cap Lossy = {} =>
        hAnswered \o file = [i \in 1..(hNext - 1) |-> i]

\* However often the process is killed and started again, whatever scratch file
\* that leaves, and whichever write, open or removal fails, no byte is answered
\* twice, out of order, or without having been written, with three exceptions.
\* The scratch file does not open while one of an earlier run is there; the data
\* file can be opened neither to truncate it nor for the copy back; another
\* emulator comes in between a copy out and the copy back.
Repeating == {"stale", "whole", "crossed"}
NeverTwice ==
    hEver \cap Repeating = {} =>
        LET out == IF pc = "idle" THEN hAnswered \o file ELSE hAnswered
        IN  /\ \A i, j \in DOMAIN out : i < j => out[i] < out[j]
            /\ \A i \in DOMAIN out : out[i] \in 1..(hNext - 1)

\* At every instant of a read_dev, and when it is killed at that instant, the
\* bytes it was to leave are all on disk, in the data file or the scratch file,
\* whatever the steps after the copy out fail to do.  That copy itself must have
\* been made in full, and no other emulator have replaced it in this read_dev.
Unsaving == {"copy", "scratch", "crossed", "overwritten"}
UnreadBytesOnDisk ==
    pc \in Steps \cup {"dead"} /\ hNow \cap Unsaving = {} =>
        LET taken == Len(hStart) - Len(rest)
        IN  \/ IsPrefix(hStart, file)
            \/ file = SubSeq(hStart, taken + 1, Len(hStart))
            \/ exists /\ tmpFile = SubSeq(hStart, taken + 1, Len(hStart))
=============================================================================
