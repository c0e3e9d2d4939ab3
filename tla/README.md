# iio-emu: a TLA+ model

iio-emu is a single-process TCP server that speaks the IIOD protocol (through
the external library libtinyiiod) and emulates IIO devices: the ADALM2000 with
its analog and digital loops and power supplies, or any device described by an
XML file and, optionally, data files. This directory holds TLA+ models of its
core, TLC configurations that check them on small instances, and TLAPS proofs.

## 1. Inventory

| Component | State | Operations | Interacts with |
| --- | --- | --- | --- |
| `TcpServer` (`networking/tcp_server.cpp`) | `running`, the loop | `start`, `stop` (signal handler) | network, context, libtinyiiod |
| `NetworkUnix`, `SocketUnix` | listening socket, `clients`, `m_fd_set`; `m_fd`, `m_disconnected` | `open`, `bind`, `listen`, `accept`, `checkForNewConnections`, `getActiveConnections`, `disconnectSocket`; `getData`, `write` | kernel, clients |
| libtinyiiod wrappers (`iiod/ops`) | `g_ops` | one forwarder per IIOD operation | context |
| `GenericXmlContext` | `m_doc`, `m_devices`, `m_current_socket` | attributes, `openDev`, `closeDev`, `readDev`, `writeDev`, transfers, `socketDisconnected` | devices, XML |
| `AbstractDevice` | `m_device_id`, `m_fd` (uninitialised) | `setDescriptor` | context |
| `Adalm2000Context` | calibration, `m_ps_current_values` | `chWriteAttr`, conversions, wiring | XML |
| `M2kDAC` | `m_samples`, `m_current_index`, `m_reset_buffer`, `m_enable`, rate | OPEN, CLOSE, WRITEBUF, cancel, `transfer_samples_to_RX_device` | read by `M2kADC`'s threads |
| `M2kLogicTX` | `m_samples`, `m_current_index`, `m_reset_buffer` | WRITEBUF, cancel, transfer | read by `M2kLogicRX` |
| `M2kADC` | calibration values | READBUF: two threads, decimation, interleaving | two `M2kDAC` |
| `M2kLogicRX` | rate | READBUF | `M2kLogicTX` |
| `GenericTXDevice`, `GenericRXDevice` | the data file, a scratch file | `write_dev`, `read_dev` | file system |
| Resampling (`utils/utility.hpp`) | none | two interpolations, two decimations | devices |
| Attributes (`attr_ops_xml.cpp`, `xml_utils.cpp`) | the XML tree | read, write, print | context |
| Command line (`main.cpp`, `input_parser.cpp`, `factory_ops.cpp`) | port, verbose mode | options, choice of the context | server |
| `NetworkWin`, `SocketWin` | as on Unix, and the thread's last error | as on Unix; accepted sockets do not block, `getData` asks again | Winsock |
| `iio-emu_gen_xml` (`tools/genxml.c`) | what it has allocated, the counters of three nested getters | `iio_context_create_xml`, `iio_device_get_xml`, `iio_channel_get_xml` | libiio |
| `Logger`, wingetopt | none | printing, parsing | – |

What is hard to test here: connections that are lost in the middle of a command
and leave a device half written; descriptors that the kernel reuses while
devices remember them; signals at any point of the loop; blocking reads that
hold everybody; the two reader threads of the ADC; indices that outlive the
buffer they point into; the ends of reads, buffers and resampling groups that do
not coincide; a read of the generic device that fails or dies half-way, or meets
another emulator in the same directory; an error that an earlier `recv` left
behind; any one allocation of the generator failing among dozens.
PROJECT.json lists these hazards at their lines.

What makes each component correct: an output device plays exactly one client's
buffer, cyclically, from its beginning; an input device returns that signal
without losing, repeating or shifting samples; a power supply measures what it
was set to; an attribute reads as it was last written, and what the served text
names is found; the server serves every client, watches exactly the open sockets,
leaves other clients' devices alone when one is lost, and stops when told to; a
loop-back file returns what was written, in order; the generator frees what it
allocated, once, and prints the whole document.

## 2. Modules

| Module | Models | Runs | Proofs |
| --- | --- | --- | --- |
| `CyclicPlayback` | abstract: what an output device promises its reader | a property of `dac`, `logic_rx` | implemented by both |
| `M2kDAC` | `m2k_dac.cpp`, analog interpolation | `dac` | `M2kDACProofs` |
| `M2kLogicTX` | `m2k_logic_tx.cpp`, digital interpolation | `logic_tx_at`, `logic_rx` | `M2kLogicProofs` |
| `M2kLogicRX` | `m2k_logic_rx.cpp` composed with `M2kLogicTX`, digital decimation | `logic_rx` | `M2kLogicProofs` |
| `M2kADC` | `m2k_adc.cpp` with its threads over two DACs, analog decimation | `adc` | `M2kADCProofs` |
| `PowerSupply` | `Adalm2000Context::chWriteAttr` and the calibration | `power_supply` | `PowerSupplyProofs` |
| `DeviceRegistry` | device table and descriptors of `GenericXmlContext` | part of `TcpServer` | `TcpServerProofs` |
| `TcpServer` | `tcp_server.cpp` with the network and socket classes of Unix and Windows, composed with `DeviceRegistry` | `server`, `server_live`, `server_eagain` | `TcpServerProofs` |
| `GenericLoopback` | generic TX and RX device on one file | `loopback` | `GenericLoopbackProofs` |
| `XmlContext` | `xml_utils.cpp`, `attr_ops_xml.cpp`, constructor and attribute operations of `GenericXmlContext` | `attributes` | `XmlContextProofs` |
| `CommandLine` | `main.cpp`, `input_parser.cpp`, `factory_ops.cpp` | `command_line` | `TcpServerProofs`, second part |
| `GenXml` | `tools/genxml.c` | `gen_xml` | `GenXmlProofs` |
| `MC...` | values of the constants for TLC | | |

State variables keep the names of the C++ members. Variables that start with `h`
are history variables: they record what happened for stating the properties and
guard nothing. Operators commented "Mutant" are wrong variants of the definition
below them; nothing uses them except when a mutation is tried to see that a
property notices it.

**M2kDAC.** The server thread handles one command at a time, so a command is one
atomic action, with two exceptions. A WRITEBUF is a run of `write_dev` calls
ended by `transfer_mem_to_dev`, or by `CutOff` when the connection is lost; no
other command comes between, because the same thread is inside libtinyiiod. And
`transfer_samples_to_RX_device` is `BeginRead`, one `CopyRun` per iteration, and
`EndRead`. `m_enable` and `m_samplerate` start with any value, as the
constructor leaves them. Exceptions nobody catches, and reads past the end that
fault, are `Dies`; a read past the end that does not fault delivers `Garbage`.
Volts are integers in a unit that makes the divisions of the instance exact.
`WriteAttr` is the client that changes the two attributes the device reads.
The content of a short `recv` (see `TcpServer`) counts as supplied by the client:
the properties start at `write_dev`.

**M2kLogicTX / M2kLogicRX.** The same structure; `open_dev` and `close_dev` do
nothing here. The copy loop takes one step per word. `M2kLogicRX` EXTENDS
`M2kLogicTX`: a READBUF is `read_dev` (which calls `BeginRead` with the samples
its own ratio needs), the TX device's copy steps, and `Answer`. A word is the
set of its bits that are 1: getting and setting a bit is membership, and the
vote is taken bit by bit. A READBUF asks for a number of bytes, `len` words and
a `half` one if it is odd; `pbuf` has a place for that half. A rate of 0 stands
for text too, of which `safe_stod` makes 0: 1E8 / 0 converted to an unsigned int
is undefined, and `zero_ratio` is what it yields, any of `ZeroRatios`. Memory
past the end of a vector is `Garbage`.

**M2kADC.** The DACs appear as the cyclic players `M2kDAC` is proved to be (an
accepted buffer and an index); each thread takes one step per run of its copy
loop, in every interleaving, and `Answer` needs both joined. What clients may
have set before a READBUF is a member of `Documents`: rate, oversampling ratio,
and per channel the range and the two numbers the vertical offset is made of.
A rate of 0 is treated as in `M2kLogicRX`, and `parses` is false of an
oversampling ratio that is no number, of which `std::stoi` throws
(`StoiThrows`). `loadCalibValues` reads all of it at the start of `read_dev`; an
attribute written later does not change a read under way. The conversions to
`int16_t`, of the offset and of the code, give `Garbage` outside `Shorts`. `Sum` is `std::accumulate`,
from 0 on. Averages are exact for the chosen samples.

**PowerSupply.** One action per kind of write to `iio:device3`: powerdown, raw,
another attribute, a text `std::stoi` rejects, and stray writes (wrong
direction or channel), of a number or a text, that the generic handler refuses
while the rest of the handler runs. The two conversions are one affine map with truncation; the
instance uses the calibration in `adalm2000.xml` to four decimals, which gives
the program's codes for the values used.

**TcpServer and DeviceRegistry.** `pc` is the position of the server's thread;
clients (`Connect`, `Receive`, `PeerLeaves`), the kernel and the signal (`stop`)
act between any two of its steps. A client's input is abstracted to what has
arrived of its next command: nothing, part of its line, its line and part of a
payload, or all of it. A partial command gives the server no step: it is blocked
in `recv`. `ReadShort` is `getData` reporting the requested length after a short
`recv`. `ServeDisconnected` is one action because nothing else runs between the
`close` of the socket and `disconnectSocket`. Descriptors are given as the kernel
does, lowest first. A device's buffer is abstracted to the connection that
filled it, and `m_fd` starts with any value.

`platform` is what the server was built for, and does not change. On Windows
`WinOpen` starts the library first; descriptors are any free ones; a failed
accept closes the listening socket itself, and then its caller does; an accepted
socket does not block, so `getData` asks again while the rest of a command is
missing. `lastError` is what `WSAGetLastError` keeps from such a `recv`
(`WinWouldBlock`): after an orderly close, `recv` answers 0, which sets no error,
`getData` looks at the old one and asks for ever. That is `WinHangs`, and `hung`
stays true.

**GenericLoopback.** `write_dev`, and `read_dev` in the five steps between which
the process may be killed, or in the middle of each of which it may be, with a
part of a copy made; `Restart` starts it again on what is on disk. The code tests
the first open of each command (the answer is -1 and nothing has changed) and
nothing after it: every later open, every write and the removal may fail in the
model, a write after a part of its bytes, and the command goes on. `hEver` holds
what has gone wrong so far and `hNow` what in the `read_dev` under way; the
properties say for each kind of failure what it can cost. Another
emulator started in the same directory has a data file of its own and shares
the scratch file, whose name is fixed: it appears only through that file, as
`OtherEmulator`. The bytes clients write are numbered, so that a lost, repeated
or foreign one can be told. An answer is the bytes taken from the file and the
number of zeros it is padded with.

**XmlContext.** A document is the sequence of its nodes with their parents; the
siblings a search goes through are the set of a node's children, in the order of
their indices. `Find` is the search of a command, with the `goto` of
`getNodeNAttrs`: a search for a channel that passes the last child uses the null
pointer. Values are opaque: the lengths of values and buffers are not modelled,
and `Squeeze` stands for what removing newlines and repeated spaces does to a
string. A null pointer that is dereferenced is the answer "fault", after which
nothing is served (the handler of SIGSEGV returns to the same instruction).
`IsNamedBy` is the reference: what an address means, by parents and ids, without
any search. `WellFormed` is what is asked of a document: a tree in which siblings
of one kind can be told apart, and of the DTD what the constructor relies on (a
device has an id, a channel an id and one of the two types). `devices` is a set:
the classes are registered in the order of the channels, but commands search
them by id.

**GenXml.** One action per allocation, loop iteration, print and error label of
the three getters and `main`. `at` is the function and the label in it, the heap
the set of the allocated blocks, each named by who allocates it, and freeing
what is not there is the fault "bad free". Texts are lengths: a getter counts
its parts, allocates, and prints each part that fits, and `over` is by how much
a name is longer than the `strnlen` that counts it allows.

`ServesUnlessMixed` compares the classes with the directions of the channels as
the document has them (`ScanDirections`, `ChannelDirections`), again without the
searches.

**CommandLine.** One action per stage of `main`. Arguments are opaque, with sets
that say which contain a colon or an at sign, which are numbers and which look
like an option and are none. getopt_long
is external: called once, it answers the first option and leaves `argv` in order.
The loop of `getDevices` is a recursive function of the argument it has reached.
What it should find is stated apart from it (`Lists`): the devices stand at
increasing places of the command line, and these are the places of an at sign.

## 3. Runs

| Run | Shows |
| --- | --- |
| `dac` | Under every order of commands, cut-off WRITEBUFs, cancellations and attribute writes: the copy loop never divides by zero (`NeverDividesByZero`), goes past the end only after a CLOSE (`OutOfBoundsOnlyAfterClose`), an accepted buffer is stored and indexed exactly (`AcceptedBufferPlays`), the device implements `CyclicPlayback` (`PlaybackSpec`), and a read ends (`ReadEnds`). |
| `logic_tx_at` | Violation: `at()` does throw, after a lost client. |
| `logic_rx` | The TX device keeps the DAC's promises (`AcceptedBufferPlays`, `PlaybackSpec`) and `at()` throws only after `cancel_buffer` (`ThrowsOnlyAfterCancel`); `DigitalLoop`: READBUFs at the writing rate return the written words round and round, through both resamplings; `GarbageReads`: an answer holds memory that nothing filled exactly at a rate above 100 MS/s, at one that is no number where that gives a ratio of 0, and in the half word of an odd number of bytes. |
| `adc` | With any rate, range and vertical offset: `SameWindow`: the pairs of an answer belong to the same time, each with its own channel's calibration, whatever the threads' interleaving; `InPhase`: the channels keep their phase from read to read; `ReadEnds`: a read ends, by an exception exactly if the oversampling ratio is no number or the ratio is 0. |
| `power_supply` | `MeasuresOutput`: the measurement follows raw and powerdown in every order; it states exactly which later write repairs a stray one. |
| `server` | On both platforms: the server watches exactly the open sockets (`WatchesOpenSockets`); every way out closes the listening socket once, except a failed accept on Windows, which closes it twice (`ListenClosedOnce`); reuse of descriptors never cancels a device another client opened last (`CancelsOnlyOwn`); when a lost client's buffer goes on playing (`LeftoverOnlyIfShared`). |
| `server_live` | `CommandsServed`: no client starves, in the accept queue or behind the others; `LostReleased`: every client that goes away is noticed; `StopsWhenServing`: where a signal is sure to stop the server. |
| `server_eagain` | Violation: `ret == EAGAIN` never matches `-EAGAIN`, so a signal in `select` ends the server with an error. |
| `loopback` | With every untested open, write and removal failing, kills and another emulator: `LossExplained`: which of these can lose a byte (a write or copy cut short, a file that does not open for a copy, a kill that leaves the data file incomplete, another emulator between the copies) and that no other does; `NeverTwice`: the three that can answer a byte twice, out of order or without it having been written (the scratch file does not open over an old one, the data file opens neither for the truncation nor for the copy back, another emulator between the copies); `UnreadBytesOnDisk`: at every instant what a read is to leave is on disk, if the copy to the scratch file was made in full and nobody replaced it. |
| `attributes` | `ReadsLastWrite`: no two addresses share a value; `ServedTextCurrent`, `AdvertisedIsFound`: the text made at the start and the live document agree for ever; `FaultsExplained`: the two commands that end the emulator; `ServesUnlessMixed`: the linked devices that stream are served, each in its directions, except exactly those that stream out and have an input channel. |
| `command_line` | `HonouredExactly`: a command line of a documented form is never refused and gets its devices; which of its path, `-v` and port it gets, and which it does not; `MainTypeOK`: a port has 16 bits. |
| `gen_xml` | `BadFreeOnlyAfterDebugAttrs`: the one error path that frees what it does not own, and that it always does; `OnlyValuesLeak`: what is left allocated; `PrintsWholeDocument`: lengths counted, allocated and printed agree, unless a name is too long. |

`StopsWhenServing` is as wide as the code allows. Nothing wakes a thread that is
between the loop's test and `select`. A signal in `select` does, but leaves the
descriptor set full, so that idle clients look ready, and the thread blocks in
`recv` on the first of them; if none is connected, `accept` ends the server with
an error (`server_eagain`). On Windows nothing interrupts `select`.

`Conforms` takes the forms of all the documentation: the port after the path
(`src/README.md:9`), `-p` with a port anywhere after the path, `-v` at the end
(`main.cpp:80`), any path. The code does not do all of this, and
`HonouredExactly` is an equivalence for each part, so that the run shows where
it does not: a port after the path is read by nobody (only `-p` counts), so it is
honoured if it is the default one; `-v` at the end is ignored, and left among the
arguments, if `-p` comes before it (`main.cpp:70` reads one option); and a path
with a colon, as on Windows, is passed over by `getXMLPath`
(`input_parser.cpp:47`). These three are findings. Also, `main.cpp:129` exits
with 1 after a regular stop and with 0 after a failure, and `-p` before the
type or before the path is taken for one of them.

`GENERIC_EMULATOR.md:13` lets any RX or TX device be linked to a file.
`isOutputChannel` (`generic_xml_context.cpp:411`) takes a device for an output
only if it has no input channel, streaming or not; `ServesUnlessMixed` states
that the devices this leaves out are exactly those, `device0` of the run among
them. This is a finding too.

`GENERIC_EMULATOR.md:31` promises that the output of the TX device is the input
of the RX device. `LossExplained` says when: no write is tested, nor an open after
the first, so a full disk or a scratch file that does not open goes unnoticed
while the data file is truncated all the same; and two emulators started in one
directory, even on different data files, destroy each other's scratch file.

**Bounds.** Every unbounded quantity has a named bound (`MaxChunk`,
`MaxSamples`, `MaxRead`, `MaxLen`, `MaxClock`, `MaxBytes`, `MaxFaults`,
`MaxKills`, `MaxOthers`) in a guard. Buffers of up to four (six) samples with reads of up to
three, chunks of up to two and ratios 1 and 2 contain every relation of buffer
end, read end and group end: a read inside the buffer, up to its end, over it
once, and over it several times. Two sample values tell positions apart. `dac`
has one rate outside the table, `adc` and `logic_rx` one above the maximum and one
of 0 with both outcomes; a READBUF of `logic_rx` has up to seven bytes, odd
numbers among them.
`server` has two connections, two descriptors and two devices: enough for a
descriptor to be reused, for two devices to remember one descriptor, and for a
descriptor never to be given out again; the connections are interchangeable and
only safety is checked, so their symmetry is sound. Clients open both devices,
and close and write the second. `server_live` has three connections and two
descriptors (so that accept can fail) on Unix, two connections on Windows, no
devices and no symmetry. `loopback` has five bytes in chunks of up to two, reads
of up to three (shorter than, as long as and longer than the file), two kills
(so that a restart inherits a scratch file and is killed again), two failures
(an old scratch file takes one, and is copied back by another; a data file that
is not opened twice takes two) and one step of the other emulator. With these
each exemption of the three properties is necessary: without any one of them
TLC finds a counterexample. `adc` has buffers whose lengths divide neither each other
nor a read, equal, different and unknown ranges, offsets that are zero,
differ between the channels or are out of range, an oversampling ratio of 0 and
one that is no number. `gen_xml` has contexts of up to two devices with up to two
channels, with and without attributes of each kind, and names that are too long
by the length of a part or of more than one, so that a part is dropped; any
allocation of any of them may fail. `attributes` starts from an unreadable
document, one without white space, one with, and one without values; in them
channels of both directions share an id and all attributes a name. Its five
devices stream in, out, out beside an input channel, in both directions and not
at all. `command_line` takes all sequences of up to five of eight arguments,
which holds every pair of options around a path, with a colon or without, a port
and a device, and all of up to four of thirteen, with other options and ports.

**Deadlock.** Every model may stop: the process ends, or no client does
anything more. The check for deadlock is off.

**Fairness.** `dac`, `adc`: the copying threads and the handler that joins them
keep running, nothing in them blocks. `server_live`: the server's thread runs
whenever one of its steps can be taken, and a client that began a command
finishes it or goes away (TCP keepalive, set in `accept`, detects the lost
ones). Without the second, a silent client holds the server for ever, which is
what the blocking socket does. What depends on the kernel (`KernelStep`:
`SelectFails`, `ReadShort`, and the `recv` of Windows that would block) is never
forced. A Windows server that hangs in `getData` serves nobody: the properties
except it.

## 4. Proofs

Each theorem holds for all values of the constants that satisfy the module's
named assumption: any number of connections, devices, nodes or bytes, any rates
and bounds. No safety invariant is inductive alone; each proof module states
the one that is (`IInv`, for `main` `MainInv`, and a second one on top of it
where a property needs more), and has one step per action. The lemmas on the operators come first.

| Module | Theorems | What the inductive invariant adds |
| --- | --- | --- |
| `M2kDACProofs` | `TypeCorrect`, `NoDivisionByZero`, `OutOfBoundsNeedsClose`, `AcceptedBufferIsExact`, `ImplementsPlayback` (the refinement of `CyclicPlayback`) | `m_samples` holds what a clean WRITEBUF has supplied so far (`WrittenIsStored`); the write after a complete WRITEBUF will reset (`ResetPending`); nothing counts as written between WRITEBUFs (`NothingWritten`); the index is in the buffer unless a CLOSE was handled (`IndexInBuffer`) |
| `M2kLogicProofs` | of the composition `RXSpec`: `TypeCorrect`, `ThrowNeedsCancel`, `AcceptedBufferIsExact`, `ImplementsPlayback`, `AnswersAreFilled`, `LoopIsCyclic` (the refinement of `CyclicPlayback` by the whole loop) | the same for words (`WrittenIsStored`, `ReadyForWrite`, `IndexInBuffer` unless cancelled, `ReadHasSamples`); for the loop, samples copied and to copy make up the read (`ReadCounts`), and at the writing rate they are the repetitions of the words from the next one on, and the index is where they end (`InLoop`) |
| `M2kADCProofs` | `TypeCorrect`, `KeepsPhase`, `ReadsSameWindow` | in the middle of a read, a DAC's index is the clock and what its thread has taken, modulo the buffer (`Phase`, with `InTime`, `NothingToTake`, `NothingAsked`); what the thread has collected is what the DAC plays from the clock on (`OnTape`), converted as the document said when the read began (`AsWritten`) |
| `PowerSupplyProofs` | `TypeCorrect`, `MeasurementCorrect` | the cache holds the conversion of raw once raw was written (`CacheFollowsRaw`) |
| `TcpServerProofs` | `TypeCorrect`, `WatchesCorrect`, `ClosesOnce`, `LeftoverCorrect`, `CancelsOwn` (an action property) | open sockets have descriptors of their own (`DistinctFds`); the ready clients are watched ones (`ActiveWatched`); a device remembers the descriptor of its last opener while that is connected (`OpenersFd`); and what holds before `listen` and before the end |
| `TcpServerProofs`, second part: `main`, which builds the server and starts it | of `MainSpec`: `MainTypeCorrect`, `CommandLineHonoured` | after `handleOptions` the port and the verbosity are those of the command line (`AsRead`), before it the initial ones (`NotRead`); the arguments of the context are all from the second on, less the `-v` that was read (`Collected`); a server that is built was given a path or `nullptr` (`PathChosen`) |
| `GenericLoopbackProofs` | `NothingLostOnDisk`, `NothingLost`, `AnsweredOnce` | at each step of `read_dev` one named place holds what is to stay, unless something has gone wrong with it (`Untouched`, `Saved`), and after a kill one of them still does (`Survives`); what was answered followed by what is still to be read (`Stream`) is in order, and complete, unless one of the failures named happened (`Ordered`, `Complete`), because of what the two files hold at each step (`Emptied`, `Scratched`, `Returned`) |
| `XmlContextProofs` | `TypeCorrect`, `ReadsWhatWasWritten`, `FindsWhatIsAdvertised`, `TextNeverStale`, `OnlyKnownFaults`, `ClassFits` | the document stays well formed, and the history of an address is the value of the node it names (`Holds`) |
| `GenXmlProofs` | `Invariance`, `FreesOnlyWhatItHolds`, `LeavesOnlyValues`, `PrintsItWhole` | the label and the counters say what is allocated (`Owned`, of the context, of the device and of the channel under way), all of it is (`HeapAt`), and what else is allocated is a value, or a context attribute being freed or left unprinted (`Stray`); where the counters stand at each label (`Places`); no error without a failure before it and no part lost (`Whole`) |

How they go. For the first two refinements, one run of the copy loop in bounds
is the cyclic continuation of the pattern, including the wrap of the index
(`RunIsCyclic`); the input device's READBUF is a step of the output device with
a read of any length (`AnyNext`), so the proof about `M2kLogicTX` carries over
to the composition.

`LoopIsCyclic` goes from there to the words. Repeating n words r times puts the
j-th repetition of word m at place m * r + j, round and round
(`RepeatedPosition`, by the uniqueness of quotient and remainder); so the i-th
group of the samples of a READBUF holds one word r times, also where it wraps
(`GroupOfWord`), a group of equal words elects that word (`EqualVote`), and the
answer is the words that follow (`AnswerIsCyclic`).

`KeepsPhase` rests on the arithmetic of remainders. `ReadsSameWindow` follows
each reader thread along a tape of what its DAC plays; once both are joined, the
i-th group of each channel is the i-th window of its tape (`AverageIs`). For
`GenericLoopback` the stream of bytes does not change while `read_dev` moves
them between files; a kill or a failing write cuts it (a prefix of a stream in
order is in order, `LessInOrder`), and never reorders it. For `XmlContext`,
`FindIsRight` shows that the searches find exactly the node an address names, or
nothing (the null pointer only if the last child is a channel), `OneAddress`
that no node is named by two addresses, and `ShapeKeepsNames` that neither a
write nor the making of the text changes what an address names. `TestsAreRight`
and `ClassChosen` do the same for the two tests of the constructor and the class
they lead to.

`GenXmlProofs` has one lemma per action (`...Keeps`): the action owns, after it,
what it owned before, less what it freed, and what it allocated. Blocks of the
context, of a device and of a channel differ in their names (`ContextApart`,
`DeviceApart`, `ChannelApart`), so a step inside a device leaves the context's
alone (`InsideStep`). The error labels free what the counters reached, which is
why the counter that is run down past 0 is the one that frees too much. For the
lengths, the room after n parts is what was counted less the n-th partial sum
(`RoomIs`, `AttrRoomIs`), so without a name that is too long each part fits and
one byte, the NUL, is left.

The library's induction theorems take an operator as a parameter, which the
provers cannot instantiate. Where a proof needs induction (that `Sum` is defined
on every sequence and gives an integer, that no partial sum of the lengths is
larger than the last, that a search that finds nodes has a first one) it is
stated over sets: a set of naturals that is not empty has a least element
(`Least`, from the well-foundedness of `<`), hence one that holds 0 and each
successor is all of them (`SetInduction`).

For `CommandLineHonoured`, the first option of a command line of a documented
form is the port's, or else the `-v` at its end, or there is none (`OptionIs`),
which says what is asked and read of both (`AsAsked`). After each argument
`getDevices` has found those with an at sign up to there (`OneMore`,
`DevicesFound`), which does not depend on how many follow; and the arguments the
context gets hold all of them, shifted by one (`SameDevices`), because neither
the type nor `-v` has an at sign. `getXMLPath` answers the first of these
arguments if and only if it has no colon (`PathIs`). What is assumed of the
arguments beyond their types is what their characters imply: no option, number
or type has an at sign, and no number is an option.

Only model-checked: liveness under fairness (`ReadEnds`, `CommandsServed`,
`LostReleased`, `StopsWhenServing`), which the prover does not reach. Every
invariant and action property of the passing runs is proved.

## 5. Not modelled

Formatting and logging, and the parsing inside libtinyiiod and getopt. The
content of answers and errors of `send`: no client waits for one in the models.
`get_mask` and the mask of the generic devices, which only their answers show.

Of what clients may write to an attribute: a rate of 0 or text is in `M2kADC` and
`M2kLogicRX`, but not in the two output devices, whose resampling would divide by
it; an `oversampling_ratio` that is text throws in `M2kDAC`
(`m2k_dac.cpp:139`) as it does in `M2kADC`, where it is modelled; negative rates
and ratios, and ratios so large that a vector cannot be allocated, are in no
model. READBUFs and WRITEBUFs are of whole samples but for those of
`M2kLogicRX`: an odd rest is dropped by the writes, and read past the end of a
vector by `m2k_adc.cpp:128` as by `m2k_logic_rx.cpp:84`.

Of the loop-back file: the first read of `read_dev` does not fail. A second read
that fails cuts the copy short, as a write does (`"copy"`).

Of the command line: `--`, at which getopt reorders the arguments; long options,
which getopt reads as the short ones (their array has no terminator, so an
unknown one is looked for past its end); and `buildOps` comparing a prefix of the
type (`factory_ops.cpp:54`), so that `genericX` is `generic` too.

The trigger, timeout and instance operations, which answer an error and change
nothing. `read_context_attr`, which only the constructor of `Adalm2000Context`
calls, on its built-in document. `FD_SET` of a descriptor above `FD_SETSIZE`: TLC
cannot hold that many. The terminator `strncpy` leaves out of `m_device_id`:
the device tables hold the ids the constructor was given. The hazards that no
property covers, with the reasons, are in PROJECT.json.

## 6. Plan

1. `XmlContext` under `Adalm2000Context::chWriteAttr` and `loadCalibValues`,
   instead of variables per attribute in `PowerSupply` and `M2kADC`.
2. Answers: what a short `send` leaves of one, and the client that waits for it.
