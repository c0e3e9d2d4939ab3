--------------------------- MODULE DeviceRegistry ---------------------------
(***************************************************************************)
(* The devices of a context and the connections that use them              *)
(* (iiod/context/generic_xml/generic_xml_context.cpp, abstract_device.cpp). *)
(* A device remembers the descriptor of the connection that opened it last, *)
(* and a lost connection cancels the device found by that descriptor.  The *)
(* descriptor is never erased, and the kernel reuses descriptors.          *)
(*                                                                         *)
(* A device's buffer is abstracted to the connection that filled it.       *)
(***************************************************************************)
EXTENDS Integers, Sequences

CONSTANTS
    m_devices,      \* the devices, in the order of addDevice
    ClearsOnClose,  \* those whose close_dev empties the buffer (M2kDAC)
    Conns,          \* the connections that are ever made
    FDs,            \* the descriptors the kernel gives to client sockets
    NoConn,         \* no connection
    NoFd            \* no such descriptor (e.g. what m_fd holds uninitialised)

Devices == {m_devices[i] : i \in DOMAIN m_devices}

ASSUME RegistryAssumption ==
    /\ m_devices \in Seq(Devices)
    /\ \A i, j \in DOMAIN m_devices : m_devices[i] = m_devices[j] => i = j
    /\ ClearsOnClose \subseteq Devices
    /\ FDs \subseteq Nat
    /\ NoFd \notin FDs
    /\ NoConn \notin Conns

VARIABLES
    m_fd,     \* the descriptor each device remembers
    buffer,   \* the connection whose samples each device holds
    hOpener   \* history: the connection that opened each device last

registry == <<m_fd, buffer, hOpener>>

\* The constructor of AbstractDevice leaves m_fd uninitialised.
RegistryInit ==
    /\ m_fd \in [Devices -> FDs \cup {NoFd}]
    /\ buffer = [d \in Devices |-> NoConn]
    /\ hOpener = [d \in Devices |-> NoConn]

\* Mutant: a device that is already open keeps its first opener's descriptor.
openDev_keeps_fd(d, c, fd) ==
    /\ m_fd' = IF hOpener[d] = NoConn THEN [m_fd EXCEPT ![d] = fd] ELSE m_fd
    /\ hOpener' = [hOpener EXCEPT ![d] = c]
    /\ UNCHANGED buffer

\* Mutant: setDescriptor is called with the wrong number.
openDev_wrong_number(d, c, fd) ==
    /\ m_fd' = [m_fd EXCEPT ![d] = c]
    /\ hOpener' = [hOpener EXCEPT ![d] = c]
    /\ UNCHANGED buffer

\* OPEN, by connection c on descriptor fd.
openDev(d, c, fd) ==
    /\ m_fd' = [m_fd EXCEPT ![d] = fd]
    /\ hOpener' = [hOpener EXCEPT ![d] = c]
    /\ UNCHANGED buffer

\* CLOSE, by any connection.
closeDev(d) ==
    /\ buffer' = IF d \in ClearsOnClose THEN [buffer EXCEPT ![d] = NoConn] ELSE buffer
    /\ UNCHANGED <<m_fd, hOpener>>

\* writeDev, with or without the transferMemToDev that ends a WRITEBUF.
writeDev(d, c) ==
    /\ buffer' = [buffer EXCEPT ![d] = c]
    /\ UNCHANGED <<m_fd, hOpener>>

\* Mutant: the search stops before the last device.
Matching_skips_last(fd) ==
    {i \in 1..(Len(m_devices) - 1) : m_fd[m_devices[i]] = fd}

\* getDevice(int fd): the positions of the devices it may return.
Matching(fd) == {i \in DOMAIN m_devices : m_fd[m_devices[i]] = fd}

\* The device that a lost connection on fd cancels: the first match, if any.
Cancelled(fd) ==
    {m_devices[i] : i \in {k \in Matching(fd) : \A j \in Matching(fd) : k <= j}}

socketDisconnected(fd) ==
    /\ buffer' = [d \in Devices |-> IF d \in Cancelled(fd) THEN NoConn ELSE buffer[d]]
    /\ UNCHANGED <<m_fd, hOpener>>
=============================================================================
