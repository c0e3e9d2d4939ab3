------------------------------ MODULE TcpServer ------------------------------
(***************************************************************************)
(* The server loop (networking/tcp_server.cpp) over its listening socket   *)
(* and its clients (network_unix.cpp and socket_unix.cpp, network_win.cpp  *)
(* and socket_win.cpp), composed with the devices the clients' commands    *)
(* act on (DeviceRegistry).  One thread runs the loop; clients, the        *)
(* kernel's accept queue and signals act between any two of its steps.     *)
(* Client sockets block, or are read in a busy loop on Windows: a command  *)
(* whose rest has not arrived holds the whole server.                      *)
(*                                                                         *)
(* The vector of clients is a set: the model serves the ready ones in every *)
(* order, the code's among them.                                           *)
(***************************************************************************)
EXTENDS DeviceRegistry

\* A command on a device, or one that changes no device (attributes, PRINT...).
Commands == ({"open", "close", "writebuf"} \X Devices) \cup {<<"other", NoConn>>}

CONSTANTS
    m_listenSocket,   \* the descriptor of the listening socket
    Requests,         \* the commands the clients send
    Arrivals          \* for each platform the server may be built for, the
                      \* connections that are made to it (a bound)

ASSUME ServerAssumption ==
    /\ m_listenSocket \in Nat
    /\ \A fd \in FDs : m_listenSocket < fd   \* it is opened first
    /\ Requests \subseteq Commands
    /\ DOMAIN Arrivals \subseteq {"unix", "windows"}
    /\ \A p \in DOMAIN Arrivals : Arrivals[p] \subseteq Conns

VARIABLES
    platform,    \* what this server was built for
    lastError,   \* what WSAGetLastError remembers of the last failed recv
    hung,        \* the thread is in getData's loop for ever
    pc,          \* where the server's thread is
    running,
    interrupted, \* a signal arrived while the thread was blocked in select
    listening,   \* the listening socket is open
    clients,     \* the descriptors the server watches
    isset,       \* m_fd_set; {} once getActiveConnections has used it
    active,      \* the snapshot of ready clients, less those already served
    backlog,     \* connections waiting to be accepted
    conn,        \* each connection as the server sees it
    fdOf,        \* its descriptor
    peerUp,      \* its other end has not closed it
    inbox,       \* what has arrived of its next command
    hCloses,     \* history: how often the listening socket was closed
    hCause,      \* history: why the loop was left with an error
    hShared      \* history: connections whose descriptor another device remembered

network == <<clients, isset, active, conn, fdOf>>
peers == <<backlog, peerUp, inbox>>
control == <<running, interrupted>>
ending == <<listening, hCloses, hCause>>
winsock == <<platform, lastError, hung>>
vars == <<registry, network, peers, control, ending, pc, hShared, winsock>>

\* A command under way: its line is incomplete, or its payload for a device is.
Payloads == {<<"payload", d>> : d \in {k \in Devices : <<"writebuf", k>> \in Requests}}
Underway == {<<"line", NoConn>>} \cup Payloads
NoCommand == <<"nothing", NoConn>>

Ended == pc \in {"stopped", "failed"}
Over == Ended \/ hung
OpenFds == {fdOf[c] : c \in {k \in Conns : conn[k] \in {"open", "leaked"}}}
Free == FDs \ OpenFds
Ready(c) == inbox[c] # NoCommand \/ ~peerUp[c]
ConnOf(fd) == CHOOSE c \in Conns : conn[c] = "open" /\ fdOf[c] = fd

Init ==
    /\ RegistryInit
    /\ platform \in DOMAIN Arrivals /\ lastError = "none" /\ hung = FALSE
    /\ pc = "open" /\ running = TRUE /\ interrupted = FALSE
    /\ listening = FALSE /\ clients = {} /\ isset = {} /\ active = {}
    /\ backlog = {}
    /\ conn = [c \in Conns |-> "new"] /\ fdOf = [c \in Conns |-> NoFd]
    /\ peerUp = [c \in Conns |-> TRUE] /\ inbox = [c \in Conns |-> NoCommand]
    /\ hCloses = 0 /\ hCause = "none"
    /\ hShared = {}

-----------------------------------------------------------------------------
(* The clients, the kernel and signals. *)

Connect(c) ==
    /\ listening /\ c \in Arrivals[platform] /\ conn[c] = "new"
    /\ conn' = [conn EXCEPT ![c] = "pending"]
    /\ backlog' = backlog \cup {c}
    /\ UNCHANGED <<registry, clients, isset, active, fdOf, peerUp, inbox, control,
                   ending, pc, hShared, winsock>>

\* Bytes of the next command arrive: some, or all that is left of it.
Receive(c, what) ==
    /\ ~Over /\ conn[c] \in {"pending", "open"} /\ peerUp[c]
    /\ \/ inbox[c] = NoCommand /\ what \in Underway \cup Requests
       \/ inbox[c][1] = "line" /\ what \in Payloads \cup Requests
       \/ inbox[c][1] = "payload" /\ what = <<"writebuf", inbox[c][2]>>
    /\ inbox' = [inbox EXCEPT ![c] = what]
    /\ UNCHANGED <<registry, network, backlog, peerUp, control, ending, pc, hShared, winsock>>

\* The other end closes the connection or is lost.
PeerLeaves(c) ==
    /\ ~Over /\ conn[c] \in {"pending", "open"} /\ peerUp[c]
    /\ peerUp' = [peerUp EXCEPT ![c] = FALSE]
    /\ UNCHANGED <<registry, network, backlog, inbox, control, ending, pc, hShared, winsock>>

\* TcpServer::stop, the handler of SIGINT, SIGILL and SIGTERM.
stop ==
    /\ ~Over /\ running
    /\ running' = FALSE
    /\ interrupted' = (pc = "select")
    /\ UNCHANGED <<registry, network, peers, ending, pc, hShared, winsock>>

-----------------------------------------------------------------------------
(* TcpServer::start *)

\* Mutant: an error path that leaves the listening socket open.
Fail_keeps_listening(cause) ==
    /\ pc' = "failed" /\ hCause' = cause
    /\ UNCHANGED <<listening, hCloses>>

\* A step of the set-up or of checkForNewConnections gives up: it closes the
\* listening socket, and start leaves without closing it again.
Fail(cause) ==
    /\ pc' = "failed" /\ hCause' = cause
    /\ listening' = FALSE /\ hCloses' = hCloses + 1

\* NetworkUnix::open; without a socket there is nothing to close.
open ==
    /\ platform = "unix" /\ pc = "open"
    /\ \/ pc' = "bind" /\ UNCHANGED ending
       \/ pc' = "failed" /\ hCause' = "socket" /\ UNCHANGED <<listening, hCloses>>
       \/ Fail("open")
    /\ UNCHANGED <<registry, network, peers, control, hShared, winsock>>

bind ==
    /\ pc = "bind"
    /\ \/ pc' = "listen" /\ UNCHANGED ending
       \/ Fail("bind")
    /\ UNCHANGED <<registry, network, peers, control, hShared, winsock>>

listen ==
    /\ pc = "listen"
    /\ \/ pc' = "loop" /\ listening' = TRUE /\ UNCHANGED <<hCloses, hCause>>
       \/ Fail("listen")
    /\ UNCHANGED <<registry, network, peers, control, hShared, winsock>>

\* Mutant: the loop goes on after a signal.
Loop_ignores_running ==
    /\ pc = "loop"
    /\ pc' = "setup"
    /\ UNCHANGED <<registry, network, peers, control, ending, hShared, winsock>>

\* while (running); the listening socket is closed when the loop is left.
Loop ==
    /\ pc = "loop"
    /\ pc' = IF running THEN "setup" ELSE "stopped"
    /\ listening' = (listening /\ running)
    /\ hCloses' = IF running THEN hCloses ELSE hCloses + 1
    /\ UNCHANGED <<registry, network, peers, control, hCause, hShared, winsock>>

\* checkForNewConnections builds the set and enters select.
EnterSelect ==
    /\ pc = "setup"
    /\ isset' = {m_listenSocket} \cup clients
    /\ pc' = "select"
    /\ UNCHANGED <<registry, clients, active, conn, fdOf, peers, control, ending, hShared, winsock>>

\* select returns the ready descriptors; it waits for the first one.
SelectReady ==
    /\ pc = "select"
    /\ isset' = {fd \in clients : Ready(ConnOf(fd))}
                    \cup (IF backlog # {} THEN {m_listenSocket} ELSE {})
    /\ isset' # {}
    /\ pc' = "accept"
    /\ interrupted' = FALSE
    /\ UNCHANGED <<registry, clients, active, conn, fdOf, peers, running,
                   ending, hShared, winsock>>

\* select returns EINTR and leaves the set as it was: everything looks ready.
SelectInterrupted ==
    /\ platform = "unix"
    /\ pc = "select" /\ interrupted
    /\ interrupted' = FALSE
    /\ pc' = "accept"
    /\ UNCHANGED <<registry, network, peers, running, ending, hShared, winsock>>

\* select fails for any other reason (no memory, a closed descriptor).
SelectFails ==
    /\ pc = "select"
    /\ Fail("select")
    /\ UNCHANGED <<registry, network, peers, control, hShared, winsock>>

\* Mutant: only the first ready client is served in a round.
getActiveConnections_first ==
    {fd \in clients \cap isset : \A other \in clients \cap isset : fd <= other}

\* A client accepted in this round is not in the set.
getActiveConnections == clients \cap isset

NoNewConnection ==
    /\ pc = "accept" /\ m_listenSocket \notin isset
    /\ active' = getActiveConnections /\ isset' = {}
    /\ pc' = "serve"
    /\ UNCHANGED <<registry, clients, conn, fdOf, peers, control, ending, hShared, winsock>>

\* The kernel gives the lowest free descriptor.
NewFd(fd) == fd \in Free /\ \A other \in Free : fd <= other

\* The connection is watched from now on; it is not served in this round.
Accepted(c, fd) ==
    /\ pc = "accept" /\ m_listenSocket \in isset
    /\ c \in backlog
    /\ backlog' = backlog \ {c}
    /\ conn' = [conn EXCEPT ![c] = "open"]
    /\ fdOf' = [fdOf EXCEPT ![c] = fd]
    /\ clients' = clients \cup {fd}
    /\ active' = getActiveConnections /\ isset' = {}
    /\ pc' = "serve"
    /\ UNCHANGED <<registry, peerUp, inbox, control, ending, hShared, winsock>>

accept(c, fd) ==
    /\ platform = "unix" /\ NewFd(fd)
    /\ Accepted(c, fd)

\* ::accept fails: no connection waits any more, or no descriptor is free.
\* The caller compares the -EAGAIN it gets with EAGAIN, and gives up.
accept_fails ==
    /\ platform = "unix"
    /\ pc = "accept" /\ m_listenSocket \in isset
    /\ \/ backlog = {} /\ Fail("EAGAIN")
       \/ backlog # {} /\ Free = {} /\ Fail("EMFILE")
    /\ UNCHANGED <<registry, network, peers, control, hShared, winsock>>

\* A setsockopt on the new socket fails: it is neither watched nor closed.
accept_leaks(c, fd) ==
    /\ platform = "unix"
    /\ pc = "accept" /\ m_listenSocket \in isset
    /\ c \in backlog /\ NewFd(fd)
    /\ backlog' = backlog \ {c}
    /\ conn' = [conn EXCEPT ![c] = "leaked"]
    /\ fdOf' = [fdOf EXCEPT ![c] = fd]
    /\ Fail("setsockopt")
    /\ UNCHANGED <<registry, clients, isset, active, peerUp, inbox, control, hShared, winsock>>

-----------------------------------------------------------------------------
(* Windows.  Nothing interrupts select there, and an accepted socket does   *)
(* not block, as the listening one does not.                                *)

\* NetworkWin::close: the socket and the library, each time it is called.
WinClose(times) == listening' = FALSE /\ hCloses' = hCloses + times

\* NetworkWin::open starts the library first, and leaves it started or not with
\* the socket.
WinOpen ==
    /\ platform = "windows" /\ pc = "open"
    /\ \/ pc' = "bind" /\ UNCHANGED ending
       \/ pc' = "failed" /\ hCause' = "socket" /\ UNCHANGED <<listening, hCloses>>
       \/ pc' = "failed" /\ hCause' = "open" /\ WinClose(1)
    /\ UNCHANGED <<registry, network, peers, control, hShared, winsock>>

\* The socket may be any that is free.
WinAccept(c, fd) ==
    /\ platform = "windows" /\ fd \in Free
    /\ Accepted(c, fd)

\* A setsockopt on the new socket fails: that socket is closed, then the server.
WinAcceptRefused(c) ==
    /\ platform = "windows" /\ pc = "accept" /\ m_listenSocket \in isset
    /\ c \in backlog /\ backlog' = backlog \ {c}
    /\ conn' = [conn EXCEPT ![c] = "closed"]
    /\ pc' = "failed" /\ hCause' = "setsockopt" /\ WinClose(1)
    /\ UNCHANGED <<registry, clients, isset, active, fdOf, peerUp, inbox, control, hShared, winsock>>

\* ::accept fails, because the connection that waited has gone or no socket is
\* free: accept closes the listening socket, and so does its caller.
WinAcceptFails(c) ==
    /\ platform = "windows" /\ pc = "accept" /\ m_listenSocket \in isset
    /\ c \in backlog /\ (~peerUp[c] \/ Free = {})
    /\ backlog' = backlog \ {c}
    /\ conn' = [conn EXCEPT ![c] = "closed"]
    /\ pc' = "failed" /\ hCause' = "accept" /\ WinClose(2)
    /\ UNCHANGED <<registry, clients, isset, active, fdOf, peerUp, inbox, control, hShared, winsock>>

\* getData finds the rest of a command missing, and asks again.
WinWouldBlock(fd) ==
    /\ platform = "windows" /\ pc = "serve" /\ fd \in active
    /\ inbox[ConnOf(fd)] \in Underway /\ peerUp[ConnOf(fd)]
    /\ lastError' = "WSAEWOULDBLOCK"
    /\ UNCHANGED <<registry, network, peers, control, ending, pc, hShared,
                   platform, hung>>

\* recv returns 0, the connection was closed, which is no error: getData looks
\* at the error all the same, and asks again if an earlier recv left one.
WinHangs(fd) ==
    /\ platform = "windows" /\ pc = "serve" /\ fd \in active
    /\ ~peerUp[ConnOf(fd)] /\ inbox[ConnOf(fd)] \notin Requests
    /\ lastError = "WSAEWOULDBLOCK"
    /\ hung' = TRUE
    /\ UNCHANGED <<registry, network, peers, control, ending, pc, hShared,
                   platform, lastError>>

-----------------------------------------------------------------------------
(* One iteration of the loop over the active clients: tinyiiod_read_command. *)

\* The operations libtinyiiod calls for a command, through the wrappers of
\* tinyiiod_ops_wrapper.cpp.
Dispatch(command, c, fd) ==
    LET d == command[2]
    IN  \/ command[1] = "open" /\ openDev(d, c, fd)
        \/ command[1] = "close" /\ closeDev(d)
        \/ command[1] = "writebuf" /\ writeDev(d, c)
        \/ command[1] = "other" /\ UNCHANGED registry

\* The whole command has arrived: its handler runs.  The answer to a peer that
\* has gone may fail to be sent, and the connection is then found lost at once.
ReadCommand(fd) ==
    LET c == ConnOf(fd)
    IN  /\ pc = "serve" /\ fd \in active
        /\ inbox[c] \in Requests
        /\ Dispatch(inbox[c], c, fd)
        /\ inbox' = [inbox EXCEPT ![c] = NoCommand]
        /\ \/ active' = active \ {fd}
           \/ ~peerUp[c] /\ UNCHANGED active
        /\ UNCHANGED <<clients, isset, conn, fdOf, backlog, peerUp, control,
                       ending, pc, hShared, winsock>>

\* getData reports the length it was asked for, whatever recv returned: a short
\* last piece of a payload ends the command, and what follows is taken for
\* the next one.
ReadShort(fd) ==
    LET c == ConnOf(fd)
    IN  /\ pc = "serve" /\ fd \in active
        /\ inbox[c][1] = "payload"
        /\ Dispatch(<<"writebuf", inbox[c][2]>>, c, fd)
        /\ inbox' = [inbox EXCEPT ![c] = NoCommand]
        /\ active' = active \ {fd}
        /\ UNCHANGED <<clients, isset, conn, fdOf, backlog, peerUp, control,
                       ending, pc, hShared, winsock>>

\* Part of a payload has arrived: it reaches the device at once.
ReadPayload(fd) ==
    LET c == ConnOf(fd)
    IN  /\ pc = "serve" /\ fd \in active
        /\ inbox[c][1] = "payload" /\ buffer[inbox[c][2]] # c
        /\ writeDev(inbox[c][2], c)
        /\ UNCHANGED <<network, peers, control, ending, pc, hShared, winsock>>

\* Mutant: the server forgets to stop watching the closed descriptor.
disconnectSocket_forgotten(fd) == clients

disconnectSocket(fd) == clients \ {fd}

\* recv or send finds the connection lost: the socket is closed, the device
\* cancelled, the client forgotten.
ServeDisconnected(fd) ==
    LET c == ConnOf(fd)
    IN  /\ pc = "serve" /\ fd \in active
        /\ ~peerUp[c] /\ inbox[c] \notin Requests
        /\ conn' = [conn EXCEPT ![c] = "closed"] /\ fdOf' = [fdOf EXCEPT ![c] = NoFd]
        /\ socketDisconnected(fd)
        /\ clients' = disconnectSocket(fd)
        /\ active' = active \ {fd}
        /\ inbox' = [inbox EXCEPT ![c] = NoCommand]
        /\ hShared' = IF \E m, n \in Matching(fd) : m # n THEN hShared \cup {c} ELSE hShared
        /\ UNCHANGED <<isset, backlog, peerUp, control, ending, pc, winsock>>

EndServe ==
    /\ pc = "serve" /\ active = {}
    /\ pc' = "loop"
    /\ UNCHANGED <<registry, network, peers, control, ending, hShared, winsock>>
-----------------------------------------------------------------------------
\* The steps the thread takes whenever they can be taken; SelectFails, ReadShort
\* and what Windows remembers of an error depend on the kernel.
ServerStep ==
    /\ ~hung
    /\ \/ open \/ WinOpen \/ bind \/ listen \/ Loop \/ EnterSelect \/ SelectReady \/ SelectInterrupted
       \/ NoNewConnection \/ accept_fails
       \/ \E c \in Conns, fd \in FDs : accept(c, fd) \/ accept_leaks(c, fd) \/ WinAccept(c, fd)
       \/ \E c \in Conns : WinAcceptRefused(c) \/ WinAcceptFails(c)
       \/ \E fd \in FDs : ReadCommand(fd) \/ ReadPayload(fd) \/ ServeDisconnected(fd)
       \/ EndServe

KernelStep ==
    /\ ~hung
    /\ \/ SelectFails
       \/ \E fd \in FDs : ReadShort(fd) \/ WinWouldBlock(fd) \/ WinHangs(fd)

\* A client that began a command sends the rest of it, or goes away.
Finish(c) ==
    /\ inbox[c] \in Underway
    /\ PeerLeaves(c) \/ \E what \in Underway \cup Requests : Receive(c, what)

Next ==
    \/ ServerStep \/ KernelStep
    \/ \E c \in Conns : Connect(c) \/ PeerLeaves(c)
    \/ \E c \in Conns, what \in Underway \cup Requests : Receive(c, what)
    \/ stop

Spec == Init /\ [][Next]_vars

\* The thread runs; clients do not stop in the middle of a command for ever.
FairSpec == Spec /\ WF_vars(ServerStep) /\ \A c \in Conns : WF_vars(Finish(c))

-----------------------------------------------------------------------------
(* Properties *)

TypeOK ==
    /\ platform \in DOMAIN Arrivals /\ lastError \in {"none", "WSAEWOULDBLOCK"} /\ hung \in BOOLEAN
    /\ m_fd \in [Devices -> FDs \cup {NoFd}]
    /\ buffer \in [Devices -> Conns \cup {NoConn}]
    /\ hOpener \in [Devices -> Conns \cup {NoConn}]
    /\ pc \in {"open", "bind", "listen", "loop", "setup", "select", "accept", "serve",
               "stopped", "failed"}
    /\ running \in BOOLEAN /\ interrupted \in BOOLEAN /\ listening \in BOOLEAN
    /\ clients \subseteq FDs /\ active \subseteq FDs /\ isset \subseteq FDs \cup {m_listenSocket}
    /\ backlog \subseteq Conns
    /\ conn \in [Conns -> {"new", "pending", "open", "leaked", "closed"}]
    /\ fdOf \in [Conns -> FDs \cup {NoFd}]
    /\ peerUp \in [Conns -> BOOLEAN]
    /\ inbox \in [Conns -> Requests \cup Underway \cup {NoCommand}]
    /\ hCloses \in Nat /\ hShared \subseteq Conns

\* The server watches exactly the sockets that are open: no client that was
\* accepted is forgotten while it is connected, and select never sees a closed
\* descriptor (its EBADF would end the server for everybody).
WatchesOpenSockets ==
    ~Ended => clients = {fdOf[c] : c \in {k \in Conns : conn[k] = "open"}}

\* The listening socket is closed by whichever path leaves start, not before,
\* and once: checkForNewConnections closes it on its errors, start only
\* otherwise.  Only NetworkWin's accept, when it fails, has it closed twice, and
\* WSACleanup called more often than WSAStartup.
ListenClosedOnce ==
    /\ ~Ended => hCloses = 0
    /\ Ended => ~listening
    /\ Ended /\ hCause # "socket" =>
           hCloses = IF platform = "windows" /\ hCause = "accept" THEN 2 ELSE 1

\* Losing a connection leaves alone every device whose last OPEN came from a
\* connection that is still there, whatever descriptors were reused meanwhile.
CancelsOnlyOwn ==
    [][\A lost, c \in Conns, d \in Devices :
          (/\ conn[lost] = "open" /\ conn'[lost] = "closed"
           /\ c # lost /\ conn[c] = "open" /\ hOpener[d] = c)
          => buffer'[d] = buffer[d]]_vars

\* A device goes on playing the buffer of a lost client that had it open only
\* if another device remembered the same descriptor when the client was lost
\* (opened by it too, or by an earlier connection with that descriptor, or
\* never opened): socketDisconnected cancels one device.
LeftoverOnlyIfShared ==
    \A c \in Conns, d \in Devices :
        conn[c] = "closed" /\ buffer[d] = c /\ hOpener[d] = c => c \in hShared

\* Until it is told to stop, the server handles every whole command that
\* arrives, on connections that wait to be accepted too, or ends with an error:
\* no client starves behind the others or in the accept queue.  The exception is
\* a Windows server that hangs in getData.
CommandsServed ==
    \A c \in Conns :
        inbox[c] \in Requests ~> (inbox[c] \notin Requests \/ Over \/ ~running)

\* Likewise every client that goes away is noticed and forgotten, its device
\* cancelled, however much of a command it left behind.
LostReleased ==
    \A c \in Conns :
        (conn[c] = "open" /\ ~peerUp[c]) ~> (conn[c] # "open" \/ Over \/ ~running)

\* A signal stops the server when the thread is at the loop's test, or serves
\* clients that have all sent something or gone.  Elsewhere it may not: before
\* select nothing wakes the thread, and an interrupted select makes it serve idle
\* clients, on whose recv it blocks.
StopsWhenServing ==
    (~running /\ (pc = "loop" \/ (pc = "serve" /\ \A fd \in active : Ready(ConnOf(fd)))))
        ~> Over

\* checkForNewConnections' own test (ret == EAGAIN): an accept that finds no
\* connection is no error.
EAGAINIsNoError == hCause # "EAGAIN"
==============================================================================
