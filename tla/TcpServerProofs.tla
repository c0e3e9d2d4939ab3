--------------------------- MODULE TcpServerProofs ---------------------------
(***************************************************************************)
(* Proofs about the server loop and the devices of its clients, for any    *)
(* number of connections, descriptors and devices, on both platforms; and, *)
(* in the second part, about main, which builds the server and starts it   *)
(* on the port of the command line, for any command lines.                 *)
(***************************************************************************)
EXTENDS TcpServer, CommandLine, SequenceTheorems, WellFoundedInduction, TLAPS

\* The inductive invariant.  A connection that waits is in no other state; the
\* sockets that are open have descriptors of their own; the snapshot of ready
\* clients holds watched ones; only connections that were served have opened a
\* device; and a device remembers the descriptor of the one that opened it last
\* as long as that is open.  The listening socket is not open before listen, and
\* the loop has no error before it is left.
BacklogPending == \A c \in backlog : conn[c] = "pending"
LeakedOnlyAtEnd == ~Ended => \A c \in Conns : conn[c] # "leaked"
DistinctFds ==
    \A c, e \in Conns : conn[c] = "open" /\ conn[e] = "open" /\ fdOf[c] = fdOf[e] => c = e
ActiveWatched == ~Ended => active \subseteq clients
OpenersServed == \A d \in Devices : hOpener[d] # NoConn => conn[hOpener[d]] \in {"open", "closed"}
OpenersFd ==
    \A d \in Devices : hOpener[d] # NoConn /\ conn[hOpener[d]] = "open" => m_fd[d] = fdOf[hOpener[d]]
NotYetListening == pc \in {"open", "bind", "listen"} => ~listening
CauseAtEnd == ~Ended => hCause = "none"

Links == /\ WatchesOpenSockets
         /\ ListenClosedOnce
         /\ LeftoverOnlyIfShared
         /\ BacklogPending
         /\ LeakedOnlyAtEnd
         /\ DistinctFds
         /\ ActiveWatched
         /\ OpenersServed
         /\ OpenersFd
         /\ NotYetListening
         /\ CauseAtEnd

IInv == TypeOK /\ Links

-----------------------------------------------------------------------------
(* The clients the server serves. *)

\* A ready client is an open connection, the one the descriptor belongs to.
LEMMA ActiveConn ==
    ASSUME IInv, pc = "serve", NEW fd \in active
    PROVE  ConnOf(fd) \in Conns /\ conn[ConnOf(fd)] = "open" /\ fdOf[ConnOf(fd)] = fd
  <1>1. fd \in clients
    BY DEF IInv, Links, ActiveWatched, Ended
  <1>2. PICK c \in Conns : conn[c] = "open" /\ fdOf[c] = fd
    BY <1>1 DEF IInv, Links, WatchesOpenSockets, Ended
  <1> QED BY <1>2 DEF ConnOf

\* A payload under way is for a device.
LEMMA PayloadDevice ==
    ASSUME TypeOK, NEW c \in Conns, inbox[c][1] = "payload"
    PROVE  inbox[c][2] \in Devices
  <1>1. inbox[c] \in Requests \cup Underway \cup {NoCommand}
    BY DEF TypeOK
  <1>2. inbox[c] \notin Requests
    BY ServerAssumption DEF ServerAssumption, Commands
  <1>3. inbox[c] # NoCommand
    BY DEF NoCommand
  <1>4. inbox[c] \in Payloads
    BY <1>1, <1>2, <1>3 DEF Underway
  <1>5. PICK d \in Devices : inbox[c] = <<"payload", d>>
    BY <1>4 DEF Payloads
  <1> QED BY <1>5

\* What a command does to the devices.
LEMMA DispatchTypes ==
    ASSUME TypeOK, NEW command \in Commands, NEW c \in Conns, NEW fd \in FDs,
           Dispatch(command, c, fd)
    PROVE  \/ UNCHANGED registry
           \/ \E d \in Devices : openDev(d, c, fd) \/ closeDev(d) \/ writeDev(d, c)
  BY DEF Dispatch, Commands

-----------------------------------------------------------------------------
\* The constructor establishes the inductive invariant.
LEMMA InitIInv == Init => IInv
  <1> SUFFICES ASSUME Init PROVE IInv
    OBVIOUS
  <1>1. TypeOK
    BY RegistryAssumption, ServerAssumption
       DEF RegistryAssumption, ServerAssumption, Init, RegistryInit, TypeOK
  <1> QED
    BY <1>1 DEF Init, RegistryInit, IInv, Links, WatchesOpenSockets, ListenClosedOnce,
       LeftoverOnlyIfShared, BacklogPending, LeakedOnlyAtEnd, DistinctFds, ActiveWatched,
       OpenersServed, OpenersFd, NotYetListening, CauseAtEnd, Ended

\* The steps of set-up and the errors.  They touch the listening socket and no
\* client: it opens in listen, and whatever fails closes it, once.
LEMMA SetUp_IInv ==
    ASSUME IInv, open \/ WinOpen \/ bind \/ listen \/ accept_fails \/ SelectFails
    PROVE  IInv'
  <1>1. UNCHANGED <<registry, network, peers, control, hShared, winsock>>
    BY DEF open, WinOpen, bind, listen, accept_fails, SelectFails
  <1>2. ~Ended /\ hCloses = 0 /\ hCause = "none"
    BY DEF open, WinOpen, bind, listen, accept_fails, SelectFails, IInv, Links,
       ListenClosedOnce, CauseAtEnd, Ended
  <1>3. \/ /\ pc' \in {"bind", "listen", "loop"} /\ (pc' # "loop" => ~listening')
           /\ hCloses' = 0 /\ hCause' = "none"
        \/ /\ pc' = "failed" /\ ~listening'
           /\ \/ hCause' = "socket" /\ hCloses' = 0
              \/ hCause' # "accept" /\ hCloses' = 1
    <2>1. CASE open \/ WinOpen
      BY <1>2, <2>1 DEF open, WinOpen, WinClose, Fail, ending, IInv, Links, NotYetListening
    <2>2. CASE bind \/ listen
      BY <1>2, <2>2 DEF bind, listen, Fail, ending, IInv, Links, NotYetListening
    <2>3. CASE accept_fails \/ SelectFails
      BY <1>2, <2>3 DEF accept_fails, SelectFails, Fail
    <2> QED BY <2>1, <2>2, <2>3
  <1>4. listening' \in BOOLEAN
    BY DEF open, WinOpen, WinClose, bind, listen, accept_fails, SelectFails, Fail, ending,
       IInv, TypeOK
  <1>5. TypeOK'
    BY <1>1, <1>3, <1>4 DEF registry, network, peers, control, winsock, IInv, TypeOK
  <1>6. (ListenClosedOnce /\ NotYetListening /\ CauseAtEnd)'
    BY <1>3 DEF ListenClosedOnce, NotYetListening, CauseAtEnd, Ended
  <1>7. (WatchesOpenSockets /\ LeftoverOnlyIfShared /\ BacklogPending /\ LeakedOnlyAtEnd
            /\ DistinctFds /\ ActiveWatched /\ OpenersServed /\ OpenersFd)'
    BY <1>1, <1>2 DEF registry, network, peers, IInv, Links, WatchesOpenSockets,
       LeftoverOnlyIfShared, BacklogPending, LeakedOnlyAtEnd, DistinctFds, ActiveWatched,
       OpenersServed, OpenersFd
  <1> QED BY <1>5, <1>6, <1>7 DEF IInv, Links

-----------------------------------------------------------------------------
(* Commands and lost connections. *)

\* A command of a ready client, whole or in part: openDev remembers the
\* descriptor of an open connection, and a buffer is filled by one.
LEMMA Command_IInv ==
    ASSUME IInv, pc = "serve", NEW fd \in active, NEW c \in Conns, c = ConnOf(fd),
           \/ UNCHANGED registry
           \/ \E d \in Devices : openDev(d, c, fd) \/ closeDev(d) \/ writeDev(d, c),
           inbox' \in [Conns -> Requests \cup Underway \cup {NoCommand}],
           active' \subseteq active,
           UNCHANGED <<clients, isset, conn, fdOf, backlog, peerUp, control, ending,
                       pc, hShared, winsock>>
    PROVE  IInv'
  <1>1. conn[c] = "open" /\ fdOf[c] = fd
    BY ActiveConn
  <1>2. fd \in FDs
    BY DEF IInv, TypeOK
  <1>3. c # NoConn
    BY RegistryAssumption DEF RegistryAssumption
  <1>4. m_fd' \in [Devices -> FDs \cup {NoFd}]
    BY <1>2 DEF openDev, closeDev, writeDev, registry, IInv, TypeOK
  <1>5. buffer' \in [Devices -> Conns \cup {NoConn}] /\ hOpener' \in [Devices -> Conns \cup {NoConn}]
    BY DEF openDev, closeDev, writeDev, registry, IInv, TypeOK
  <1>6. TypeOK'
    BY <1>4, <1>5 DEF control, ending, winsock, IInv, TypeOK
  <1>7. (OpenersServed /\ OpenersFd)'
    <2>1. CASE UNCHANGED <<m_fd, hOpener>>
      BY <2>1 DEF IInv, Links, OpenersServed, OpenersFd
    <2>2. ASSUME NEW d \in Devices, openDev(d, c, fd) PROVE (OpenersServed /\ OpenersFd)'
      BY <2>2, <1>1 DEF openDev, IInv, TypeOK, Links, OpenersServed, OpenersFd
    <2> QED BY <2>1, <2>2 DEF closeDev, writeDev, registry
  <1>8. LeftoverOnlyIfShared'
    <2> SUFFICES ASSUME NEW e \in Conns, NEW k \in Devices,
                        conn[e] = "closed", buffer'[k] = e, hOpener'[k] = e
                 PROVE  e \in hShared
      BY DEF LeftoverOnlyIfShared
    <2>1. e # c /\ e # NoConn
      BY <1>1, RegistryAssumption DEF RegistryAssumption
    <2>2. buffer[k] = e
      BY <2>1 DEF openDev, closeDev, writeDev, registry, IInv, TypeOK
    <2>3. hOpener[k] = e
      BY <2>1 DEF openDev, closeDev, writeDev, registry, IInv, TypeOK
    <2> QED BY <2>2, <2>3 DEF IInv, Links, LeftoverOnlyIfShared
  <1>9. (WatchesOpenSockets /\ ListenClosedOnce /\ BacklogPending /\ LeakedOnlyAtEnd
            /\ DistinctFds /\ ActiveWatched /\ NotYetListening /\ CauseAtEnd)'
    BY DEF control, ending, winsock, IInv, Links, WatchesOpenSockets, ListenClosedOnce, BacklogPending,
       LeakedOnlyAtEnd, DistinctFds, ActiveWatched, NotYetListening, CauseAtEnd, Ended
  <1> QED BY <1>6, <1>7, <1>8, <1>9 DEF IInv, Links

\* A whole command.
LEMMA ReadCommand_IInv == ASSUME IInv, NEW fd \in FDs, ReadCommand(fd) PROVE IInv'
  <1> DEFINE c == ConnOf(fd)
  <1>1. pc = "serve" /\ fd \in active
    BY DEF ReadCommand
  <1>2. c \in Conns
    BY <1>1, ActiveConn
  <1>3. inbox[c] \in Commands /\ Dispatch(inbox[c], c, fd)
    BY ServerAssumption DEF ServerAssumption, ReadCommand
  <1>4. \/ UNCHANGED registry
        \/ \E d \in Devices : openDev(d, c, fd) \/ closeDev(d) \/ writeDev(d, c)
    BY <1>2, <1>3, DispatchTypes DEF IInv
  <1>5. inbox' \in [Conns -> Requests \cup Underway \cup {NoCommand}]
    BY DEF ReadCommand, IInv, TypeOK
  <1>6. /\ active' \subseteq active
        /\ UNCHANGED <<clients, isset, conn, fdOf, backlog, peerUp, control, ending,
                       pc, hShared, winsock>>
    BY DEF ReadCommand
  <1> QED BY <1>1, <1>2, <1>4, <1>5, <1>6, Command_IInv

\* A WRITEBUF whose last piece came short.
LEMMA ReadShort_IInv == ASSUME IInv, NEW fd \in FDs, ReadShort(fd) PROVE IInv'
  <1> DEFINE c == ConnOf(fd)
  <1>1. pc = "serve" /\ fd \in active /\ inbox[c][1] = "payload"
    BY DEF ReadShort
  <1>2. c \in Conns
    BY <1>1, ActiveConn
  <1>3. inbox[c][2] \in Devices
    BY <1>1, <1>2, PayloadDevice DEF IInv
  <1>4. <<"writebuf", inbox[c][2]>> \in Commands /\ Dispatch(<<"writebuf", inbox[c][2]>>, c, fd)
    BY <1>3 DEF ReadShort, Commands
  <1>5. \/ UNCHANGED registry
        \/ \E d \in Devices : openDev(d, c, fd) \/ closeDev(d) \/ writeDev(d, c)
    BY <1>2, <1>4, DispatchTypes DEF IInv
  <1>6. inbox' \in [Conns -> Requests \cup Underway \cup {NoCommand}]
    BY DEF ReadShort, IInv, TypeOK
  <1>7. /\ active' \subseteq active
        /\ UNCHANGED <<clients, isset, conn, fdOf, backlog, peerUp, control, ending,
                       pc, hShared, winsock>>
    BY DEF ReadShort
  <1> QED BY <1>1, <1>2, <1>5, <1>6, <1>7, Command_IInv

\* A piece of a WRITEBUF.
LEMMA ReadPayload_IInv == ASSUME IInv, NEW fd \in FDs, ReadPayload(fd) PROVE IInv'
  <1> DEFINE c == ConnOf(fd)
  <1>1. pc = "serve" /\ fd \in active /\ inbox[c][1] = "payload"
    BY DEF ReadPayload
  <1>2. c \in Conns
    BY <1>1, ActiveConn
  <1>3. inbox[c][2] \in Devices /\ writeDev(inbox[c][2], c)
    BY <1>1, <1>2, PayloadDevice DEF IInv, ReadPayload
  <1>4. inbox' \in [Conns -> Requests \cup Underway \cup {NoCommand}]
    BY DEF ReadPayload, peers, IInv, TypeOK
  <1>5. /\ active' \subseteq active
        /\ UNCHANGED <<clients, isset, conn, fdOf, backlog, peerUp, control, ending,
                       pc, hShared, winsock>>
    BY DEF ReadPayload, network, peers
  <1> QED BY <1>1, <1>2, <1>3, <1>4, <1>5, Command_IInv

\* If the descriptor of the lost connection is remembered by one device only,
\* that is the device socketDisconnected cancels.
LEMMA OnlyMatchCancelled ==
    ASSUME NEW fd, NEW d \in Devices, m_fd[d] = fd,
           \A m, n \in Matching(fd) : m = n
    PROVE  d \in Cancelled(fd)
  <1>1. PICK i \in DOMAIN m_devices : d = m_devices[i]
    BY DEF Devices
  <1>2. i \in Matching(fd)
    BY <1>1 DEF Matching
  <1>3. i \in Int
    BY RegistryAssumption DEF RegistryAssumption
  <1>4. \A j \in Matching(fd) : i <= j
    BY <1>2, <1>3
  <1> QED BY <1>1, <1>2, <1>4 DEF Cancelled

\* A lost connection: its descriptor is watched no more, and the buffer it leaves
\* behind is one that getDevice did not find first.
LEMMA ServeDisconnected_IInv == ASSUME IInv, NEW fd \in FDs, ServeDisconnected(fd) PROVE IInv'
  <1> DEFINE c == ConnOf(fd)
  <1>1. pc = "serve" /\ fd \in active
    BY DEF ServeDisconnected
  <1>2. c \in Conns /\ conn[c] = "open" /\ fdOf[c] = fd
    BY <1>1, ActiveConn
  <1> HIDE DEF c
  <1>3. /\ conn' = [conn EXCEPT ![c] = "closed"] /\ fdOf' = [fdOf EXCEPT ![c] = NoFd]
        /\ clients' = clients \ {fd} /\ active' = active \ {fd}
        /\ inbox' = [inbox EXCEPT ![c] = NoCommand]
        /\ UNCHANGED <<m_fd, hOpener, isset, backlog, peerUp, control, ending, pc, winsock>>
    BY DEF ServeDisconnected, socketDisconnected, disconnectSocket, c
  <1>4. buffer' = [d \in Devices |-> IF d \in Cancelled(fd) THEN NoConn ELSE buffer[d]]
    BY DEF ServeDisconnected, socketDisconnected
  <1>5. hShared' = IF \E m, n \in Matching(fd) : m # n THEN hShared \cup {c} ELSE hShared
    BY DEF ServeDisconnected, c
  <1>6. TypeOK'
    <2>1. buffer' \in [Devices -> Conns \cup {NoConn}]
      BY <1>4 DEF IInv, TypeOK
    <2>2. hShared' \subseteq Conns
      BY <1>2, <1>5 DEF IInv, TypeOK
    <2>3. conn' \in [Conns -> {"new", "pending", "open", "leaked", "closed"}]
      BY <1>3 DEF IInv, TypeOK
    <2>4. fdOf' \in [Conns -> FDs \cup {NoFd}]
      BY <1>3 DEF IInv, TypeOK
    <2>5. inbox' \in [Conns -> Requests \cup Underway \cup {NoCommand}]
      BY <1>3 DEF IInv, TypeOK
    <2>6. clients' \subseteq FDs /\ active' \subseteq FDs
      BY <1>3 DEF IInv, TypeOK
    <2>7. UNCHANGED <<m_fd, hOpener, isset, backlog, peerUp, running, interrupted,
                      listening, hCloses, pc, platform, lastError, hung>>
      BY <1>3 DEF control, ending, winsock
    <2> QED BY <2>1, <2>2, <2>3, <2>4, <2>5, <2>6, <2>7 DEF IInv, TypeOK
  <1>7. LeftoverOnlyIfShared'
    <2> SUFFICES ASSUME NEW e \in Conns, NEW d \in Devices,
                        conn'[e] = "closed", buffer'[d] = e, hOpener[d] = e
                 PROVE  e \in hShared'
      BY <1>3 DEF LeftoverOnlyIfShared
    <2>1. e # NoConn
      BY RegistryAssumption DEF RegistryAssumption
    <2>2. d \notin Cancelled(fd) /\ buffer[d] = e
      BY <1>4, <2>1
    <2>3. CASE e = c
      <3>1. m_fd[d] = fd
        BY <1>2, <2>1, <2>3 DEF IInv, Links, OpenersFd
      <3>2. \E m, n \in Matching(fd) : m # n
        BY <2>2, <3>1, OnlyMatchCancelled
      <3> QED BY <1>5, <2>3, <3>2
    <2>4. CASE e # c
      <3>1. conn[e] = "closed"
        BY <1>3, <2>4 DEF IInv, TypeOK
      <3> QED BY <1>5, <2>2, <3>1 DEF IInv, Links, LeftoverOnlyIfShared
    <2> QED BY <2>3, <2>4
  <1>8. WatchesOpenSockets'
    <2>1. clients = {fdOf[k] : k \in {e \in Conns : conn[e] = "open"}}
      BY <1>1 DEF IInv, Links, WatchesOpenSockets, Ended
    <2>2. ASSUME NEW e \in Conns, conn'[e] = "open"
          PROVE  fdOf'[e] \in clients'
      BY <1>2, <1>3, <2>1, <2>2 DEF IInv, TypeOK, Links, DistinctFds
    <2>3. ASSUME NEW f \in clients'
          PROVE  \E e \in Conns : conn'[e] = "open" /\ fdOf'[e] = f
      BY <1>2, <1>3, <2>1 DEF IInv, TypeOK
    <2> QED BY <2>2, <2>3 DEF WatchesOpenSockets
  <1>9. (OpenersServed /\ OpenersFd)'
    BY <1>2, <1>3 DEF IInv, TypeOK, Links, OpenersServed, OpenersFd
  <1>10. (ListenClosedOnce /\ BacklogPending /\ LeakedOnlyAtEnd /\ DistinctFds /\ ActiveWatched
            /\ NotYetListening /\ CauseAtEnd)'
    BY <1>2, <1>3 DEF control, ending, winsock, IInv, TypeOK, Links, ListenClosedOnce, BacklogPending,
       LeakedOnlyAtEnd, DistinctFds, ActiveWatched, NotYetListening, CauseAtEnd, Ended
  <1> QED BY <1>6, <1>7, <1>8, <1>9, <1>10 DEF IInv, Links

-----------------------------------------------------------------------------
(* Clients, signals, and the steps of the loop around the commands. *)

\* A connection starts to wait.
LEMMA Connect_IInv == ASSUME IInv, NEW c \in Conns, Connect(c) PROVE IInv'
  BY DEF Connect, registry, network, peers, control, ending, winsock, IInv, TypeOK, Links,
       WatchesOpenSockets, ListenClosedOnce, LeftoverOnlyIfShared, BacklogPending, LeakedOnlyAtEnd,
       DistinctFds, ActiveWatched, OpenersServed, OpenersFd, NotYetListening, CauseAtEnd, Ended

\* What arrives touches no socket and no device.
LEMMA Receive_IInv ==
    ASSUME IInv, NEW c \in Conns, NEW what \in Underway \cup Requests, Receive(c, what)
    PROVE  IInv'
  BY DEF Receive, registry, network, peers, control, ending, winsock, IInv, TypeOK, Links,
       WatchesOpenSockets, ListenClosedOnce, LeftoverOnlyIfShared, BacklogPending, LeakedOnlyAtEnd,
       DistinctFds, ActiveWatched, OpenersServed, OpenersFd, NotYetListening, CauseAtEnd, Ended

\* The server learns of a lost peer only when it serves it.
LEMMA PeerLeaves_IInv == ASSUME IInv, NEW c \in Conns, PeerLeaves(c) PROVE IInv'
  BY DEF PeerLeaves, registry, network, peers, control, ending, winsock, IInv, TypeOK, Links,
       WatchesOpenSockets, ListenClosedOnce, LeftoverOnlyIfShared, BacklogPending, LeakedOnlyAtEnd,
       DistinctFds, ActiveWatched, OpenersServed, OpenersFd, NotYetListening, CauseAtEnd, Ended

\* The loop closes the listening socket when it is left without an error.
LEMMA Loop_IInv == ASSUME IInv, Loop PROVE IInv'
  BY DEF Loop, registry, network, peers, control, ending, winsock, IInv, TypeOK, Links,
       WatchesOpenSockets, ListenClosedOnce, LeftoverOnlyIfShared, BacklogPending, LeakedOnlyAtEnd,
       DistinctFds, ActiveWatched, OpenersServed, OpenersFd, NotYetListening, CauseAtEnd, Ended

\* checkForNewConnections builds the set.
LEMMA EnterSelect_IInv == ASSUME IInv, EnterSelect PROVE IInv'
  BY DEF EnterSelect, registry, network, peers, control, ending, winsock, IInv, TypeOK, Links,
       WatchesOpenSockets, ListenClosedOnce, LeftoverOnlyIfShared, BacklogPending, LeakedOnlyAtEnd,
       DistinctFds, ActiveWatched, OpenersServed, OpenersFd, NotYetListening, CauseAtEnd, Ended

\* The snapshot of ready clients holds watched ones.
LEMMA NoNewConnection_IInv == ASSUME IInv, NoNewConnection PROVE IInv'
  BY DEF NoNewConnection, getActiveConnections, registry, network, peers, control,
       ending, winsock, IInv, TypeOK, Links,
       WatchesOpenSockets, ListenClosedOnce, LeftoverOnlyIfShared, BacklogPending, LeakedOnlyAtEnd,
       DistinctFds, ActiveWatched, OpenersServed, OpenersFd, NotYetListening, CauseAtEnd, Ended

\* The round is over.
LEMMA EndServe_IInv == ASSUME IInv, EndServe PROVE IInv'
  BY DEF EndServe, registry, network, peers, control, ending, winsock, IInv, TypeOK, Links,
       WatchesOpenSockets, ListenClosedOnce, LeftoverOnlyIfShared, BacklogPending, LeakedOnlyAtEnd,
       DistinctFds, ActiveWatched, OpenersServed, OpenersFd, NotYetListening, CauseAtEnd, Ended

\* getData tries again.
LEMMA WinWouldBlock_IInv == ASSUME IInv, NEW fd \in FDs, WinWouldBlock(fd) PROVE IInv'
  BY DEF WinWouldBlock, registry, network, peers, control, ending, winsock, IInv, TypeOK, Links,
       WatchesOpenSockets, ListenClosedOnce, LeftoverOnlyIfShared, BacklogPending, LeakedOnlyAtEnd,
       DistinctFds, ActiveWatched, OpenersServed, OpenersFd, NotYetListening, CauseAtEnd, Ended

\* getData tries for ever.
LEMMA WinHangs_IInv == ASSUME IInv, NEW fd \in FDs, WinHangs(fd) PROVE IInv'
  BY DEF WinHangs, registry, network, peers, control, ending, winsock, IInv, TypeOK, Links,
       WatchesOpenSockets, ListenClosedOnce, LeftoverOnlyIfShared, BacklogPending, LeakedOnlyAtEnd,
       DistinctFds, ActiveWatched, OpenersServed, OpenersFd, NotYetListening, CauseAtEnd, Ended

\* A new client gets a descriptor that no open socket has.
LEMMA Accepted_IInv ==
    ASSUME IInv, NEW c \in Conns, NEW fd \in Free, Accepted(c, fd) PROVE IInv'
  BY DEF Accepted, Free, OpenFds, getActiveConnections, registry, network, peers, control,
       ending, winsock, IInv, TypeOK, Links,
       WatchesOpenSockets, ListenClosedOnce, LeftoverOnlyIfShared, BacklogPending, LeakedOnlyAtEnd,
       DistinctFds, ActiveWatched, OpenersServed, OpenersFd, NotYetListening, CauseAtEnd, Ended

\* A signal.
LEMMA Stop_IInv == ASSUME IInv, stop PROVE IInv'
  <1>1. TypeOK'
    <2>1. running' \in BOOLEAN
      BY DEF stop, network, control, IInv, TypeOK
    <2>2. interrupted' \in BOOLEAN
      BY DEF stop, network, control, IInv, TypeOK
    <2>3. isset' \subseteq FDs \cup {m_listenSocket}
      BY DEF stop, network, IInv, TypeOK
    <2>4. pc' = pc \/ pc' = "accept"
      BY DEF stop
    <2>5. UNCHANGED <<registry, clients, active, conn, fdOf, peers, ending, hShared, winsock>>
      BY DEF stop, network
    <2> QED BY <2>1, <2>2, <2>3, <2>4, <2>5 DEF registry, peers, ending, winsock, IInv, TypeOK
  <1>2. Links'
    BY DEF stop, registry, network, peers, control, ending, winsock, IInv, TypeOK, Links,
       WatchesOpenSockets, ListenClosedOnce, LeftoverOnlyIfShared, BacklogPending, LeakedOnlyAtEnd,
       DistinctFds, ActiveWatched, OpenersServed, OpenersFd, NotYetListening, CauseAtEnd, Ended
  <1> QED BY <1>1, <1>2 DEF IInv

\* select reports descriptors that are watched.
LEMMA SelectReady_IInv == ASSUME IInv, SelectReady PROVE IInv'
  <1>1. TypeOK'
    <2>1. running' \in BOOLEAN
      BY DEF SelectReady, network, control, IInv, TypeOK
    <2>2. interrupted' \in BOOLEAN
      BY DEF SelectReady, network, control, IInv, TypeOK
    <2>3. isset' \subseteq FDs \cup {m_listenSocket}
      BY DEF SelectReady, network, IInv, TypeOK
    <2>4. pc' = pc \/ pc' = "accept"
      BY DEF SelectReady
    <2>5. UNCHANGED <<registry, clients, active, conn, fdOf, peers, ending, hShared, winsock>>
      BY DEF SelectReady, network
    <2> QED BY <2>1, <2>2, <2>3, <2>4, <2>5 DEF registry, peers, ending, winsock, IInv, TypeOK
  <1>2. Links'
    BY DEF SelectReady, registry, network, peers, control, ending, winsock, IInv, TypeOK, Links,
       WatchesOpenSockets, ListenClosedOnce, LeftoverOnlyIfShared, BacklogPending, LeakedOnlyAtEnd,
       DistinctFds, ActiveWatched, OpenersServed, OpenersFd, NotYetListening, CauseAtEnd, Ended
  <1> QED BY <1>1, <1>2 DEF IInv

\* An interrupted select leaves the set as it was.
LEMMA SelectInterrupted_IInv == ASSUME IInv, SelectInterrupted PROVE IInv'
  <1>1. TypeOK'
    <2>1. running' \in BOOLEAN
      BY DEF SelectInterrupted, network, control, IInv, TypeOK
    <2>2. interrupted' \in BOOLEAN
      BY DEF SelectInterrupted, network, control, IInv, TypeOK
    <2>3. isset' \subseteq FDs \cup {m_listenSocket}
      BY DEF SelectInterrupted, network, IInv, TypeOK
    <2>4. pc' = pc \/ pc' = "accept"
      BY DEF SelectInterrupted
    <2>5. UNCHANGED <<registry, clients, active, conn, fdOf, peers, ending, hShared, winsock>>
      BY DEF SelectInterrupted, network
    <2> QED BY <2>1, <2>2, <2>3, <2>4, <2>5 DEF registry, peers, ending, winsock, IInv, TypeOK
  <1>2. Links'
    BY DEF SelectInterrupted, registry, network, peers, control, ending, winsock, IInv, TypeOK, Links,
       WatchesOpenSockets, ListenClosedOnce, LeftoverOnlyIfShared, BacklogPending, LeakedOnlyAtEnd,
       DistinctFds, ActiveWatched, OpenersServed, OpenersFd, NotYetListening, CauseAtEnd, Ended
  <1> QED BY <1>1, <1>2 DEF IInv

\* accept takes a connection from the queue and gives up: the connection was
\* never served, so no device can be left playing its buffer.
LEMMA GiveUp_IInv ==
    ASSUME IInv, pc = "accept", NEW c \in Conns, c \in backlog, backlog' = backlog \ {c},
           NEW end \in {"leaked", "closed"}, conn' = [conn EXCEPT ![c] = end],
           NEW fd \in FDs \cup {NoFd}, fdOf' = [fdOf EXCEPT ![c] = fd],
           pc' = "failed", listening' = FALSE,
           hCloses' = IF platform = "windows" /\ hCause' = "accept" THEN 2 ELSE 1,
           UNCHANGED <<registry, clients, isset, active, peerUp, inbox, control, hShared, winsock>>
    PROVE  IInv'
  <1>1. conn[c] = "pending"
    BY DEF IInv, Links, BacklogPending
  <1>2. TypeOK'
    <2>1. conn' \in [Conns -> {"new", "pending", "open", "leaked", "closed"}]
      BY DEF IInv, TypeOK
    <2>2. fdOf' \in [Conns -> FDs \cup {NoFd}]
      BY DEF IInv, TypeOK
    <2>3. backlog' \subseteq Conns /\ hCloses' \in Nat /\ listening' \in BOOLEAN
      BY DEF IInv, TypeOK
    <2>4. UNCHANGED <<m_fd, buffer, hOpener, clients, isset, active, peerUp, inbox, running,
                      interrupted, hShared, platform, lastError, hung>>
      BY DEF registry, control, winsock
    <2> QED BY <2>1, <2>2, <2>3, <2>4 DEF IInv, TypeOK
  <1>3. LeftoverOnlyIfShared'
    <2> SUFFICES ASSUME NEW e \in Conns, NEW d \in Devices,
                        conn'[e] = "closed", buffer[d] = e, hOpener[d] = e
                 PROVE  e \in hShared
      BY DEF registry, LeftoverOnlyIfShared
    <2>1. e # NoConn
      BY RegistryAssumption DEF RegistryAssumption
    <2>2. conn[e] # "pending"
      BY <2>1 DEF IInv, Links, OpenersServed
    <2> QED BY <1>1, <2>2 DEF IInv, TypeOK, Links, LeftoverOnlyIfShared
  <1>4. DistinctFds'
    BY <1>1 DEF IInv, TypeOK, Links, DistinctFds
  <1>5. OpenersServed'
    BY <1>1 DEF registry, IInv, TypeOK, Links, OpenersServed
  <1>6. OpenersFd'
    BY <1>1 DEF registry, IInv, TypeOK, Links, OpenersFd
  <1>7. (BacklogPending /\ NotYetListening)'
    BY DEF IInv, TypeOK, Links, BacklogPending, NotYetListening
  <1>8. (WatchesOpenSockets /\ ListenClosedOnce /\ LeakedOnlyAtEnd /\ ActiveWatched /\ CauseAtEnd)'
    BY DEF winsock, WatchesOpenSockets, ListenClosedOnce, LeakedOnlyAtEnd, ActiveWatched,
       CauseAtEnd, Ended
  <1> QED BY <1>2, <1>3, <1>4, <1>5, <1>6, <1>7, <1>8 DEF IInv, Links

\* The socket that accept leaves open is not a client.
LEMMA Accept_leaks_IInv ==
    ASSUME IInv, NEW c \in Conns, NEW fd \in FDs, accept_leaks(c, fd) PROVE IInv'
  <1>1. hCloses = 0
    BY DEF accept_leaks, IInv, Links, ListenClosedOnce, Ended
  <1>2. hCloses' = IF platform = "windows" /\ hCause' = "accept" THEN 2 ELSE 1
    BY <1>1 DEF accept_leaks, Fail
  <1>3. /\ pc = "accept" /\ pc' = "failed" /\ listening' = FALSE
        /\ c \in backlog /\ backlog' = backlog \ {c}
    BY DEF accept_leaks, Fail
  <1>4. conn' = [conn EXCEPT ![c] = "leaked"] /\ fdOf' = [fdOf EXCEPT ![c] = fd]
    BY DEF accept_leaks
  <1>5. UNCHANGED <<registry, clients, isset, active, peerUp, inbox, control, hShared, winsock>>
    BY DEF accept_leaks
  <1> QED BY <1>2, <1>3, <1>4, <1>5, GiveUp_IInv

\* The accepted socket is closed, or there is none.
LEMMA WinGiveUp_IInv ==
    ASSUME IInv, NEW c \in Conns, WinAcceptRefused(c) \/ WinAcceptFails(c) PROVE IInv'
  <1>1. hCloses = 0
    BY DEF WinAcceptRefused, WinAcceptFails, IInv, Links, ListenClosedOnce, Ended
  <1>2. hCloses' = IF platform = "windows" /\ hCause' = "accept" THEN 2 ELSE 1
    BY <1>1 DEF WinAcceptRefused, WinAcceptFails, WinClose
  <1>3. /\ pc = "accept" /\ pc' = "failed" /\ listening' = FALSE
        /\ c \in backlog /\ backlog' = backlog \ {c}
    BY DEF WinAcceptRefused, WinAcceptFails, WinClose
  <1>4. conn' = [conn EXCEPT ![c] = "closed"]
    BY DEF WinAcceptRefused, WinAcceptFails
  <1>5. fdOf[c] \in FDs \cup {NoFd} /\ fdOf' = [fdOf EXCEPT ![c] = fdOf[c]]
    BY DEF WinAcceptRefused, WinAcceptFails, IInv, TypeOK
  <1>6. UNCHANGED <<registry, clients, isset, active, peerUp, inbox, control, hShared, winsock>>
    BY DEF WinAcceptRefused, WinAcceptFails
  <1> QED BY <1>2, <1>3, <1>4, <1>5, <1>6, GiveUp_IInv

-----------------------------------------------------------------------------
\* Every step of the system preserves the inductive invariant.
LEMMA NextIInv == IInv /\ [Next]_vars => IInv'
  <1> SUFFICES ASSUME IInv, [Next]_vars PROVE IInv'
    OBVIOUS
  <1>1. CASE UNCHANGED vars
    <2>1. TypeOK'
      BY <1>1 DEF vars, registry, network, peers, control, ending, winsock, IInv, TypeOK
    <2>2. Links'
      BY <1>1 DEF vars, registry, network, peers, control, ending, winsock, IInv, Links,
         WatchesOpenSockets, ListenClosedOnce, LeftoverOnlyIfShared, BacklogPending,
         LeakedOnlyAtEnd, DistinctFds, ActiveWatched, OpenersServed, OpenersFd,
         NotYetListening, CauseAtEnd, Ended
    <2> QED BY <2>1, <2>2 DEF IInv
  <1>2. ASSUME NEW c \in Conns, NEW fd \in FDs, accept(c, fd) \/ accept_leaks(c, fd) \/ WinAccept(c, fd)
        PROVE  IInv'
    <2>1. CASE accept(c, fd) \/ WinAccept(c, fd)
      BY <2>1, Accepted_IInv DEF accept, NewFd, WinAccept
    <2>2. CASE accept_leaks(c, fd)
      BY <2>2, Accept_leaks_IInv
    <2> QED BY <1>2, <2>1, <2>2
  <1>3. ASSUME ServerStep PROVE IInv'
    <2>1. CASE open \/ WinOpen \/ bind \/ listen
      BY <2>1, SetUp_IInv
    <2>2. CASE Loop \/ EnterSelect \/ SelectReady \/ SelectInterrupted
      BY <2>2, Loop_IInv, EnterSelect_IInv, SelectReady_IInv, SelectInterrupted_IInv
    <2>3. CASE NoNewConnection \/ accept_fails \/ EndServe
      BY <2>3, NoNewConnection_IInv, SetUp_IInv, EndServe_IInv
    <2>4. CASE \E c \in Conns : WinAcceptRefused(c) \/ WinAcceptFails(c)
      BY <2>4, WinGiveUp_IInv
    <2>5. CASE \E fd \in FDs : ReadCommand(fd) \/ ReadPayload(fd) \/ ServeDisconnected(fd)
      BY <2>5, ReadCommand_IInv, ReadPayload_IInv, ServeDisconnected_IInv
    <2> QED BY <1>2, <1>3, <2>1, <2>2, <2>3, <2>4, <2>5 DEF ServerStep
  <1>4. ASSUME KernelStep PROVE IInv'
    BY <1>4, SetUp_IInv, ReadShort_IInv, WinWouldBlock_IInv, WinHangs_IInv DEF KernelStep
  <1> QED
    BY <1>1, <1>3, <1>4, Connect_IInv, PeerLeaves_IInv, Receive_IInv, Stop_IInv DEF Next

\* The inductive invariant always holds.
LEMMA AlwaysIInv == Spec => []IInv
  BY InitIInv, NextIInv, PTL DEF Spec

-----------------------------------------------------------------------------
(* Theorems *)

\* Every variable of the server and of the devices keeps its type.
THEOREM TypeCorrect == Spec => []TypeOK
  BY AlwaysIInv, PTL DEF IInv

\* The server watches exactly the sockets that are open, whatever order the
\* clients are accepted, served and lost in.
THEOREM WatchesCorrect == Spec => []WatchesOpenSockets
  BY AlwaysIInv, PTL DEF IInv, Links

\* Every path out of start closes the listening socket once, except the one of
\* NetworkWin's accept.
THEOREM ClosesOnce == Spec => []ListenClosedOnce
  BY AlwaysIInv, PTL DEF IInv, Links

\* A device goes on with the buffer of a lost client that had it open only when
\* another device remembered that client's descriptor.
THEOREM LeftoverCorrect == Spec => []LeftoverOnlyIfShared
  BY AlwaysIInv, PTL DEF IInv, Links

\* A step that loses a connection cancels no device whose last OPEN came from
\* another connection that is still there.
LEMMA LossCancelsOwn ==
    ASSUME IInv, Next, NEW lost \in Conns, NEW c \in Conns, NEW d \in Devices,
           conn[lost] = "open", conn'[lost] = "closed",
           c # lost, conn[c] = "open", hOpener[d] = c
    PROVE  buffer'[d] = buffer[d]
  <1>1. PICK fd \in FDs : ServeDisconnected(fd)
    <2>1. lost \notin backlog
      BY DEF IInv, Links, BacklogPending
    <2> QED BY <2>1 DEF Next, ServerStep, KernelStep, Connect, Receive, PeerLeaves, stop,
       open, WinOpen, bind, listen, Loop, EnterSelect, SelectReady, SelectInterrupted, SelectFails, NoNewConnection,
       accept_fails, accept, WinAccept, Accepted, accept_leaks, WinAcceptRefused,
       WinAcceptFails, EndServe, ReadCommand, ReadPayload, ReadShort, WinWouldBlock,
       WinHangs, network, IInv, TypeOK
  <1> DEFINE k == ConnOf(fd)
  <1>2. k \in Conns /\ conn[k] = "open" /\ fdOf[k] = fd
    BY <1>1, ActiveConn DEF ServeDisconnected
  <1>3. conn' = [conn EXCEPT ![k] = "closed"]
        /\ buffer' = [e \in Devices |-> IF e \in Cancelled(fd) THEN NoConn ELSE buffer[e]]
    BY <1>1 DEF ServeDisconnected, socketDisconnected
  <1> HIDE DEF k
  <1>4. k = lost
    BY <1>2, <1>3 DEF IInv, TypeOK
  <1>5. m_fd[d] = fdOf[c] /\ fdOf[c] # fd
    BY <1>2, <1>4, RegistryAssumption DEF RegistryAssumption, IInv, Links, OpenersFd, DistinctFds
  <1>6. d \notin Cancelled(fd)
    BY <1>5 DEF Cancelled, Matching
  <1> QED BY <1>3, <1>6

\* Losing a connection leaves alone the devices of the connections that stay,
\* though descriptors are reused and getDevice returns the first match.
THEOREM CancelsOwn == Spec => CancelsOnlyOwn
  <1>1. IInv /\ [Next]_vars =>
          [\A lost, c \in Conns, d \in Devices :
             (/\ conn[lost] = "open" /\ conn'[lost] = "closed"
              /\ c # lost /\ conn[c] = "open" /\ hOpener[d] = c)
             => buffer'[d] = buffer[d]]_vars
    BY LossCancelsOwn
  <1> QED BY <1>1, AlwaysIInv, PTL DEF Spec, CancelsOnlyOwn

-----------------------------------------------------------------------------
(* From the command line to the server. *)

\* A set of naturals that is not empty has a least element,
LEMMA Least ==
    ASSUME NEW T \in SUBSET Nat, T # {}
    PROVE  \E x \in T : \A y \in T : x <= y
  <1> DEFINE R == OpToRel(<, Nat)
  <1>1. IsWellFoundedOn(R, Nat)
    BY NatLessThanWellFounded
  <1>2. \A x, y \in Nat : <<y, x>> \in R <=> y < x
    BY DEF OpToRel
  <1> HIDE DEF R
  <1>3. PICK x \in T : \A y \in T : ~(<<y, x>> \in R)
    BY <1>1, WFMin
  <1>4. ASSUME NEW y \in T PROVE x <= y
    <2>1. x \in Nat /\ y \in Nat /\ ~(<<y, x>> \in R)
      BY <1>3
    <2>2. ~(y < x)
      BY <1>2, <2>1
    <2> QED BY <2>1, <2>2
  <1> QED BY <1>4

\* hence one that holds 0 and each successor is all of them.
LEMMA SetInduction ==
    ASSUME NEW S, 0 \in S, \A n \in Nat : n \in S => n + 1 \in S
    PROVE  Nat \subseteq S
  <1> DEFINE T == Nat \ S
  <1> SUFFICES ASSUME T # {} PROVE FALSE
    OBVIOUS
  <1>1. PICK x \in T : \A y \in T : x <= y
    BY Least
  <1>2. x # 0 /\ x - 1 \in Nat
    BY <1>1
  <1>3. x - 1 \in S
    BY <1>1, <1>2
  <1> QED BY <1>1, <1>2, <1>3

-----------------------------------------------------------------------------
(* The devices of a command line. *)

\* What getDevices has found after each of the first m arguments.
FoundTo(g, s, m) ==
    g = [n \in 0..m |->
            IF n = 0 THEN <<>>
            ELSE IF s[n] \in WithAt THEN Append(g[n - 1], s[n]) ELSE g[n - 1]]

\* These are the arguments with an '@' among the first m of s, in their order.
ListsTo(devs, s, m) ==
    \E at \in [1..Len(devs) -> 1..m] :
        /\ \A i, j \in 1..Len(devs) : i < j => at[i] < at[j]
        /\ \A i \in 1..Len(devs) : devs[i] = s[at[i]]
        /\ \A n \in 1..m : s[n] \in WithAt <=> \E i \in 1..Len(devs) : at[i] = n

\* The loop of getDevices is defined for every sequence of arguments.
LEMMA FoundExists ==
    ASSUME NEW s \in Seq(STRING)
    PROVE  \E g : FoundTo(g, s, Len(s))
  <1> DEFINE S == {m \in Nat : \E g : FoundTo(g, s, m)}
  <1>1. 0 \in S
    <2>1. FoundTo([n \in 0..0 |-> <<>>], s, 0) BY DEF FoundTo
    <2> QED BY <2>1
  <1>2. ASSUME NEW m \in Nat, m \in S PROVE m + 1 \in S
    <2>1. PICK g : FoundTo(g, s, m) BY <1>2
    <2> DEFINE last == IF s[m + 1] \in WithAt THEN Append(g[m], s[m + 1]) ELSE g[m]
               h == [n \in 0..(m + 1) |-> IF n = m + 1 THEN last ELSE g[n]]
    <2>2. \A n \in 0..m : g[n] = IF n = 0 THEN <<>>
                                 ELSE IF s[n] \in WithAt THEN Append(g[n - 1], s[n]) ELSE g[n - 1]
      BY <2>1 DEF FoundTo
    <2> HIDE DEF last
    <2>3. \A n \in 0..m : h[n] = g[n] OBVIOUS
    <2>4. h[m + 1] = last OBVIOUS
    <2>5. h = [n \in 0..(m + 1) |-> h[n]] OBVIOUS
    <2> HIDE DEF h
    <2>6. ASSUME NEW n \in 0..(m + 1)
          PROVE  h[n] = IF n = 0 THEN <<>>
                        ELSE IF s[n] \in WithAt THEN Append(h[n - 1], s[n]) ELSE h[n - 1]
      <3>1. CASE n = 0 BY <3>1, <2>2, <2>3
      <3>2. CASE n = m + 1
        <4>1. n # 0 /\ n - 1 = m /\ h[n - 1] = g[m] BY <3>2, <2>3
        <4> QED BY <3>2, <4>1, <2>4 DEF last
      <3>3. CASE n \in 1..m
        <4>1. n - 1 \in 0..m /\ n \in 0..m /\ n # 0 BY <3>3
        <4> QED BY <4>1, <2>2, <2>3
      <3> QED BY <3>1, <3>2, <3>3
    <2>7. FoundTo(h, s, m + 1) BY <2>5, <2>6 DEF FoundTo
    <2> QED BY <2>7
  <1> HIDE DEF S
  <1>3. Nat \subseteq S BY <1>1, <1>2, SetInduction
  <1> QED BY <1>3 DEF S

\* One more argument: it is added if there is an '@' in it.
LEMMA OneMore ==
    ASSUME NEW s \in Seq(STRING), NEW m \in Nat, m + 1 <= Len(s),
           NEW devs \in Seq(STRING), ListsTo(devs, s, m)
    PROVE  LET more == IF s[m + 1] \in WithAt THEN Append(devs, s[m + 1]) ELSE devs
           IN  more \in Seq(STRING) /\ ListsTo(more, s, m + 1)
  <1>1. PICK at \in [1..Len(devs) -> 1..m] :
            /\ \A i, j \in 1..Len(devs) : i < j => at[i] < at[j]
            /\ \A i \in 1..Len(devs) : devs[i] = s[at[i]]
            /\ \A n \in 1..m : s[n] \in WithAt <=> \E i \in 1..Len(devs) : at[i] = n
    BY DEF ListsTo
  <1>2. s[m + 1] \in STRING /\ Len(devs) \in Nat OBVIOUS
  <1>3. CASE s[m + 1] \notin WithAt
    <2>1. at \in [1..Len(devs) -> 1..(m + 1)] BY <1>1
    <2>2. ASSUME NEW n \in 1..(m + 1)
          PROVE  s[n] \in WithAt <=> \E i \in 1..Len(devs) : at[i] = n
      <3>1. CASE n \in 1..m BY <3>1, <1>1
      <3>2. CASE n = m + 1 BY <3>2, <1>1, <1>3
      <3> QED BY <3>1, <3>2
    <2> QED BY <1>1, <1>3, <2>1, <2>2 DEF ListsTo
  <1>4. CASE s[m + 1] \in WithAt
    <2> DEFINE more == Append(devs, s[m + 1])
               k == Len(more)
               to == [i \in 1..k |-> IF i = k THEN m + 1 ELSE at[i]]
    <2>1. /\ more \in Seq(STRING) /\ Len(more) = k /\ more[k] = s[m + 1]
          /\ k = Len(devs) + 1 /\ \A i \in 1..Len(devs) : more[i] = devs[i]
      BY <1>2
    <2>2. to[k] = m + 1 /\ \A i \in 1..Len(devs) : to[i] = at[i] /\ at[i] \in 1..m
      BY <1>1, <1>2
    <2>3. to \in [1..k -> 1..(m + 1)] BY <1>1, <1>2
    <2>4. 1..k = 1..Len(devs) \cup {k} /\ k \notin 1..Len(devs) /\ k \in 1..k BY <1>2
    <2> HIDE DEF k, more, to
    <2>5. ASSUME NEW i \in 1..k, NEW j \in 1..k, i < j PROVE to[i] < to[j]
      <3>1. i \in 1..Len(devs) BY <2>1, <2>4, <2>5, <1>2
      <3>2. CASE j = k BY <3>1, <3>2, <2>2
      <3>3. CASE j \in 1..Len(devs) BY <3>1, <3>3, <2>5, <2>2, <1>1
      <3> QED BY <3>2, <3>3, <2>4
    <2>6. ASSUME NEW i \in 1..k PROVE more[i] = s[to[i]]
      <3>1. CASE i = k BY <3>1, <2>1, <2>2
      <3>2. CASE i \in 1..Len(devs) BY <3>2, <2>1, <2>2, <1>1
      <3> QED BY <3>1, <3>2, <2>4
    <2>7. ASSUME NEW n \in 1..(m + 1)
          PROVE  s[n] \in WithAt <=> \E i \in 1..k : to[i] = n
      <3>1. CASE n = m + 1 BY <3>1, <1>4, <2>2, <2>4
      <3>2. CASE n \in 1..m
        <4>1. to[k] # n BY <3>2, <2>2
        <4>2. (\E i \in 1..k : to[i] = n) <=> \E i \in 1..Len(devs) : at[i] = n
          BY <4>1, <2>2, <2>4
        <4> QED BY <3>2, <4>2, <1>1
      <3> QED BY <3>1, <3>2
    <2>8. ListsTo(more, s, m + 1)
      <3> SUFFICES /\ to \in [1..k -> 1..(m + 1)]
                   /\ \A i, j \in 1..k : i < j => to[i] < to[j]
                   /\ \A i \in 1..k : more[i] = s[to[i]]
                   /\ \A n \in 1..(m + 1) : s[n] \in WithAt <=> \E i \in 1..k : to[i] = n
        BY Zenon DEF ListsTo, k
      <3> QED BY <2>3, <2>5, <2>6, <2>7, Zenon
    <2> QED BY <1>4, <2>1, <2>8 DEF more
  <1> QED BY <1>3, <1>4

\* getDevices finds the arguments with an '@', all of them and in their order.
LEMMA DevicesFound ==
    ASSUME NEW s \in Seq(STRING)
    PROVE  Lists(getDevices(s), s)
  <1> DEFINE found == CHOOSE g : g = [n \in 0..Len(s) |->
                 IF n = 0 THEN <<>>
                 ELSE IF s[n] \in WithAt THEN Append(g[n - 1], s[n]) ELSE g[n - 1]]
  <1>1. getDevices(s) = found[Len(s)] BY DEF getDevices
  <1>2. FoundTo(found, s, Len(s)) BY FoundExists DEF FoundTo
  <1> HIDE DEF found
  <1>3. \A n \in 0..Len(s) : found[n] = IF n = 0 THEN <<>>
                 ELSE IF s[n] \in WithAt THEN Append(found[n - 1], s[n]) ELSE found[n - 1]
    BY <1>2 DEF FoundTo
  <1> DEFINE S == {m \in Nat : m <= Len(s) => found[m] \in Seq(STRING) /\ ListsTo(found[m], s, m)}
  <1>4. 0 \in S
    <2>1. found[0] = <<>> BY <1>3
    <2>2. ListsTo(<<>>, s, 0)
      <3>1. Len(<<>>) = 0 /\ 1..0 = {} OBVIOUS
      <3>2. [i \in {} |-> 0] \in [{} -> {}] OBVIOUS
      <3> QED BY <3>1, <3>2 DEF ListsTo
    <2>3. found[0] \in Seq(STRING) /\ ListsTo(found[0], s, 0)
      <3>1. <<>> \in Seq(STRING) OBVIOUS
      <3> QED BY <2>1, <2>2, <3>1
    <2> HIDE DEF found
    <2> QED BY <2>3
  <1>5. ASSUME NEW m \in Nat, m \in S PROVE m + 1 \in S
    <2> SUFFICES ASSUME m + 1 <= Len(s)
                 PROVE  found[m + 1] \in Seq(STRING) /\ ListsTo(found[m + 1], s, m + 1)
      OBVIOUS
    <2>1. found[m] \in Seq(STRING) /\ ListsTo(found[m], s, m) BY <1>5
    <2>2. found[m + 1] = IF s[m + 1] \in WithAt THEN Append(found[m], s[m + 1]) ELSE found[m]
      <3>1. m + 1 \in 0..Len(s) /\ m + 1 # 0 /\ (m + 1) - 1 = m OBVIOUS
      <3> QED BY <3>1, <1>3
    <2>3. CASE s[m + 1] \in WithAt
      <3>1. found[m + 1] = Append(found[m], s[m + 1]) BY <2>2, <2>3
      <3> QED BY <2>1, <2>3, <3>1, OneMore
    <2>4. CASE s[m + 1] \notin WithAt
      <3>1. found[m + 1] = found[m] BY <2>2, <2>4
      <3> QED BY <2>1, <2>4, <3>1, OneMore
    <2> QED BY <2>3, <2>4
  <1> HIDE DEF S
  <1>6. Nat \subseteq S BY <1>4, <1>5, SetInduction
  <1>7. ListsTo(found[Len(s)], s, Len(s)) BY <1>6 DEF S
  <1>8. Lists(found[Len(s)], s)
    <2> HIDE DEF found
    <2> QED BY <1>7, Zenon DEF ListsTo, Lists
  <1> QED BY <1>1, <1>8

-----------------------------------------------------------------------------
(* The options of a command line. *)

\* The least element of a set.
LEMMA MinIs ==
    ASSUME NEW T \in SUBSET Nat, NEW k \in T, \A y \in T : k <= y
    PROVE  Min(T) = k
  <1>1. \E x \in T : \A y \in T : x <= y OBVIOUS
  <1>2. Min(T) \in T /\ \A y \in T : Min(T) <= y BY <1>1 DEF Min
  <1>3. Min(T) \in Nat /\ k \in Nat /\ Min(T) <= k /\ k <= Min(T) BY <1>2
  <1> QED BY <1>3

\* A part of a sequence, from its first or second element on.
LEMMA Part ==
    ASSUME NEW s \in Seq(STRING), NEW m \in 1..2, NEW n \in 0..Len(s), m <= n + 1
    PROVE  /\ SubSeq(s, m, n) \in Seq(STRING)
           /\ Len(SubSeq(s, m, n)) = n - m + 1
           /\ \A i \in 1..(n - m + 1) : SubSeq(s, m, n)[i] = s[m + i - 1]
  <1>1. m \in Int /\ n \in Int OBVIOUS
  <1>2. \A i \in m..n : s[i] \in STRING OBVIOUS
  <1>3. /\ SubSeq(s, m, n) \in Seq(STRING)
        /\ Len(SubSeq(s, m, n)) = IF m <= n THEN n - m + 1 ELSE 0
        /\ \A i \in 1..(n - m + 1) : SubSeq(s, m, n)[i] = s[m + i - 1]
    BY <1>1, <1>2, SubSeqProperties
  <1> QED BY <1>1, <1>3

\* A command line has at most one argument more than its body, -v at the end.
LEMMA BodyIs ==
    ASSUME argv \in Seq(STRING)
    PROVE  /\ Body \in Seq(STRING)
           /\ \/ Body = argv
              \/ /\ Len(argv) \in Nat \ {0} /\ argv[Len(argv)] = "-v"
                 /\ Len(Body) = Len(argv) - 1 /\ Body # argv
                 /\ \A i \in 1..Len(Body) : Body[i] = argv[i]
  <1>1. CASE argv # <<>> /\ Last(argv) = "-v"
    <2>1. Body = SubSeq(argv, 1, Len(argv) - 1) BY <1>1 DEF Body, Front
    <2>2. Len(argv) \in Nat \ {0} /\ argv[Len(argv)] = "-v" BY <1>1 DEF Last
    <2>3. /\ SubSeq(argv, 1, Len(argv) - 1) \in Seq(STRING)
          /\ Len(SubSeq(argv, 1, Len(argv) - 1)) = Len(argv) - 1
          /\ \A i \in 1..(Len(argv) - 1) : SubSeq(argv, 1, Len(argv) - 1)[i] = argv[i]
      <3>1. 1 \in 1..2 /\ Len(argv) - 1 \in 0..Len(argv) /\ 1 <= (Len(argv) - 1) + 1 BY <2>2
      <3>2. /\ SubSeq(argv, 1, Len(argv) - 1) \in Seq(STRING)
            /\ Len(SubSeq(argv, 1, Len(argv) - 1)) = (Len(argv) - 1) - 1 + 1
            /\ \A i \in 1..((Len(argv) - 1) - 1 + 1) :
                  SubSeq(argv, 1, Len(argv) - 1)[i] = argv[1 + i - 1]
        BY <3>1, Part
      <3>3. (Len(argv) - 1) - 1 + 1 = Len(argv) - 1 /\ \A i \in Int : 1 + i - 1 = i BY <2>2
      <3> QED BY <3>2, <3>3
    <2>4. Len(Body) # Len(argv) BY <2>1, <2>2, <2>3
    <2> QED BY <2>1, <2>2, <2>3, <2>4
  <1>2. CASE ~(argv # <<>> /\ Last(argv) = "-v") BY <1>2 DEF Body
  <1> QED BY <1>1, <1>2

\* Where the port option is.
LEMMA PortAtIs ==
    ASSUME argv \in Seq(STRING)
    PROVE  \/ PortAt = 0 /\ \A i \in 1..Len(Body) : Body[i] # "-p"
           \/ /\ PortAt \in 1..Len(Body) /\ Body[PortAt] = "-p"
              /\ \A i \in 1..Len(Body) : Body[i] = "-p" => PortAt <= i
  <1> DEFINE I == {i \in 1..Len(Body) : Body[i] = "-p"}
  <1>1. PortAt = IF I # {} THEN Min(I) ELSE 0 BY DEF PortAt, SelectInSeq
  <1>2. CASE I = {} BY <1>1, <1>2
  <1>3. CASE I # {}
    <2>1. Len(Body) \in Nat BY BodyIs
    <2>2. I \in SUBSET Nat BY <2>1
    <2>3. PICK k \in I : \A y \in I : k <= y BY <1>3, <2>2, Least
    <2>4. Min(I) = k BY <2>2, <2>3, MinIs
    <2> QED BY <1>1, <1>3, <2>3, <2>4
  <1> QED BY <1>2, <1>3

\* In a command line of the documented form no option is before the port's.
LEMMA NotBefore ==
    ASSUME argv \in Seq(STRING), Conforms, NEW i \in 1..Len(Body),
           PortAt > 0 => i < PortAt
    PROVE  Body[i] \notin Dashed
  <1>1. Len(Body) \in Nat BY BodyIs
  <1>2. CASE i = 1
    <2>1. Body[i] = "generic" BY <1>2 DEF Conforms
    <2> QED BY <2>1, CommandLineAssumption DEF CommandLineAssumption, Dashed, Options
  <1>3. CASE i = 2 BY <1>3 DEF Conforms
  <1>4. CASE i \in 3..Len(Body)
    <2>1. PortAt \in Int BY <1>1, PortAtIs
    <2>2. Body[i] \in WithAt \cup Numerals BY <1>4, <2>1 DEF Conforms, ValidPort
    <2> QED BY <2>2, CommandLineAssumption DEF CommandLineAssumption
  <1> QED BY <1>1, <1>2, <1>3, <1>4

\* getopt_long finds the port's if there is one, or else the -v at the end.
LEMMA OptionIs ==
    ASSUME argv \in Seq(STRING), Conforms
    PROVE  FirstOption = IF PortAt > 0 THEN PortAt ELSE IF Body # argv THEN Len(argv) ELSE 0
  <1> DEFINE I == {i \in 1..Len(argv) : argv[i] \in Dashed}
  <1>1. FirstOption = IF I # {} THEN Min(I) ELSE 0 BY DEF FirstOption, SelectInSeq
  <1>2. I \in SUBSET Nat /\ Len(argv) \in Nat /\ Len(Body) \in Nat BY BodyIs
  <1>3. \A i \in 1..Len(Body) : i \in 1..Len(argv) /\ Body[i] = argv[i] BY <1>2, BodyIs
  <1>4. CASE PortAt > 0
    <2>1. PortAt \in 1..Len(Body) /\ Body[PortAt] = "-p" BY <1>4, PortAtIs
    <2>2. PortAt \in I BY <2>1, <1>3 DEF Dashed, Options
    <2>3. \A i \in I : PortAt <= i
      <3> SUFFICES ASSUME NEW i \in I, i < PortAt PROVE FALSE
        BY <1>2, <2>1
      <3>1. i \in 1..Len(Body) BY <1>2, <2>1
      <3> QED BY <3>1, <1>3, NotBefore
    <2>4. Min(I) = PortAt BY <1>2, <2>2, <2>3, MinIs
    <2> QED BY <1>1, <1>4, <2>2, <2>4
  <1>5. CASE ~(PortAt > 0)
    <2>1. \A i \in 1..Len(Body) : argv[i] \notin Dashed
      <3> SUFFICES ASSUME NEW i \in 1..Len(Body) PROVE argv[i] \notin Dashed
        OBVIOUS
      <3>1. Body[i] \notin Dashed BY <1>5, NotBefore, Zenon
      <3> QED BY <3>1, <1>3
    <2>2. CASE Body = argv BY <1>1, <1>5, <2>1, <2>2
    <2>3. CASE Body # argv
      <3>1. Len(argv) # 0 /\ argv[Len(argv)] = "-v" /\ Len(Body) = Len(argv) - 1
        BY <2>3, BodyIs
      <3>2. Len(argv) \in I BY <3>1, <1>2 DEF Dashed, Options
      <3>3. \A i \in I : Len(argv) <= i BY <3>1, <1>2, <2>1
      <3>4. Min(I) = Len(argv) BY <1>2, <3>2, <3>3, MinIs
      <3>5. I # {} BY <3>2
      <3> QED BY <1>1, <1>5, <2>3, <3>4, <3>5, Zenon
    <2> QED BY <2>2, <2>3
  <1> QED BY <1>4, <1>5

-----------------------------------------------------------------------------
(* The steps of main. *)

\* The inductive invariant of main.  Nothing is read before handleOptions; of a
\* command line of the documented form it reads the port, or else whether the
\* server is verbose; and the arguments of the context are all those from the
\* second on, less the -v that was read; the server that is built has been given
\* one of them for its path, or nullptr.
NotRead == stage = "options" => port = Default /\ verboseMode = FALSE
AsRead ==
    Conforms /\ stage # "options" =>
        /\ verboseMode = (PortAt = 0 /\ Body # argv)
        /\ port = IF PortAt > 0 THEN PortOf[Body[PortAt + 1]] ELSE Default
Collected ==
    stage = "build" => /\ argv # <<>>
                       /\ args = SubSeq(argv, 2, Len(argv) - IF verboseMode THEN 1 ELSE 0)

PathChosen == Conforms /\ Built => xmlPath # Unset

MainInv == /\ MainTypeOK /\ argv \in Argvs
           /\ NotRead /\ AsRead /\ Collected /\ PathChosen /\ HonouredExactly

\* What is said of argv stays true, for main does not change it.
LEMMA SameArguments ==
    ASSUME argv' = argv
    PROVE  /\ Body' = Body /\ PortAt' = PortAt /\ Conforms' = Conforms
           /\ AskedVerbose' = AskedVerbose /\ AskedPort' = AskedPort
  <1>1. Body' = Body BY DEF Body, Last, Front
  <1>2. PortAt' = PortAt BY <1>1 DEF PortAt, SelectInSeq, Min
  <1>3. Conforms' = Conforms BY <1>1, <1>2 DEF Conforms, ValidPort
  <1>4. AskedVerbose' = AskedVerbose BY <1>1, Zenon DEF AskedVerbose
  <1>5. AskedPort' = AskedPort BY <1>1, <1>2, Zenon DEF AskedPort
  <1> QED BY <1>1, <1>2, <1>3, <1>4, <1>5

LEMMA DefaultType == Default \in UInt16
  BY CommandLineAssumption DEF CommandLineAssumption

LEMMA MainTypeInit == MainInit => MainTypeOK
  <1> SUFFICES ASSUME MainInit PROVE MainTypeOK
    OBVIOUS
  <1>1. stage = "options" /\ status = -1 BY DEF MainInit
  <1>2. port \in UInt16 BY DefaultType DEF MainInit
  <1>3. verboseMode \in BOOLEAN BY DEF MainInit
  <1> QED BY <1>1, <1>2, <1>3 DEF MainTypeOK

\* The option getopt_long found.
Found == IF FirstOption = 0 THEN None ELSE argv[FirstOption]

\* What handleOptions does with it.
LEMMA OptionHandled ==
    ASSUME handleOptions
    PROVE  /\ stage = "options" /\ UNCHANGED <<argv, args, xmlPath, devices>>
           /\ \/ Found \in {"-h", "-l"} /\ Exit(0) /\ UNCHANGED <<port, verboseMode>>
              \/ /\ Found = "-v" /\ verboseMode' = TRUE
                 /\ stage' = "verbose" /\ UNCHANGED <<port, status>>
              \/ /\ Found = "-p" /\ FirstOption < Len(argv)
                 /\ ValidPort(argv[FirstOption + 1])
                 /\ port' = PortOf[argv[FirstOption + 1]]
                 /\ stage' = "verbose" /\ UNCHANGED <<status, verboseMode>>
              \/ /\ Found = "-p" /\ FirstOption < Len(argv)
                 /\ ~ValidPort(argv[FirstOption + 1])
                 /\ Exit(1) /\ UNCHANGED <<port, verboseMode>>
              \/ /\ Found \notin {"-h", "-l", "-v"}
                 /\ Found = "-p" => ~(FirstOption < Len(argv))
                 /\ stage' = "verbose" /\ UNCHANGED <<port, verboseMode, status>>
  <1>1. stage = "options" /\ UNCHANGED <<argv, args, xmlPath, devices>>
    BY DEF handleOptions
  <1>2. CASE Found \in {"-h", "-l"} BY <1>1, <1>2 DEF handleOptions, Found
  <1>3. CASE Found = "-v" BY <1>1, <1>3 DEF handleOptions, Found
  <1>4. CASE Found = "-p" /\ FirstOption < Len(argv)
    BY <1>1, <1>4 DEF handleOptions, Found
  <1>5. CASE Found \notin {"-h", "-l", "-v"} /\ ~(Found = "-p" /\ FirstOption < Len(argv))
    BY <1>1, <1>5 DEF handleOptions, Found
  <1> QED BY <1>2, <1>3, <1>4, <1>5

\* main has a status once it has exited.
StatusOK == /\ stage \in {"options", "verbose", "build", "start", "serving", "exited"}
            /\ status \in {-1, 0, 1} /\ (stage = "exited" <=> status # -1)

LEMMA MainTypeStep == MainTypeOK /\ [MainNext]_mainVars => MainTypeOK'
  <1> SUFFICES ASSUME MainTypeOK, [MainNext]_mainVars PROVE MainTypeOK'
    OBVIOUS
  <1>a. port \in UInt16 /\ verboseMode \in BOOLEAN /\ StatusOK
    BY Z3 DEF MainTypeOK, StatusOK
  <1>b. ASSUME port' \in UInt16, verboseMode' \in BOOLEAN, StatusOK' PROVE MainTypeOK'
    BY <1>b, Z3 DEF MainTypeOK, StatusOK
  <1>1. CASE handleOptions
    <2> DEFINE value == PortOf[argv[FirstOption + 1]]
    <2>1. \/ UNCHANGED <<port, verboseMode>> /\ (Exit(0) \/ Exit(1))
          \/ UNCHANGED <<port, verboseMode, status>> /\ stage' = "verbose"
          \/ UNCHANGED <<port, status>> /\ verboseMode' = TRUE /\ stage' = "verbose"
          \/ /\ UNCHANGED <<verboseMode, status>> /\ stage' = "verbose"
             /\ port' = value /\ value \in UInt16
      <3>1. ValidPort(argv[FirstOption + 1]) => value \in UInt16 BY DEF ValidPort
      <3> HIDE DEF value
      <3> QED BY <1>1, <3>1, OptionHandled DEF value
    <2> HIDE DEF value
    <2>2. stage = "options" /\ status = -1 BY <1>1, <1>a, OptionHandled DEF StatusOK
    <2>3. StatusOK' BY <2>1, <2>2 DEF StatusOK, Exit
    <2>4. port' \in UInt16 BY <2>1, <1>a
    <2>5. verboseMode' \in BOOLEAN
      <3>1. verboseMode' = verboseMode \/ verboseMode' = TRUE BY <2>1
      <3> QED BY <3>1, <1>a
    <2> QED BY <2>3, <2>4, <2>5, <1>b
  <1>2. CASE CollectArgs
    <2>1. UNCHANGED <<port, verboseMode>> BY <1>2 DEF CollectArgs
    <2>2. StatusOK'
      <3>1. Exit(1) \/ (stage' = "build" /\ UNCHANGED status) BY <1>2 DEF CollectArgs
      <3> QED BY <3>1, <1>2, <1>a DEF StatusOK, Exit, CollectArgs
    <2> QED BY <2>1, <2>2, <1>a, <1>b
  <1>3. CASE buildOps
    <2>1. UNCHANGED <<port, verboseMode>> BY <1>3 DEF buildOps
    <2>2. StatusOK' BY <1>3, <1>a DEF StatusOK, Exit, buildOps
    <2> QED BY <2>1, <2>2, <1>a, <1>b
  <1>4. CASE start
    <2>1. UNCHANGED <<port, verboseMode>> BY <1>4 DEF start
    <2>2. StatusOK' BY <1>4, <1>a DEF StatusOK, start
    <2> QED BY <2>1, <2>2, <1>a, <1>b
  <1>5. ASSUME NEW ret \in BOOLEAN, ServerEnds(ret) PROVE MainTypeOK'
    <2>1. UNCHANGED <<port, verboseMode>> BY <1>5 DEF ServerEnds
    <2>2. StatusOK' BY <1>5, <1>a DEF StatusOK, Exit, ServerEnds
    <2> QED BY <2>1, <2>2, <1>a, <1>b
  <1>6. CASE UNCHANGED mainVars
    <2>1. UNCHANGED <<port, verboseMode, stage, status>> BY <1>6 DEF mainVars
    <2>2. StatusOK' BY <2>1, <1>a DEF StatusOK
    <2> QED BY <2>1, <2>2, <1>a, <1>b
  <1> QED BY <1>1, <1>2, <1>3, <1>4, <1>5, <1>6 DEF MainNext

\* What handleOptions reads of a command line of the documented form.
LEMMA ReadsOptions ==
    ASSUME argv \in Seq(STRING), Conforms, NotRead, handleOptions
    PROVE  /\ stage' = "verbose"
           /\ verboseMode' = (PortAt = 0 /\ Body # argv)
           /\ port' = IF PortAt > 0 THEN PortOf[Body[PortAt + 1]] ELSE Default
  <1>1. port = Default /\ verboseMode = FALSE BY OptionHandled DEF NotRead
  <1>2. Len(argv) \in Nat /\ Len(Body) \in Nat
        /\ \A i \in 1..Len(Body) : i \in 1..Len(argv) /\ Body[i] = argv[i]
    BY BodyIs
  <1>3. CASE PortAt > 0
    <2>1. PortAt \in 1..Len(Body) /\ Body[PortAt] = "-p" BY <1>3, PortAtIs
    <2>2. PortAt < Len(Body) /\ ValidPort(Body[PortAt + 1]) BY <1>3 DEF Conforms
    <2>3. PortAt + 1 \in 1..Len(Body) BY <1>2, <2>1, <2>2
    <2>4. argv[PortAt] = "-p" /\ argv[PortAt + 1] = Body[PortAt + 1] /\ PortAt < Len(argv)
      BY <1>2, <2>1, <2>3
    <2>5. FirstOption = PortAt BY <1>3, OptionIs
    <2>6. Found = "-p" BY <1>3, <2>4, <2>5 DEF Found
    <2>7. FirstOption < Len(argv) /\ ValidPort(argv[FirstOption + 1]) BY <2>2, <2>4, <2>5
    <2>8. /\ stage' = "verbose" /\ UNCHANGED verboseMode
          /\ port' = PortOf[argv[FirstOption + 1]]
      BY <2>6, <2>7, OptionHandled
    <2>9. PortAt # 0 BY <2>1
    <2> QED BY <1>1, <1>3, <2>4, <2>5, <2>8, <2>9
  <1>4. CASE ~(PortAt > 0)
    <2>1. PortAt = 0 BY <1>2, <1>4, PortAtIs
    <2>2. CASE Body # argv
      <3>1. Len(argv) # 0 /\ argv[Len(argv)] = "-v" BY <2>2, BodyIs
      <3>2. FirstOption = Len(argv) BY <1>4, <2>2, OptionIs
      <3>3. Found = "-v" BY <3>1, <3>2 DEF Found
      <3>4. stage' = "verbose" /\ verboseMode' = TRUE /\ UNCHANGED port
        BY <3>3, OptionHandled
      <3> QED BY <1>1, <1>4, <2>1, <2>2, <3>4
    <2>3. CASE Body = argv
      <3>1. FirstOption = 0 BY <1>4, <2>3, OptionIs
      <3>2. Found = None BY <3>1 DEF Found
      <3>3. Found \notin {"-h", "-l", "-v", "-p"} BY <3>2 DEF None
      <3>4. stage' = "verbose" /\ UNCHANGED <<port, verboseMode>>
        BY <3>3, OptionHandled
      <3> QED BY <1>1, <1>4, <2>1, <2>3, <3>4
    <2> QED BY <2>2, <2>3
  <1> QED BY <1>3, <1>4

\* A command line of the documented form that is read as verbose ends in -v.
LEMMA VerboseAtEnd ==
    ASSUME argv \in Seq(STRING), Body # argv
    PROVE  Last(argv) = "-v"
  BY BodyIs DEF Last

\* main goes on with a command line of the documented form.
LEMMA NotStopped ==
    ASSUME argv \in Seq(STRING), Conforms, AsRead, CollectArgs
    PROVE  stage' = "build"
  <1>1. Len(Body) >= 2 /\ Len(Body) \in Nat /\ Len(argv) \in Nat BY BodyIs DEF Conforms
  <1>2. Len(argv) >= 2 BY <1>1, BodyIs
  <1>3. argv # <<>> BY <1>2
  <1>4. stage = "verbose" BY DEF CollectArgs
  <1>5. verboseMode => Last(argv) = "-v" BY <1>4, VerboseAtEnd DEF AsRead
  <1>6. Len(argv) # 1 BY <1>2
  <1>7. ~ (\/ verboseMode /\ Last(argv) # "-v"
           \/ argv = <<>>
           \/ Len(argv) = 1 /\ verboseMode)
    BY <1>3, <1>5, <1>6, Zenon
  <1> QED BY <1>7, Zenon DEF CollectArgs

\* The arguments main collects.
LEMMA CollectedIs ==
    ASSUME argv \in Seq(STRING), Conforms, AsRead, Collected, stage = "build"
    PROVE  /\ args \in Seq(STRING) /\ Len(args) \in Nat \ {0}
           /\ argv[1] = "generic" /\ Len(argv) \in Nat
           /\ \A i \in 1..Len(args) : i + 1 \in 1..Len(argv) /\ args[i] = argv[i + 1]
           /\ args[1] = argv[2]
           /\ \A i \in 2..Len(argv) : argv[i] \in WithAt => i - 1 \in 1..Len(args)
  <1> DEFINE n == Len(argv) - IF verboseMode THEN 1 ELSE 0
  <1>1. args = SubSeq(argv, 2, n) BY DEF Collected
  <1>2. Len(argv) \in Nat /\ Len(Body) \in Nat /\ Len(Body) >= 2 BY BodyIs DEF Conforms
  <1>3. verboseMode => Body # argv BY DEF AsRead
  <1>4. /\ verboseMode => Len(Body) = Len(argv) - 1 /\ argv[Len(argv)] = "-v"
        /\ Len(Body) <= Len(argv)
        /\ \A i \in 1..Len(Body) : Body[i] = argv[i]
    BY <1>2, <1>3, BodyIs
  <1>5. n \in 2..Len(argv) /\ (n # Len(argv) => n = Len(argv) - 1 /\ argv[Len(argv)] = "-v")
    BY <1>2, <1>4
  <1> HIDE DEF n
  <1>6. /\ args \in Seq(STRING) /\ Len(args) = n - 2 + 1
        /\ \A i \in 1..(n - 2 + 1) : args[i] = argv[2 + i - 1]
    <2>1. 2 \in 1..2 /\ n \in 0..Len(argv) /\ 2 <= n + 1 BY <1>2, <1>5
    <2> QED BY <1>1, <2>1, Part
  <1>7. Len(args) = n - 1 /\ Len(args) \in Nat /\ Len(args) >= 1 BY <1>2, <1>5, <1>6
  <1>8. \A i \in 1..Len(args) : i + 1 \in 1..Len(argv) /\ args[i] = argv[i + 1]
    <2> SUFFICES ASSUME NEW i \in 1..Len(args)
                 PROVE  i + 1 \in 1..Len(argv) /\ args[i] = argv[i + 1]
      OBVIOUS
    <2>1. i \in 1..(n - 2 + 1) /\ 2 + i - 1 = i + 1 BY <1>2, <1>5, <1>7
    <2>2. i + 1 \in 1..Len(argv) BY <1>2, <1>5, <1>7
    <2> QED BY <2>1, <2>2, <1>6
  <1>9. args[1] = argv[2]
    <2>1. 1 \in 1..Len(args) BY <1>7
    <2> QED BY <2>1, <1>8
  <1>10. argv[1] = "generic"
    <2>1. 1 \in 1..Len(Body) BY <1>2
    <2> QED BY <2>1, <1>4 DEF Conforms
  <1>11. \A i \in 2..Len(argv) : argv[i] \in WithAt => i - 1 \in 1..Len(args)
    <2> SUFFICES ASSUME NEW i \in 2..Len(argv), argv[i] \in WithAt, i - 1 \notin 1..Len(args)
                 PROVE  FALSE
      OBVIOUS
    <2>1. i = Len(argv) /\ n # Len(argv) BY <1>2, <1>5, <1>7
    <2>2. argv[i] = "-v" BY <2>1, <1>5
    <2> QED BY <2>2, CommandLineAssumption DEF CommandLineAssumption, Dashed, Options
  <1> QED BY <1>2, <1>6, <1>7, <1>8, <1>9, <1>10, <1>11

\* The devices among the arguments of the context are those of the command line.
LEMMA SameDevices ==
    ASSUME argv \in Seq(STRING), Conforms, AsRead, Collected, stage = "build",
           NEW devs, Lists(devs, args), Len(devs) \in Nat
    PROVE  Lists(devs, argv)
  <1>1. PICK at \in [1..Len(devs) -> 1..Len(args)] :
            /\ \A i, j \in 1..Len(devs) : i < j => at[i] < at[j]
            /\ \A i \in 1..Len(devs) : devs[i] = args[at[i]]
            /\ \A n \in 1..Len(args) : args[n] \in WithAt <=> \E i \in 1..Len(devs) : at[i] = n
    BY DEF Lists
  <1> DEFINE to == [i \in 1..Len(devs) |-> at[i] + 1]
  <1>2. Len(args) \in Nat /\ Len(argv) \in Nat BY CollectedIs
  <1>3. \A i \in 1..Len(devs) : at[i] \in 1..Len(args) /\ to[i] = at[i] + 1 BY <1>1
  <1>4. to \in [1..Len(devs) -> 1..Len(argv)]
    <2>1. \A i \in 1..Len(devs) : at[i] + 1 \in 1..Len(argv) BY <1>3, CollectedIs
    <2> QED BY <2>1
  <1> HIDE DEF to
  <1>5. \A i, j \in 1..Len(devs) : i < j => to[i] < to[j] BY <1>1, <1>2, <1>3
  <1>6. \A i \in 1..Len(devs) : devs[i] = argv[to[i]]
    <2> SUFFICES ASSUME NEW i \in 1..Len(devs) PROVE devs[i] = argv[to[i]]
      OBVIOUS
    <2>1. args[at[i]] = argv[at[i] + 1] BY <1>3, CollectedIs, Zenon
    <2> QED BY <1>1, <1>3, <2>1, Zenon
  <1>7. ASSUME NEW n \in 1..Len(argv)
        PROVE  argv[n] \in WithAt <=> \E i \in 1..Len(devs) : to[i] = n
    <2>1. CASE n = 1
      <3>1. argv[n] \notin WithAt
        BY <2>1, CollectedIs, CommandLineAssumption DEF CommandLineAssumption
      <3>2. \A i \in 1..Len(devs) : to[i] # n BY <2>1, <1>2, <1>3
      <3> QED BY <3>1, <3>2
    <2>2. CASE n - 1 \in 1..Len(args)
      <3>1. args[n - 1] = argv[n]
        <4>1. (n - 1) + 1 = n BY <1>2
        <4> QED BY <2>2, <4>1, CollectedIs
      <3>2. \A i \in 1..Len(devs) : to[i] = n <=> at[i] = n - 1 BY <1>2, <1>3
      <3> QED BY <2>2, <3>1, <3>2, <1>1
    <2>3. CASE n # 1 /\ n - 1 \notin 1..Len(args)
      <3>1. n \in 2..Len(argv) BY <2>3, <1>2
      <3>2. argv[n] \notin WithAt BY <3>1, <2>3, CollectedIs
      <3>3. \A i \in 1..Len(devs) : to[i] - 1 = at[i] /\ at[i] \in 1..Len(args) BY <1>2, <1>3
      <3>4. \A i \in 1..Len(devs) : to[i] # n BY <2>3, <3>3
      <3> QED BY <3>2, <3>4
    <2> QED BY <2>1, <2>2, <2>3
  <1> SUFFICES /\ to \in [1..Len(devs) -> 1..Len(argv)]
               /\ \A i, j \in 1..Len(devs) : i < j => to[i] < to[j]
               /\ \A i \in 1..Len(devs) : devs[i] = argv[to[i]]
               /\ \A n \in 1..Len(argv) :
                     argv[n] \in WithAt <=> \E i \in 1..Len(devs) : to[i] = n
    BY Zenon DEF Lists
  <1> QED BY <1>4, <1>5, <1>6, <1>7, Zenon

\* The path is the first argument of the context, unless there is a colon in it,
\* and always one of them or none.
LEMMA PathIs ==
    ASSUME NEW s \in Seq(STRING), Len(s) \in Nat \ {0}
    PROVE  /\ getXMLPath(s) = s[1] <=> s[1] \notin WithColon
           /\ getXMLPath(s) = None \/ \E i \in 1..Len(s) : getXMLPath(s) = s[i]
  <1> DEFINE I == {i \in 1..Len(s) : s[i] \notin WithColon}
             at == SelectInSeq(s, LAMBDA a : a \notin WithColon)
  <1>1. I \in SUBSET Nat /\ at = IF I # {} THEN Min(I) ELSE 0 BY DEF SelectInSeq
  <1>2. getXMLPath(s) = IF at = 0 THEN None ELSE s[at] BY DEF getXMLPath
  <1> HIDE DEF at
  <1>3. CASE I = {}
    <2>1. getXMLPath(s) = None BY <1>1, <1>2, <1>3
    <2>2. s[1] \in WithColon BY <1>3
    <2> QED BY <2>1, <2>2, CommandLineAssumption DEF CommandLineAssumption
  <1>4. CASE I # {}
    <2>1. PICK k \in I : \A y \in I : k <= y BY <1>1, <1>4, Least
    <2>2. at = k BY <1>1, <1>4, <2>1, MinIs
    <2>3. k \in 1..Len(s) /\ s[k] \notin WithColon /\ k # 0 BY <2>1
    <2>4. getXMLPath(s) = s[k] BY <1>2, <2>2, <2>3
    <2>5. s[1] \notin WithColon => k = 1 BY <2>1
    <2> QED BY <2>3, <2>4, <2>5
  <1> QED BY <1>3, <1>4

\* What the options read say of a command line of the documented form.
LEMMA AsAsked ==
    ASSUME argv \in Seq(STRING), Conforms, AsRead, stage # "options"
    PROVE  /\ verboseMode = AskedVerbose <=> ~(AskedVerbose /\ PortAt > 0)
           /\ port = AskedPort <=> PortAt > 0 \/ AskedPort = Default
  <1>1. /\ verboseMode = (PortAt = 0 /\ Body # argv)
        /\ port = IF PortAt > 0 THEN PortOf[Body[PortAt + 1]] ELSE Default
    BY Zenon DEF AsRead
  <1>2. PortAt = 0 <=> ~(PortAt > 0)
    <2>1. Len(Body) \in Nat BY BodyIs
    <2> QED BY <2>1, PortAtIs
  <1>3. verboseMode = AskedVerbose <=> ~(AskedVerbose /\ PortAt > 0)
    BY <1>1, <1>2, Zenon DEF AskedVerbose
  <1>4. port = AskedPort <=> PortAt > 0 \/ AskedPort = Default
    <2>1. CASE PortAt > 0 BY <1>1, <2>1, Zenon DEF AskedPort
    <2>2. CASE ~(PortAt > 0) BY <1>1, <2>2, Zenon
    <2> QED BY <2>1, <2>2
  <1> QED BY <1>3, <1>4

\* What main does of a command line it reads, step by step.
LEMMA MainStep ==
    ASSUME MainInv, [MainNext]_mainVars
    PROVE  NotRead' /\ AsRead' /\ Collected' /\ PathChosen' /\ HonouredExactly'
  <1>1. argv \in Seq(STRING)
    BY CommandLineAssumption DEF CommandLineAssumption, MainInv
  <1>2. NotRead /\ AsRead /\ Collected /\ PathChosen /\ HonouredExactly /\ MainTypeOK
    BY DEF MainInv
  <1>a. CASE handleOptions
    <2>1. argv' = argv /\ stage = "options" BY <1>a, OptionHandled
    <2>2. /\ Body' = Body /\ PortAt' = PortAt /\ Conforms' = Conforms
          /\ AskedVerbose' = AskedVerbose /\ AskedPort' = AskedPort
      BY <2>1, SameArguments
    <2>3. stage' \in {"verbose", "exited"} BY <1>a, OptionHandled DEF Exit
    <2>4. NotRead' /\ Collected' BY <2>3 DEF NotRead, Collected
    <2>5. CASE Conforms
      <3>1. /\ stage' = "verbose"
            /\ verboseMode' = (PortAt = 0 /\ Body # argv)
            /\ port' = IF PortAt > 0 THEN PortOf[Body[PortAt + 1]] ELSE Default
        BY <1>1, <1>2, <1>a, <2>5, ReadsOptions
      <3>2. AsRead' BY <2>1, <2>2, <3>1, Zenon DEF AsRead
      <3>3. PathChosen' /\ HonouredExactly' BY <3>1 DEF PathChosen, HonouredExactly, Built
      <3> QED BY <2>4, <3>2, <3>3
    <2>6. CASE ~Conforms
      <3>1. AsRead' /\ PathChosen' /\ HonouredExactly'
        BY <2>2, <2>6 DEF AsRead, PathChosen, HonouredExactly
      <3> QED BY <2>4, <3>1
    <2> QED BY <2>5, <2>6
  <1>b. CASE CollectArgs
    <2>1. UNCHANGED <<argv, port, verboseMode, xmlPath, devices>> /\ stage = "verbose"
      BY <1>b DEF CollectArgs
    <2>2. /\ Body' = Body /\ PortAt' = PortAt /\ Conforms' = Conforms
          /\ AskedVerbose' = AskedVerbose /\ AskedPort' = AskedPort
      BY <2>1, SameArguments
    <2>3. stage' \in {"build", "exited"} BY <1>b DEF CollectArgs, Exit
    <2>4. NotRead' BY <2>3 DEF NotRead
    <2>5. Collected'
      <3>1. CASE stage' = "build"
        <4>1. ~ (\/ verboseMode /\ Last(argv) # "-v"
                 \/ argv = <<>>
                 \/ Len(argv) = 1 /\ verboseMode)
          BY <1>b, <3>1 DEF CollectArgs, Exit
        <4>2. args' = SubSeq(argv, 2, Len(argv) - IF verboseMode THEN 1 ELSE 0)
          BY <1>b, <4>1, Zenon DEF CollectArgs
        <4> QED BY <2>1, <4>1, <4>2 DEF Collected
      <3>2. CASE stage' = "exited" BY <3>2 DEF Collected
      <3> QED BY <2>3, <3>1, <3>2
    <2>6. AsRead'
      <3>1. stage # "options" BY <2>1
      <3> QED BY <1>2, <2>1, <2>2, <3>1, Zenon DEF AsRead
    <2>7. PathChosen' /\ HonouredExactly'
      <3>1. Conforms => stage' = "build" BY <1>1, <1>2, <1>b, NotStopped
      <3> QED BY <2>2, <2>3, <3>1 DEF PathChosen, HonouredExactly, Built
    <2> QED BY <2>4, <2>5, <2>6, <2>7
  <1>c. CASE buildOps
    <2>1. UNCHANGED <<argv, port, verboseMode, args>> /\ stage = "build" BY <1>c DEF buildOps
    <2>2. /\ Body' = Body /\ PortAt' = PortAt /\ Conforms' = Conforms
          /\ AskedVerbose' = AskedVerbose /\ AskedPort' = AskedPort
      BY <2>1, SameArguments
    <2>3. stage' \in {"start", "exited"} BY <1>c DEF buildOps, Exit
    <2>4. NotRead' /\ Collected' BY <2>3 DEF NotRead, Collected
    <2>5. AsRead'
      <3>1. stage # "options" BY <2>1
      <3> QED BY <1>2, <2>1, <2>2, <3>1, Zenon DEF AsRead
    <2>6. PathChosen' /\ HonouredExactly'
      <3> SUFFICES ASSUME Conforms PROVE PathChosen' /\ HonouredExactly'
        BY <2>2 DEF PathChosen, HonouredExactly
      <3>1. /\ args \in Seq(STRING) /\ Len(args) \in Nat \ {0}
            /\ argv[1] = "generic" /\ args[1] = argv[2]
            /\ \A i \in 1..Len(args) : i + 1 \in 1..Len(argv) /\ args[i] = argv[i + 1]
        BY <1>1, <1>2, <2>1, CollectedIs
      <3>2. args # <<>> BY <3>1
      <3>3. xmlPath' = getXMLPath(args) /\ devices' = getDevices(args) /\ stage' = "start"
        BY <1>c, <3>1, <3>2 DEF buildOps
      <3>4. xmlPath' = argv[2] <=> argv[2] \notin WithColon BY <3>1, <3>3, PathIs
      <3>5. Lists(devices', argv)
        <4>1. Lists(devices', args) /\ Len(devices') \in Nat BY <3>1, <3>3, DevicesFound
        <4> QED BY <1>1, <1>2, <2>1, <4>1, SameDevices
      <3>6. Lists(devices, argv)' BY <2>1, <3>5 DEF Lists
      <3>7. /\ verboseMode = AskedVerbose <=> ~(AskedVerbose /\ PortAt > 0)
            /\ port = AskedPort <=> PortAt > 0 \/ AskedPort = Default
        BY <1>1, <1>2, <2>1, AsAsked
      <3>8. PathChosen'
        <4>1. getXMLPath(args) = None \/ \E i \in 1..Len(args) : getXMLPath(args) = args[i]
          BY <3>1, PathIs
        <4>2. \A i \in 1..Len(argv) : argv[i] # Unset
          BY <1>2, CommandLineAssumption DEF CommandLineAssumption, MainInv
        <4>3. None # Unset BY DEF None, Unset
        <4>4. xmlPath' # Unset BY <3>1, <3>3, <4>1, <4>2, <4>3, Zenon
        <4> QED BY <4>4 DEF PathChosen, Unset
      <3>9. stage' # "exited" BY <3>3
      <3>10. (xmlPath = argv[2] <=> argv[2] \notin WithColon)' BY <2>1, <3>4
      <3>11. (verboseMode = AskedVerbose <=> ~(AskedVerbose /\ PortAt > 0))'
        BY <2>1, <2>2, <3>7, Zenon
      <3>12. (port = AskedPort <=> PortAt > 0 \/ AskedPort = Default)'
        BY <2>1, <2>2, <3>7, Zenon
      <3> QED BY <3>6, <3>8, <3>9, <3>10, <3>11, <3>12, Zenon DEF HonouredExactly
    <2> QED BY <2>4, <2>5, <2>6
  <1>d. ASSUME UNCHANGED <<argv, port, verboseMode, xmlPath, devices>>, stage # "options",
               Built, stage' \in {"serving", "exited"}
        PROVE  NotRead' /\ AsRead' /\ Collected' /\ PathChosen' /\ HonouredExactly'
    <2>2. /\ Body' = Body /\ PortAt' = PortAt /\ Conforms' = Conforms
          /\ AskedVerbose' = AskedVerbose /\ AskedPort' = AskedPort
      BY <1>d, SameArguments
    <2>4. NotRead' /\ Collected' BY <1>d DEF NotRead, Collected
    <2>5. AsRead' BY <1>2, <1>d, <2>2, Zenon DEF AsRead
    <2>6. Lists(devices, argv)' <=> Lists(devices, argv) BY <1>d DEF Lists
    <2>7. PathChosen' /\ HonouredExactly'
      BY <1>2, <1>d, <2>2, <2>6, Zenon DEF PathChosen, HonouredExactly
    <2> QED BY <2>4, <2>5, <2>7
  <1>e. CASE start BY <1>d, <1>e DEF start, Built
  <1>f. ASSUME NEW ret \in BOOLEAN, ServerEnds(ret)
        PROVE  NotRead' /\ AsRead' /\ Collected' /\ PathChosen' /\ HonouredExactly'
    BY <1>d, <1>f DEF ServerEnds, Exit, Built
  <1>g. CASE UNCHANGED mainVars
    <2>1. UNCHANGED <<argv, stage, port, verboseMode, args, xmlPath, devices>>
      BY <1>g DEF mainVars
    <2>2. /\ Body' = Body /\ PortAt' = PortAt /\ Conforms' = Conforms
          /\ AskedVerbose' = AskedVerbose /\ AskedPort' = AskedPort
      BY <2>1, SameArguments
    <2>3. Lists(devices, argv)' <=> Lists(devices, argv) BY <2>1 DEF Lists
    <2>4. NotRead' /\ Collected' BY <1>2, <2>1 DEF NotRead, Collected
    <2>5. AsRead' BY <1>2, <2>1, <2>2, Zenon DEF AsRead
    <2>6. PathChosen' /\ HonouredExactly'
      BY <1>2, <2>1, <2>2, <2>3, Zenon DEF PathChosen, HonouredExactly, Built
    <2> QED BY <2>4, <2>5, <2>6
  <1> QED BY <1>a, <1>b, <1>c, <1>e, <1>f, <1>g DEF MainNext

LEMMA MainInvInit == MainInit => MainInv
  <1> SUFFICES ASSUME MainInit PROVE MainInv
    OBVIOUS
  <1>1. stage = "options" /\ argv \in Argvs /\ port = Default /\ verboseMode = FALSE
    BY DEF MainInit
  <1>2. NotRead /\ AsRead /\ Collected /\ PathChosen /\ HonouredExactly
    BY <1>1 DEF NotRead, AsRead, Collected, PathChosen, HonouredExactly, Built
  <1> QED BY <1>1, <1>2, MainTypeInit DEF MainInv

LEMMA MainInvStep == MainInv /\ [MainNext]_mainVars => MainInv'
  <1> SUFFICES ASSUME MainInv, [MainNext]_mainVars PROVE MainInv'
    OBVIOUS
  <1>1. MainTypeOK' BY MainTypeStep DEF MainInv
  <1>2. argv' = argv
    BY DEF MainNext, mainVars, handleOptions, CollectArgs, buildOps, start, ServerEnds
  <1> QED BY <1>1, <1>2, MainStep DEF MainInv

\* main's variables keep their types (a port strToUint16T answers fits in 16
\* bits), and it has a status exactly once it has exited.
THEOREM MainTypeCorrect == MainSpec => []MainTypeOK
  <1> QED BY MainTypeInit, MainTypeStep, PTL DEF MainSpec

\* No command line of the documented form is refused by main; buildOps gets all
\* the devices it names, wherever its options stand; and the path, -v and the port
\* are those it asks for except in the three cases named, and always in those.
THEOREM CommandLineHonoured == MainSpec => []HonouredExactly
  <1>1. MainInv => HonouredExactly BY DEF MainInv
  <1> QED BY <1>1, MainInvInit, MainInvStep, PTL DEF MainSpec
=============================================================================
