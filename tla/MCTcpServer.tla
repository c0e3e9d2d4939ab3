---------------------------- MODULE MCTcpServer ----------------------------
EXTENDS TcpServer, TLC

CONSTANTS dacA, dacB, c1, c2, c3

MCDevices == <<dacA, dacB>>
MCConns2 == {c1, c2}
MCConns3 == {c1, c2, c3}
\* The first device is there to be found in place of the second.
MCRequests == {<<"open", dacA>>, <<"open", dacB>>, <<"close", dacB>>, <<"writebuf", dacB>>}
MCFewRequests == {<<"other", NoConn>>}
\* The commands of the liveness run touch no device.
MCNoDevice == <<>>
MCUnix == [unix |-> MCConns2]
MCBoth == [unix |-> MCConns2, windows |-> MCConns2]
MCBothLive == [unix |-> MCConns3, windows |-> MCConns2]
ConnSymmetry == Permutations(MCConns2)
=============================================================================
