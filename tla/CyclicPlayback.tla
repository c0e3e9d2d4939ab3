--------------------------- MODULE CyclicPlayback ---------------------------
(***************************************************************************)
(* What an output device of the emulated ADALM2000 promises the input      *)
(* device it is wired to (M2kADC reads M2kDAC, M2kLogicRX reads            *)
(* M2kLogicTX): once a client's buffer has been accepted, every read is    *)
(* the cyclic continuation of that buffer from where the previous read     *)
(* stopped.  While no accepted buffer plays (pattern = <<>>) nothing is    *)
(* promised.                                                               *)
(***************************************************************************)
EXTENDS Integers, Sequences

CONSTANT Sample      \* what clients write

VARIABLES pattern,   \* the accepted buffer, <<>> when there is none
          pos,       \* 0-based position of the next sample to play
          out        \* what the current read has received so far

vars == <<pattern, pos, out>>

\* The r samples that follow 0-based position k of the buffer p, round and round.
Cyclic(p, k, r) == [i \in 1..r |-> p[((k + i - 1) % Len(p)) + 1]]

Init == pattern = <<>> /\ pos = 0 /\ out = <<>>

\* A whole buffer has been accepted: it plays from its beginning.
Commit == /\ pattern' \in Seq(Sample)
          /\ pos' = 0
          /\ UNCHANGED out

\* The buffer is being replaced, closed or cancelled.
Withdraw == /\ pattern' = <<>>
            /\ pos' = 0
            /\ UNCHANGED out

\* The connected input device starts a read, or has taken the last one.
Begin == /\ out' = <<>>
         /\ UNCHANGED <<pattern, pos>>

\* The read in progress receives more samples of the pattern.
Deliver == /\ pattern # <<>>
           /\ LET r == Len(out') - Len(out) IN
              /\ r >= 0
              /\ out' = out \o Cyclic(pattern, pos, r)
              /\ pos' = (pos + r) % Len(pattern)
           /\ UNCHANGED pattern

\* The read receives samples nobody promised anything about.
DeliverUnpromised == /\ pattern = <<>>
                     /\ UNCHANGED <<pattern, pos>>

Next == Commit \/ Withdraw \/ Begin \/ Deliver \/ DeliverUnpromised

Spec == Init /\ [][Next]_vars
=============================================================================
