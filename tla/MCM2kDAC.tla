------------------------------ MODULE MCM2kDAC ------------------------------
EXTENDS M2kDAC

\* 4 is the full rate, 2 half of it; 3 is not in the table.
MCCompensation == [rate \in {2, 4} |-> 1]
=============================================================================
