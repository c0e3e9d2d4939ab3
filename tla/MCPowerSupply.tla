--------------------------- MODULE MCPowerSupply ---------------------------
EXTENDS PowerSupply

\* The calibration in adalm2000.xml with the constants of the constructor.
MCSlope == [i \in Supplies |-> IF i = 0 THEN 9477 ELSE 9525]
MCOffset == [i \in Supplies |-> IF i = 0 THEN 4842 ELSE 10737]
=============================================================================
