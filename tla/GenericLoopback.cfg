SPECIFICATION Spec
CONSTANTS
    MaxChunk = 2
    MaxRead = 3
    MaxBytes = 5
    MaxFaults = 2
    MaxKills = 2
    MaxOthers = 1
INVARIANTS
    LossExplained
    NeverTwice
    
CHECK_DEADLOCK FALSE
