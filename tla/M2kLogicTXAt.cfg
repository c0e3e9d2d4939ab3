SPECIFICATION Spec
CONSTANTS
    Words = {{0}, {1}}
    Rates = {2, 4}
    MaxRate = 4
    MaxChunk = 2
    MaxSamples = 4
    MaxRead = 3
INVARIANT
    AtNeverThrows
CHECK_DEADLOCK FALSE
