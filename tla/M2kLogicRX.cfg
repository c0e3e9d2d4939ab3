SPECIFICATION RXSpec
CONSTANTS
    Words = {{0}, {1}}
    Rates = {2, 4}
    MaxRate = 4
    MaxChunk = 2
    MaxSamples = 6
    MaxRead = 8
    Width = 2
    RXRates = {0, 2, 4, 8}
    ZeroRatios = {0, 2}
    Garbage = {99}
    MaxLen = 7
INVARIANTS
    RXTypeOK
    ThrowsOnlyAfterCancel
    AcceptedBufferPlays
    GarbageReads
PROPERTIES
    PlaybackSpec
    DigitalLoop
CHECK_DEADLOCK FALSE
