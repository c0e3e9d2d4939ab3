SPECIFICATION FairSpec
CONSTANTS
    RawSamples = {16, 32}
    Rates = {2, 3, 4}
    Oversamplings = {1}
    MaxRate = 4
    Compensation <- MCCompensation
    Scale = 2
    Unset = Unset
    Garbage = Garbage
    MaxChunk = 2
    MaxSamples = 4
    MaxRead = 3
INVARIANTS
    TypeOK
    NeverDividesByZero
    OutOfBoundsOnlyAfterClose
    AcceptedBufferPlays
PROPERTIES
    PlaybackSpec
    ReadEnds
CHECK_DEADLOCK FALSE
