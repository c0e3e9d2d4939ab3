SPECIFICATION FairSpec
CONSTANTS
    Buffers <- MCBuffers
    Documents <- MCDocuments
    MaxRate = 4
    Compensation <- MCCompensation
    Gain <- MCGain
    Ranges = {"high", "low", "other"}
    VerticalScale = 2
    Shorts <- MCShorts
    Garbage = Garbage
    MaxLen = 2
    MaxClock = 6
INVARIANTS
    TypeOK
    SameWindow
    InPhase
PROPERTY
    ReadEnds
CHECK_DEADLOCK FALSE
