SPECIFICATION Spec
CONSTANTS
    Raws = {0, 1, 4095}
    Slope <- MCSlope
    Offset <- MCOffset
    Unit = 10000
    NaN = NaN
    Empty = Empty
INVARIANTS
    TypeOK
    MeasuresOutput
CHECK_DEADLOCK FALSE
