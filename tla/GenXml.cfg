SPECIFICATION Spec
CONSTANTS
    Contexts <- MCContexts
    UINT_MAX = 15
    HeadLen = 2
    TailLen = 1
    AttrLen = 3
    ScanLen = 2
INVARIANTS
    BadFreeOnlyAfterDebugAttrs
    OnlyValuesLeak
    PrintsWholeDocument
CHECK_DEADLOCK FALSE
