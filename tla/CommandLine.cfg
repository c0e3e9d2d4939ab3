SPECIFICATION MainSpec
CONSTANTS
    Argvs <- MCArgvs
    WithColon <- MCWithColon
    WithAt <- MCWithAt
    Unknown = {"-x"}
    Numerals = {"1234", "30431", "70000"}
    PortOf <- MCPortOf
    Default = 30431
INVARIANTS
    MainTypeOK
    HonouredExactly
CHECK_DEADLOCK FALSE
