SPECIFICATION Spec
CONSTANTS
    Documents <- MCDocuments
    Links <- MCLinks
    Values = {"v0", "v1"}
    Devices = {"device0", "device1", "device3"}
    Channels = {"voltage0", "voltage1"}
    Names = {"gain", "bias"}
    NoValue = NoValue
    Squeeze <- MCSqueeze
INVARIANTS
    TypeOK
    ReadsLastWrite
    AdvertisedIsFound
    ServedTextCurrent
    FaultsExplained
    ServesUnlessMixed
CHECK_DEADLOCK FALSE
