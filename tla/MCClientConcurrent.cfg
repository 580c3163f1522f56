SPECIFICATION ClientSpec
CONSTANTS
    EVENT_LIST <- MCEventList
    Streams <- MCStreams
    Options <- MCOptions
    CoarseClock = FALSE
    MaxCalls = 3
    Tasks = {t1, t2}
    MaxFaults = 1
INVARIANTS
    NoConnectionNoStreams
    NoOrphanCallbacks
    CurrentSendsOnlyWanted
PROPERTIES
    NeverClosesInUse
    OthersUndisturbed
    CallsReturn
CHECK_DEADLOCK FALSE
