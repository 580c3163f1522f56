SPECIFICATION ClientSpec
CONSTANTS
    EVENT_LIST <- MCEventList
    Streams <- MCStreams
    Options <- MCPlainOptions
    CoarseClock = FALSE
    MaxCalls = 2
    Tasks = {t1, t2}
    MaxFaults = 0
INVARIANTS
    IdHasConnection
CHECK_DEADLOCK FALSE
