SPECIFICATION ClientSpec
CONSTANTS
    EVENT_LIST <- MCEventList
    Streams <- MCStreams
    Options <- MCPlainOptions
    CoarseClock = FALSE
    MaxCalls = 2
    Tasks = {t1}
    MaxFaults = 1
INVARIANTS
    UnsubscribeDisconnects
CHECK_DEADLOCK FALSE
