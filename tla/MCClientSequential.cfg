SPECIFICATION ClientSpec
CONSTANTS
    EVENT_LIST <- MCEventList
    Streams <- MCStreams
    Options <- MCPlainOptions
    CoarseClock = FALSE
    MaxCalls = 3
    Tasks = {t1}
    MaxFaults = 2
INVARIANTS
    ClientTypeOK
    ServerSendsOnlyWanted
    OneConnection
PROPERTIES
    LostConnectionRecovers
    UnusedConnectionCloses
CHECK_DEADLOCK FALSE
