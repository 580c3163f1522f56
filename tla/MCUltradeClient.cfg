SPECIFICATION UltradeSpec
CONSTANTS
    EVENT_LIST <- MCEventList
    Streams <- MCStreams
    Options <- MCOptions
    Dicts <- MCDicts
    Auths <- MCAuths
    CoarseClock = FALSE
    MaxCalls = 3
    Tasks = {t1}
    MaxFaults = 1
INVARIANTS
    PresentsOpener
    NoticesSurvive
CHECK_DEADLOCK FALSE
