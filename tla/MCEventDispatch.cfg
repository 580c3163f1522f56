SPECIFICATION DispatchSpec
CONSTANTS
    EVENT_LIST <- MCEventList
    Streams <- MCStreams
    Options <- MCOptions
    CoarseClock = TRUE
    MaxCalls = 2
    Workers = 2
    MaxEvents = 2
INVARIANTS
    
    PoolMatchesCallbacks
    CallsAreAsked
    DueCallsUnderway
PROPERTIES
    UnsubscribeIsTheLoops
    ImplementsRegistry
    EventsAreDelivered
CHECK_DEADLOCK FALSE
