SPECIFICATION DepositSpec
CONSTANTS
    p1 = p1
    p2 = p2
    Processes = {p1, p2}
    Amounts = {1, 3}
    InitialAllowance = 1
    InitialBalance = 5
    StrictToken = FALSE
    MaxCalls = 3
INVARIANTS
    DepositTypeOK
    NothingOutdated
    OneInFlight
    NothingLeftApproved
PROPERTIES
    ImplementsDeposits
CHECK_DEADLOCK FALSE
