SPECIFICATION DepositSpec
CONSTANTS
    p1 = p1
    p2 = p2
    Processes = {p1}
    Amounts = {1, 3}
    InitialAllowance = 1
    InitialBalance = 5
    StrictToken = FALSE
    MaxCalls = 1
INVARIANTS
    ReturnedIsDeposited
CHECK_DEADLOCK FALSE
