SPECIFICATION AlgoFairSpec
CONSTANTS
    p1 = p1
    p2 = p2
    Processes = {p1, p2}
    Tokens = {0, 7}
    Amounts = {5}
    MaxCalls = 3
    MaxRounds = 2
INVARIANTS
    AlgoTypeOK
    CreditedIsReceived
    ReturnedDepositedItsOwn
PROPERTIES
    DepositsEnd
