SPECIFICATION AuthSpec
CONSTANTS
    t1 = t1
    t2 = t2
    alice = alice
    bob = bob
    key1 = key1
    key2 = key2
    None = None
    NotAToken = NotAToken
    Tasks = {t1, t2}
    Users = {alice, bob}
    TradingKeys = {key1, key2}
    KeyAddress <- MCKeyAddress
    SigninResponses = {"token", "error", "empty", "failure"}
    MaxOrders = 2
INVARIANTS
    AuthTypeOK
    OneAuthMethod
    ClaimsAuthorised
    RequestSpeaksForCaller
    TokenBelongsToUser
    FundsNeedLogin
SYMMETRY MCSymmetry
PROPERTIES
    ImplementsCredentials
