SPECIFICATION EncodingSpec
CONSTANTS
    Accounts <- MCAccounts
    Recipients <- MCRecipients
    Tokens <- MCTokens
    Numbers <- MCNumbers
INVARIANTS
    WithdrawalsBuilt
    OrdersBuilt
    MessagesAreUnambiguous
    KeySpeaksForLogin
