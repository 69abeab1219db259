CONSTANTS
    Requests = {r1}
    Limit = 1
    Window = 3
    Expiry = 2
    MaxAttempts = 2
    MaxNow = 0
    MaxCodes = 1
    MaxWrong = 3
    NoCode = NoCode
SPECIFICATION Spec
INVARIANTS
    WrongCodesLimited
