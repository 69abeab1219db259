CONSTANTS
    Requests = {r1, r2}
    Limit = 1
    Window = 3
    Expiry = 2
    MaxAttempts = 2
    MaxNow = 0
    MaxCodes = 1
    MaxWrong = 1
    NoCode = NoCode
SPECIFICATION Spec
INVARIANTS
    AcceptedOnce
