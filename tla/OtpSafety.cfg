CONSTANTS
    Requests = {r1, r2}
    Limit = 1
    Window = 3
    Expiry = 2
    MaxAttempts = 2
    MaxNow = 4
    MaxCodes = 3
    MaxWrong = 1
    NoCode = NoCode
SPECIFICATION Spec
SYMMETRY Symmetry
INVARIANTS
    TypeOK
    RateBound
    AcceptBound
    CommittedCodesWereSent
    OtpInvariant
PROPERTIES
    AcceptedCodesWereFresh
