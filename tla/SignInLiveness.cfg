CONSTANTS
    Viewer = alice
    Devices = {phone}
    Requests = {r1, r2}
    Cap = 1
    Cooldown = 1
    JwtTtl = 0
    TicketTtl = 0
    NoRow = NoRow
    Null = Null
    Limit = 2
    Window = 2
    Expiry = 2
    MaxAttempts = 1
    NoCode = NoCode
    MaxNow = 0
    MaxCodes = 2
    MaxWrong = 0
    Absent = Absent
SPECIFICATION FairSpec
PROPERTIES
    EveryRequestEnds
