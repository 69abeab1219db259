CONSTANTS
    Viewer = alice
    Devices = {phone, tablet}
    Requests = {r1, r2}
    Cap = 1
    Cooldown = 1
    JwtTtl = 0
    TicketTtl = 0
    NoRow = NoRow
    Null = Null
    Limit = 2
    Window = 2
    Expiry = 2
    MaxAttempts = 1
    NoCode = NoCode
    MaxNow = 1
    MaxCodes = 2
    MaxWrong = 0
    Absent = Absent
SPECIFICATION Spec
SYMMETRY Symmetry
VIEW View
INVARIANTS
    TypeOK
    UserBehindEverything
PROPERTIES
    DevicesCostCodes
    RegistrySpec
    CodesSpec
    CooldownOnlyOfKnownUser
    RepeatedSignInSucceeds
