CONSTANTS
    Users = {alice}
    Devices = {phone, tablet, spare}
    Requests = {r1}
    Cap = 2
    Cooldown = 2
    JwtTtl = 0
    TicketTtl = 0
    MaxNow = 3
    NoRow = NoRow
    Null = Null
SPECIFICATION Spec
SYMMETRY Symmetry
INVARIANTS
    CapRespected
