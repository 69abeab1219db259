CONSTANTS
    Users = {alice, bola}
    Devices = {phone, tablet}
    Requests = {r1}
    Cap = 1
    Cooldown = 2
    JwtTtl = 1
    TicketTtl = 0
    MaxNow = 3
    NoRow = NoRow
    Null = Null
SPECIFICATION Spec
SYMMETRY Symmetry
VIEW View
INVARIANTS
    OneOwnDeactivationPerCooldown
PROPERTIES
    DevicesOfOthersUntouched
