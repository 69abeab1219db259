CONSTANTS
    Users = {alice}
    Devices = {phone, tablet, spare}
    Requests = {r1, r2}
    Cap = 2
    Cooldown = 1
    JwtTtl = 0
    TicketTtl = 0
    MaxNow = 1
    NoRow = NoRow
    Null = Null
SPECIFICATION Spec
SYMMETRY Symmetry
VIEW View
INVARIANTS
    TypeOK
    UncontendedReadsHold
PROPERTIES
    CapBrokenOnlyByRaceOrReactivation
    CooldownBrokenOnlyByRace
    StampsLostOnlyByRace
    TokenOfActiveDevice
    ErrorsOnlyByRace
    LoggedDeviceIsInactive
    ListTellsCooldown
    LifecycleSpec
