CONSTANTS
    MaxSessions = 2
    MaxTickets = 1
    MaxCalls = 2
    MaxRestarts = 1
SPECIFICATION FairSpec
CONSTRAINT Bounds
INVARIANTS
    TypeOK
    ScreenMatchesToken
PROPERTIES
    LateAnswersHarmless
    ForcedSignOut
