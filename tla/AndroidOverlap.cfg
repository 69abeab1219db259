CONSTANTS
    MaxSessions = 1
    MaxTickets = 0
    MaxCalls = 2
    MaxRestarts = 0
SPECIFICATION Spec
PROPERTIES
    AcceptedCodeSignsIn
