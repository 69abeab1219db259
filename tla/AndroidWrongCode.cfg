CONSTANTS
    MaxSessions = 1
    MaxTickets = 0
    MaxCalls = 1
    MaxRestarts = 0
SPECIFICATION Spec
PROPERTIES
    WrongCodeStays
