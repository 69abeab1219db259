CONSTANTS
    Tabs = {t1, t2}
    Emails = {ada}
    Passwords = {pw1, pw2, short}
    Unusable = {short}
    JwtTtl = 1
    MaxNow = 1
    MaxSessions = 2
    NoToken = NoToken
    NoAccount = NoAccount
SPECIFICATION FairSpec
INVARIANTS
    TypeOK
    RegistrationsKept
PROPERTIES
    SessionEnds
    NavigationsEnd
