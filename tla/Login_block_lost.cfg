SPECIFICATION Spec
CONSTANTS
    Users = {u1, u2}
    Admins = {u1}
    Workers = {w1}
    MaxSessions = 3
    SessionTimeout = 1
    BlockDuration = 2
    MaxTotpAttempts = 4
    MaxTime = 3
    AttemptCap = 0
    TotpMax = 2
    BurstLimit = 4
    BurstWindow = 1
    BurstBlock = 1
PROPERTIES BlockLasts
