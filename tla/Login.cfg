SPECIFICATION Spec
CONSTANTS
    Users = {u1}
    Admins = {u1}
    Workers = {w1, w2}
    MaxSessions = 2
    SessionTimeout = 1
    BlockDuration = 2
    MaxTotpAttempts = 4
    MaxTime = 3
    AttemptCap = 0
    TotpMax = 2
    BurstLimit = 4
    BurstWindow = 1
    BurstBlock = 1
INVARIANTS AttemptsBounded
PROPERTIES OnlyCodesAuthenticate GateSpec
