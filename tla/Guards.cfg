SPECIFICATION Spec
CONSTANTS
    Users = {u1, u2, u3}
    Callers = {stranger, friend}
    Allowed = {friend}
    Workers = {w1, w2, w3}
    Updates = {t1, t2, t3}
    MaxSessions = 2
    SessionTimeout = 0
    BlockDuration = 1
    MaxTotpAttempts = 1
    MaxTime = 1
    AttemptCap = 0
    MaxAttempts = 3
    Blocking = 3
    Suppression = 2
    MaxLag = 1
    Threshold = 1
    Grace = 1
    MaxRotations = 2
    MaxMishaps = 1
    Horizon = 2
INVARIANTS WithinCapacity LimitsHold CurrentAccepted
PROPERTIES EvictionSparesLogins CleanersClean UpdatesGetThrough
CHECK_DEADLOCK FALSE
