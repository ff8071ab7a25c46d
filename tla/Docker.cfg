SPECIFICATION MCSpec
CONSTANTS
    w1 = w1
    w2 = w2
    a1 = a1
    a2 = a2
    Users = {a1, a2}
    Admins = {a1, a2}
    Workers = {w1, w2}
    Actions = {"start"}
    MaxSessions = 1
    SessionTimeout = 0
    BlockDuration = 1
    MaxTotpAttempts = 1
    AttemptCap = 0
    MaxTime = 1
    MinInterval = 1
    RateTTL = 1
    MaxRateUsers = 1
    TimeLimit = 1
    Statuses = {"restarting", "exited"}
    Repos = {1, 2, 3}
    Official = {1}
    MaxConcurrent = 2
    PerHost = 1
    MaxRetries = 2
    Readers = {1, 2}
    Chats = {1}
    Senders = {1, 2}
    MaxPending = 2
    MaxMessages = 3
    HealthInterval = 2
    TestRetries = 3
INVARIANTS OnlyForValidLogins AnswersAreHonest FewAfterLimit PlacesAreHeld ClientIsHonest
PROPERTIES EveryPressAnswered RateSpaced ChecksAreAnswered PromiseKept
CHECK_DEADLOCK FALSE
