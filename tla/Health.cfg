SPECIFICATION HealthSpec
CONSTANTS
    Components <- TwoComponents
    Readings <- FewReadings
    HostStates <- FewHostStates
    Interval <- TwoIntervals
    BaseInterval = 4
    CheckTime = 1
INVARIANTS StableIsRecent AdviceMatchesLevel
PROPERTIES Converges
CHECK_DEADLOCK FALSE
