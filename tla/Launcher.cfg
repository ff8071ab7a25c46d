\* One restart and a short scale of sleeps: base 1, limit 2, a circuit that
\* opens on the second refusal.
SPECIFICATION FairSpec
CONSTANTS
    BaseSleep = 1
    MaxSleep = 2
    Threshold = 2
    MaxOpen = 5
    Delays = {1, 3}
    ErrorCap = 2
    MaxRestarts = 1
INVARIANTS EndsProperly
PROPERTIES RefusalRespected EveryRequestEnds PollingSupervised
CHECK_DEADLOCK FALSE
