\* One issue comes and goes on a budget of two; one worker may die, and the
\* stop may find the supervisor about to replace it.
SPECIFICATION FairSpec
CONSTANTS
    cpu = cpu
    Issues = {cpu}
    MaxNotifications = 2
    ResetWindow = 2
    MaxTime = 3
    Slots = 2
    Writers = 2
    Threads = 3
    Attempts = 2
    MaxDeaths = 1
INVARIANTS SlotsAccounted OneWorker BudgetHolds
PROPERTIES StoreClosedLast ThreadsSupervised
CHECK_DEADLOCK FALSE
