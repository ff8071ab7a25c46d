SPECIFICATION MenuSpec
CONSTANTS
    Viewers = {1, 2}
    LogScreens = {1}
    LogHandlers = {1, 2}
    LogsTtl = 1
    MaxSessions = 2
    Lists <- SomeLists
    Loaders = {1, 2}
    ListTtl = 2
    ListTime = 1
    PluginNames = {1, 2}
    MaxAsked = 3
    PluginOrders <- SomeOrders
    NoHandler = NoHandler
    Readers = {1, 2}
    Adapters = {1, 2}
    ReadingTtl = 2
    TimeLimit = 1
    Workers = 1
    MaxTime = 3
    Users = {p1, p2, p3}
    Admins = {p1, p2}
    NoOwner = NoOwner
    Foreign = Foreign
    Broken = Broken
    Names <- SomeNames
    Containers = {c1}
    Looks = {r1, r2}
    DetailsTtl = 2
    StateTtl = 1
    CountersTtl = 1
    FetchTime = 1
    Old = 3
    Nothing = Nothing
    MaxUpdates = 2
    None = None
INVARIANTS EveryButtonWorks
