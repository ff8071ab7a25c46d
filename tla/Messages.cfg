SPECIFICATION MCSpec
CONSTANTS
    None = None
    Nobody = Nobody
    NoMarker = NoMarker
    Users = {u1}
    Workers = {w1, w2}
    Codes <- SomeCodes
    CodeOf <- SomeCodeOf
    WindowSteps = 2
    MaxTracked = 64
    MaxLag = 1
    MaxTime = 3
    Keys = {k1, k2, k3}
    Sender <- OneSender
    Ttl = 2
    MaxEntries = 2
    Limit = 2
    Period = 2
    MaxDelay = 1
    Horizon = 4
SYMMETRY MCSymmetry
INVARIANTS CodesWorkOnce HandledOnce
PROPERTIES LimitIsExact CodesAreSpent
