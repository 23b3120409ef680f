CONSTANTS
    f1 = f1
    f2 = f2
    f3 = f3
    Futures = {f1, f2, f3}
    c1 = c1
    c2 = c2
    Contexts = {c1, c2}
    None = None
    Amounts = {0, 1, 2}
    InitialPermits = 1
    MaxPermits = 3
    MaxBalance = 2
    Forgettable = {f1, f2, f3}
SPECIFICATION FairSpec
INVARIANTS
    PermitsAccounted
PROPERTIES
    InnerSpec
    EveryWaiterAnswered
    CloseReachesAll
