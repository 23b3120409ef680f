CONSTANTS
    f1 = f1
    f2 = f2
    f3 = f3
    f4 = f4
    Futures = {f1, f2, f3, f4}
    c1 = c1
    c2 = c2
    Contexts = {c1, c2}
    None = None
    Uninit = Uninit
    MaxPermits = 3
SPECIFICATION FairSpec
INVARIANTS
    ClosedWhenSet
    OneInitializer
    AttemptPassedOn
    DisposedOnce
PROPERTIES
    CallsReturn
