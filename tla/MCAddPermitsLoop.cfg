CONSTANTS
    f1 = f1
    f2 = f2
    f3 = f3
    Futures = {f1, f2, f3}
    c1 = c1
    Contexts = {c1}
    None = None
    NumWakers = 2
    MaxPermits = 2
    MaxRem = 6
    MaxNeed = 2
SPECIFICATION Spec
INVARIANTS
    WakersUsedOnce
PROPERTIES
    OneStep
    Ends
CHECK_DEADLOCK FALSE
