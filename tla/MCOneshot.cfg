CONSTANTS
    c1 = c1
    c2 = c2
    c3 = c3
    Contexts = {c1, c2, c3}
    None = None
SPECIFICATION FairSpec
INVARIANTS
    TypeOK
    NoLostWakeup
PROPERTIES
    WaitersAnswered
    PromiseSpec
CHECK_DEADLOCK FALSE
