CONSTANTS
    t1 = t1
    t2 = t2
    t3 = t3
    Txs = {t1, t2, t3}
    c1 = c1
    c2 = c2
    Contexts = {c1, c2}
    None = None
    v1 = v1
    v2 = v2
    Values = {v1, v2}
    Buffer = 2
    MaxPermits = 3
SPECIFICATION Spec
SYMMETRY Symmetry
INVARIANT EmptyMayFill
CHECK_DEADLOCK FALSE
