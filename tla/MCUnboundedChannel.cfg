CONSTANTS
    t1 = t1
    t2 = t2
    Txs = {t1, t2}
    c1 = c1
    c2 = c2
    Contexts = {c1, c2}
    None = None
    v1 = v1
    v2 = v2
    Values = {v1, v2}
    b1 = b1
    b2 = b2
    b3 = b3
    b4 = b4
    Blocks = {b1, b2, b3, b4}
    Null = Null
    BlockCap = 2
    Uninit = Uninit
    MaxLen = 3
SPECIFICATION FairSpec
INVARIANTS
    ChainSound
    FewBlocks
    NoLostWakeup
PROPERTIES
    QueueSpec
    FifoSpec
    RecvAnswered
CHECK_DEADLOCK FALSE
