CONSTANTS
    f1 = f1
    Futures = {f1}
    c1 = c1
    c2 = c2
    Contexts = {c1, c2}
    None = None
    Amounts = {0, 1, 2, 3}
    InitialPermits = 1
    MaxPermits = 3
    MaxBalance = 6
SPECIFICATION Spec
SYMMETRY Symmetry
INVARIANT WithinMaxPermits
