CONSTANTS
    WordSize = 32
    RequestSize = 32
    s1 = s1
    s2 = s2
    s3 = s3
    Slots = {s1, s2, s3}
    MaxSupply = 7
SPECIFICATION WordSpec
SYMMETRY Symmetry
INVARIANTS
    GuardsBacked
