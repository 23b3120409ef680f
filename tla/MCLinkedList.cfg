CONSTANTS
    n1 = n1
    n2 = n2
    n3 = n3
    n4 = n4
    n5 = n5
    Nodes = {n1, n2, n3, n4, n5}
    Null = Null
SPECIFICATION Spec
INVARIANT IndInv
PROPERTY QueueSpec
