SPECIFICATION Spec
CONSTANTS
    a1 = a1
    a2 = a2
    a3 = a3
    b1 = b1
    A = A
    B = B
    Threads = {a1, a2, a3, b1}
    Spaces = {A, B}
    Space <- MCSpace
    NoThread = NoThread
    NoSpace = NoSpace
    MaxIndex = 1
    MaxAddr = 4
    MaxCount = 3
    Styles <- CarefulAndWild
SYMMETRY MCSymmetry
CHECK_DEADLOCK FALSE
INVARIANTS
    NoFreedObjectUsed
    NobodyStranded
    MarkedIsDeletedLater
    Isolation
