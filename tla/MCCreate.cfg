SPECIFICATION Spec
CONSTANTS
    NumServers = 3
    c1 = c1
    c2 = c2
    c3 = c3
    n1 = n1
    n2 = n2
    Clients = {c1, c2, c3}
    Names = {n1, n2}
    NoName = NoName
    Mangled = Mangled
    Kind = "CV"
    MaxObjects = 2
    MaxAsks <- FirstBoth
SYMMETRY MCSymmetry
CHECK_DEADLOCK FALSE
INVARIANTS
    OneObjectPerName
    OneAnswerPerRequest
    StuckOnlyInCircles
