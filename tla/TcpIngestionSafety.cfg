SPECIFICATION Spec
CONSTANTS
    Clients = {c1}
    Conns = {s1, s2}
    Sizes = {1, 3}
    ReadSize = 2
    MaxFrame = 3
    Capacity = 1
    MaxSeq = 2
    MaxResets = 1
    MaxTime = 1
INVARIANTS
    TypeOK
    ClientsCounted
    AckIsHonest
    CopiesAreRetries
CHECK_DEADLOCK FALSE
