SPECIFICATION Spec
CONSTANTS
    Clients = {c1}
    Conns = {s1, s2}
    Sizes = {2}
    ReadSize = 2
    MaxFrame = 3
    Capacity = 1
    MaxSeq = 1
    MaxResets = 0
    MaxTime = 1
INVARIANTS
    AckMeansReceived
CHECK_DEADLOCK FALSE
