SPECIFICATION FairSpec
CONSTANTS
    Clients = {c1, c2}
    Conns = {s1}
    Sizes = {2}
    ReadSize = 2
    MaxFrame = 2
    Capacity = 1
    MaxSeq = 1
    MaxResets = 1
    MaxTime = 2
INVARIANTS
    PacketsAddUp
PROPERTIES
    SenderDecides
    HandlersEnd
CHECK_DEADLOCK FALSE
