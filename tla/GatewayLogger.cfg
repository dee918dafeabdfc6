SPECIFICATION Spec
CONSTANTS
    Capacity = 4
    TrimKeep = 2
    MaxRecords = 20
    MaxTrims = 6
INVARIANTS
    TypeOK
    EntriesAreNewest
    OneWarningPerEpisode
PROPERTIES
    ImplementsBoundedLog
