SPECIFICATION FairSpec
CONSTANTS
    Sockets = {s1, s2, s3}
    MaxActive = 2
    MonitorInterval = 1
    HealthInterval = 2
    FailureLimit = 2
    MaxFaults = 2
INVARIANTS
    TypeOK
    SlotsAccounted
PROPERTIES
    NoHastyRestart
    KeepsWatching
    ListensAgain
