SPECIFICATION Spec
CONSTANTS
    Sockets = {s1, s2, s3}
    MaxActive = 2
    MonitorInterval = 1
    HealthInterval = 2
    FailureLimit = 2
    MaxFaults = 2
PROPERTIES
    RecoveredCanServe
