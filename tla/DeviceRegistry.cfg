SPECIFICATION RegistrySpec
CONSTANTS
    Keys = {d1, d2, d3, d4}
    Capacity = 2
    MaxTime = 4
    MaxPackets = 6
INVARIANTS
    RegistryTypeOK
    RecentAreListed
