SPECIFICATION FairSpec
CONSTANTS
    MaxTroubles = 1
    MaxMishaps = 0
    MaxTests = 0
PROPERTIES
    LteReconnects
