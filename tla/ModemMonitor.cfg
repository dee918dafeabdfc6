SPECIFICATION FairSpec
CONSTANTS
    MaxTroubles = 3
    MaxMishaps = 2
    MaxTests = 2
INVARIANTS
    TypeOK
    ProfileKnown
    RestsTruthfully
PROPERTIES
    LteReturns
    TestsEnd
