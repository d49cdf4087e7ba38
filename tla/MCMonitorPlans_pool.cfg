SPECIFICATION FairSpec
CONSTANTS
    s1 = s1
    s2 = s2
    Sessions <- MCSessions
    PoolSize = 2
    Configured = 1
    MaxVirtual = 2
    MaxAdds = 3
    MaxDisplay = 2
INVARIANTS
    TypeOK
    ConnectorsExclusive
    PoolAccountsForPlans
    AllGivenBack
    RegionsDisjoint
PROPERTIES
    ClosingEnds
CHECK_DEADLOCK FALSE
