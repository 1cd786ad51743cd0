SPECIFICATION Spec
CONSTANTS
    t1 = t1
    t2 = t2
    Thread <- MCThread
    Expiry <- MCExpiry
    RatioNum = 1
    RatioDen = 2
    SecondsCeiling = 3
    MsPerSecond = 2
    MaxTime = 4
    MaxIssued = 2
SYMMETRY Symmetry
INVARIANTS
    TypeOK
    NewestIsKept
PROPERTIES
    NeverReusesExpired
