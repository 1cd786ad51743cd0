SPECIFICATION FairSpec
CONSTANTS
    t1 = t1
    t2 = t2
    Thread <- MCThread
    RetryUnauthorized = 1
    Answers <- MCAnswers
    MaxCalls = 2
    Expiry <- MCExpiry
    RatioNum = 1
    RatioDen = 2
    SecondsCeiling = 3
    MsPerSecond = 2
    MaxTime = 2
    MaxIssued = 4
INVARIANTS
    TypeOK
    UnlockedReadsAreWhole
PROPERTIES
    NewTokenOnRetry
    ImplementsBearerSource
    ImplementsTransport
    CallsReturn
