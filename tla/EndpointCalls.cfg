SPECIFICATION Spec
CONSTANTS
    MaxLong = 63
    SafeBoundary = 31
    MillisFrom = 8
    Thousand = 2
    FirstInstant <- Earliest
    LastInstant = 40
    Scales <- Doublings
    MaxCalls = 2
    Samples <- MCSamples
    GoodData <- MCGoodData
    BadData <- MCBadData
INVARIANTS
    TypeOK
    RequestArrivesWhole
    RequestsAreReadable
    SignatureCoversRequest
    AnswersAreBelieved
    GoodAnswersAreRead
    InstantsAreRead
    FollowUpsAreSent
