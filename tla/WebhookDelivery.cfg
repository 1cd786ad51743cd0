SPECIFICATION ServerSpec
CONSTANTS
    t1 = t1
    t2 = t2
    e1 = e1
    e2 = e2
    e3 = e3
    Thread <- MCThread
    EventId <- MCEventId
    TTL = 2
    MaxEntries = 2
    MaxClock = 3
    MaxCalls = 4
    Flaws <- MCFlaws
SYMMETRY Symmetry
INVARIANTS
    ServerTypeOK
    AcceptancesAreHandedOver
    RefusedIsKnown
    OnceUntilForgotten
PROPERTIES
    ImplementsReplayGuard
