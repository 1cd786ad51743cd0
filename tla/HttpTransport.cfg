SPECIFICATION Spec
CONSTANTS
    t1 = t1
    t2 = t2
    a = a
    Thread <- MCThread
    Token <- MCToken
    NoToken = NoToken
    RetryUnauthorized = 2
    Answers <- Reply
    MaxCalls = 2
SYMMETRY Symmetry
INVARIANTS
    TypeOK
    SendBudget
    ResponsesClosed
    AtMostOnce
    LastBodyIsOwn
