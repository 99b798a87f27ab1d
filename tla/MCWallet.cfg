SPECIFICATION Spec
CONSTANTS
    Account = {a1, a2}
    Funded = a1
    Outside = o1
    Id = {i1}
    NoId = NoId
    NoBlock = NoBlock
    Amount = {1, 2}
    ReceiveMinimum = 2
    Supply = 7
    Encrypted = FALSE
    Budget <- MCMixed
CHECK_DEADLOCK FALSE
INVARIANTS
    BlocksExtend
    SentOnce
    ToldIsStored
    WorkIsFresh
PROPERTIES
    HeadsReceived
