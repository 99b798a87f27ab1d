SPECIFICATION Spec
CONSTANTS
    Account = {a1, a2}
    Funded = a1
    Outside = o1
    Id = {i1}
    NoId = NoId
    NoBlock = NoBlock
    Amount = {2}
    ReceiveMinimum = 2
    Supply = 7
    Encrypted = FALSE
    Budget <- MCIncoming
CHECK_DEADLOCK FALSE
PROPERTIES
    SearchReceives
