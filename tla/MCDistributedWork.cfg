SPECIFICATION Spec
CONSTANTS
    j1 = j1
    r2 = r2
    r1 = r1
    x = x
    y = y
    Request = {j1, r1, r2}
    Throwing = {j1}
    Root = {x, y}
    RootOf <- MCRootOf
    NoRequest = none
    WorkThread = {t1, t2}
    MaxTicket = 2
    Null = null
    Peer = {p1, p2}
    BackoffMax = 2
CHECK_DEADLOCK FALSE
INVARIANTS
    AnsweredOnce
    NoneLost
PROPERTIES
    WorkArrives
