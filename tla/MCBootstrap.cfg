SPECIFICATION Spec
CONSTANTS
    Conn = {c1, c2}
    NoConn = NoConn
    Pull = {p1, f1}
    Fork = {f1}
    RetryLimit = 2
    MaxLeaving = 1
    Caller = {x1}
INVARIANTS
    PullsAccounted
    RetriesBounded
PROPERTIES
    CallerServed
    ThreadEnds
CHECK_DEADLOCK FALSE
