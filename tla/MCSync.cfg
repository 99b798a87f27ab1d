SPECIFICATION Spec
CONSTANTS
    Block <- MCBlock
    AccountOf <- MCAccountOf
    Previous <- MCPrevious
    Source <- MCSource
    Genesis = 1
    Self = self
    Peer = {p1, p2}
    Poor = {p2}
    RetryLimit = 1
    CostLimit = 4
    Connections = 2
    MaxFailures = 1
    MaxLive = 1
INVARIANTS
    AttemptPulls
    AttemptPushes
PROPERTIES
    CatchesUp
CHECK_DEADLOCK FALSE
