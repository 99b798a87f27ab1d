SPECIFICATION Spec
CONSTANTS
    Own = Own
    Peer = Peer
    Light = Light
    Worker = Worker
    Rep <- MCRep
    Weight <- MCWeight
    Block = {1, 2}
    First = 1
    Network = net
    Background = {Worker}
    Setting <- MCPair
    OnlineMinimum = 3000
    AnnouncementMin = 2
    MaxSequence = 1
    MaxBroadcasts = 1
CHECK_DEADLOCK FALSE
PROPERTIES
    ConfirmsLeader
