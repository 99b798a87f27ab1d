SPECIFICATION Spec
CONSTANTS
    Own = Own
    Peer = Peer
    Light = Light
    Worker = Worker
    Rep <- MCRep
    Weight <- MCWeight
    Block = {1, 2}
    First = 1
    Network = net
    Background = {Worker}
    Setting <- MCSetting
    OnlineMinimum = 3000
    AnnouncementMin = 2
    MaxSequence = 2
    MaxBroadcasts = 1
CHECK_DEADLOCK FALSE
INVARIANTS
    LatestVotesDecide
    ConfirmedOnce
PROPERTIES
    OthersInOrder
    ConfirmedEnds
