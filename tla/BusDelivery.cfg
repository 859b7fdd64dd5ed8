CONSTANTS
    SessionIds = {"s1", "s2"}
    PaneIds = {}
    Sockets = {}
    SubIds = {i1}
    Sinks = {k1}
    BufferSize = 2
    MaxPublish = 5
SPECIFICATION FairSpec
INVARIANTS
    DropsLeaveATrace
    DropAnnouncedBeforeLaterFrames
    DeliveredInOrder
    NothingAfterRemoval
    BoundHearsItsSession
PROPERTIES
    DropsAreAnnounced
    PumpsExit
CHECK_DEADLOCK FALSE
