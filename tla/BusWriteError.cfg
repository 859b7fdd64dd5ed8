CONSTANTS
    SessionIds = {"s1"}
    PaneIds = {}
    Sockets = {}
    SubIds = {i1}
    Sinks = {k1}
    BufferSize = 1
    MaxPublish = 2
SPECIFICATION FairSpec
PROPERTIES
    ErrorUnregisters
CHECK_DEADLOCK FALSE
