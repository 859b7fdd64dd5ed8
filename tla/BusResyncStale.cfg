CONSTANTS
    SessionIds = {"s1"}
    PaneIds = {}
    Sockets = {}
    SubIds = {i1}
    Sinks = {k1}
    BufferSize = 2
    MaxPublish = 4
SPECIFICATION Spec
INVARIANTS
    EndsFresh
CHECK_DEADLOCK FALSE
