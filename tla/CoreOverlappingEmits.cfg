CONSTANTS
    SessionIds = {"s1"}
    PaneIds = {"%1", "%2", "%3", "%4"}
    Sockets = {"tmux.sock"}
    SubIds = {i1}
    Sinks = {k1}
    BufferSize = 4
    EmitIds = {1, 2}
    Scenarios <- OverlappingEmits
    HasTmux = FALSE
SPECIFICATION Spec
INVARIANTS
    PausesTheInstant
CHECK_DEADLOCK FALSE
