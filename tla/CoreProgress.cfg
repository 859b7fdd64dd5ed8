CONSTANTS
    SessionIds = {"s1"}
    PaneIds = {"%1", "%2"}
    Sockets = {"tmux.sock"}
    SubIds = {i1}
    Sinks = {k1}
    BufferSize = 1
    EmitIds = {1, 2}
    Scenarios <- ProgressScenarios
    HasTmux = TRUE
SPECIFICATION FairSpec
PROPERTIES
    AttentionGetsFocus
    BuffersDrain
    EmitIsServed
CHECK_DEADLOCK FALSE
