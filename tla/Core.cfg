CONSTANTS
    SessionIds = {"s1", "s2"}
    PaneIds = {"%1", "%2", "%3", "%4"}
    Sockets = {"tmux.sock"}
    SubIds = {i1, i2}
    Sinks = {k1}
    BufferSize = 2
    EmitIds = {1, 2, 3}
    Scenarios <- SafetyScenarios
    HasTmux = TRUE
SPECIFICATION Spec
INVARIANTS
    TypeOK
    FocusFollowsState
    BoundInWindow
    ClosedLeavesNothing
    UnsubscribeStopsDelivery
    ViewConverges
PROPERTIES
    BindingIsSticky
CHECK_DEADLOCK FALSE
