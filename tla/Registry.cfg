CONSTANTS
    SessionIds = {"s1", "s2"}
    PaneIds = {"%1", "%2"}
    Sockets = {"tmux.sock"}
    Emits <- MCEmits
    IdleLimit = 1
    MaxClock = 3
SPECIFICATION FairSpec
INVARIANTS
    HoldsNewestStamp
    StateIsDetermined
PROPERTIES
    NoStaleResurrection
    AbandonedIsReaped
    ImplementsLatestIntent
