CONSTANTS
    SessionIds = {"s"}
    PaneIds = {}
    Sockets = {}
    MaxHooks = 2
    MaxStamp = 3
    MaxCrashes = 2
    Inputs <- MCInputs
    MaxChanges = 4
    MaxRestarts = 2
SPECIFICATION ClientsSpec
INVARIANTS
    LastWordHolds
    AckedIsHeld
    DropsReportedOnce
PROPERTIES
    RetryIsInvisible
    FailsOpen
    HealthyLinkIsKept
    EndsInStep
    DisposeEnds
CHECK_DEADLOCK FALSE
