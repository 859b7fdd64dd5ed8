CONSTANTS
    Procs = {"first", "second", "elsewhere"}
    Bases = {"home"}
    Paths = {"daemon.sock", "other.sock"}
    Base <- MCBase
    Path <- MCPath
    Nobody = "nobody"
    MayFail = TRUE
    Clients = {"snake", "math"}
    Home = "home"
    Default = "daemon.sock"
    Overrides = {"other.sock"}
    NoPath = "none"
SPECIFICATION DiscoverySpec
INVARIANTS
    OneListens
    KeepsItsSocket
    InfoNamesServer
    LeavesNothing
    FindsServer
PROPERTIES
    SpawnerGetsDaemon
CHECK_DEADLOCK FALSE
