SPECIFICATION Spec
CONSTANTS
    server = server
    c1 = c1
    Server = server
    Client <- OneClient
    MaxConnections = 1
    EventsMove = FALSE
    Duplicable <- NoKind
    MaxConnects = 2
    MaxGames = 1
    MaxDatagrams = 2
    MaxStops = 1
    MaxCrashes = 1
    MaxLosses = 1
    MaxDuplicates = 0
    NumberMod = 16
    IndexMod = 16
    SplitMod = 16
INVARIANTS GamePacketsWhileOpen ReportsEveryConnection
CHECK_DEADLOCK FALSE
