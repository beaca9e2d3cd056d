SPECIFICATION Spec
CONSTANTS
    server = server
    c1 = c1
    Server = server
    Client <- OneClient
    MaxConnections = 1
    EventsMove = FALSE
    Duplicable <- Reply2
    MaxConnects = 1
    MaxGames = 1
    MaxDatagrams = 3
    MaxStops = 0
    MaxCrashes = 0
    MaxLosses = 1
    MaxDuplicates = 1
    NumberMod = 16
    IndexMod = 16
    SplitMod = 16
INVARIANTS TypeOK GamePacketsWhileOpen HandshakeOrder StreamsAligned
CHECK_DEADLOCK FALSE
