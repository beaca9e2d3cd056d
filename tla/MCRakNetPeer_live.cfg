SPECIFICATION FairSpec
CONSTANTS
    server = server
    c1 = c1
    Server = server
    Client <- OneClient
    MaxConnections = 1
    EventsMove = FALSE
    Duplicable <- Reply2
    MaxConnects = 1
    MaxGames = 0
    MaxDatagrams = 2
    MaxStops = 1
    MaxCrashes = 0
    MaxLosses = 0
    MaxDuplicates = 1
    NumberMod = 16
    IndexMod = 16
    SplitMod = 16
PROPERTIES HandshakeCompletes ClientDeparturesReported
CHECK_DEADLOCK FALSE
