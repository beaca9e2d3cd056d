SPECIFICATION Spec
CONSTANTS
    Server = Server
    Client = {c1, c2}
    LateTaken = FALSE
    LateKinds = {"DisconnectionNotification"}
    Large <- LargePackets
    Algorithm = "None"
    Ciphers = TRUE
    BroadcastAnyTime = FALSE
    MaxSessions = 2
    MaxEnds = 1
    MaxExtras = 1
SYMMETRY ClientSymmetry
CHECK_DEADLOCK FALSE
INVARIANTS
    TypeOK
    EveryBatchUnderstood
    StreamIntact
    CipherInStep
    ClientsMatchConnections
    PhasesAgree
    StepsOnce
    ChunksBeforeSpawn
