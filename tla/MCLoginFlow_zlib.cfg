SPECIFICATION Spec
CONSTANTS
    Server = Server
    Client = {c1}
    LateTaken = FALSE
    LateKinds = {}
    Large <- LargePackets
    Algorithm = "ZLib"
    Ciphers = TRUE
    BroadcastAnyTime = FALSE
    MaxSessions = 1
    MaxEnds = 0
    MaxExtras = 0
CHECK_DEADLOCK FALSE
INVARIANT
    EveryBatchUnderstood
