SPECIFICATION FairSpec
CONSTANTS
    Server = Server
    Client = {c1}
    LateTaken = FALSE
    LateKinds = {"DisconnectionNotification"}
    Large <- LargePackets
    Algorithm = "None"
    Ciphers = TRUE
    BroadcastAnyTime = FALSE
    MaxSessions = 3
    MaxEnds = 2
    MaxExtras = 2
CHECK_DEADLOCK FALSE
PROPERTY
    LoginCompletes
