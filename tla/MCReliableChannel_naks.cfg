SPECIFICATION Spec
CONSTANTS
    whole = whole
    split = split
    other = other
    Channel = {0}
    Message <- MCSplitMessage
    Fragments <- MCSplitFragments
    MaxMessages = 2
    MaxDatagrams = 5
    MaxPings = 0
    MaxLosses = 1
    MaxDuplicates = 0
    PeerNaks = TRUE
    Patient = FALSE
    NumberMod = 64
    IndexMod = 64
    SplitMod = 4
CHECK_DEADLOCK FALSE
PROPERTIES StreamSafety
