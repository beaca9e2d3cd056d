SPECIFICATION Spec
CONSTANTS
    whole = whole
    split = split
    other = other
    Channel = {0}
    Message <- MCMessage
    Fragments <- MCFragments
    MaxMessages = 2
    MaxDatagrams = 5
    MaxPings = 1
    MaxLosses = 0
    MaxDuplicates = 1
    PeerNaks = FALSE
    Patient = FALSE
    NumberMod = 64
    IndexMod = 64
    SplitMod = 4
CHECK_DEADLOCK FALSE
INVARIANTS TypeOK InOrderDelivery NothingForgotten QuietMeansAcknowledged
