SPECIFICATION FairSpec
CONSTANTS
    whole = whole
    split = split
    other = other
    Channel = {0, 1}
    Message <- MCMessage
    Fragments <- MCFragments
    MaxMessages = 2
    MaxDatagrams = 12
    MaxPings = 0
    MaxLosses = 2
    MaxDuplicates = 0
    PeerNaks = FALSE
    Patient = TRUE
    NumberMod = 64
    IndexMod = 64
    SplitMod = 4
CHECK_DEADLOCK FALSE
PROPERTIES ImplementsOrderedStream EventuallyAcknowledged
