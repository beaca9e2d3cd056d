SPECIFICATION Spec
CONSTANTS
    Channel = {0}
    Kind <- Kinds
    MaxFragments = 2
    MaxMessages = 3
    MaxDatagrams = 4
    MaxLosses = 1
    MaxDuplicates = 1
    NumberMod = 64
    IndexMod = 64
    SplitMod = 4
CHECK_DEADLOCK FALSE
INVARIANTS
    BodiesIntact
    SequencedNeverOlder
    ReliableArrives
    OrderedUntilSequenced
