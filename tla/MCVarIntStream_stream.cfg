SPECIFICATION Spec
CONSTANTS
    GROUP = 4
    WIDTH = 32
    LIMIT = 64
    Number <- AllNumbers
    Foreign <- ForeignBuffers
    MaxNumbers = 2
CHECK_DEADLOCK FALSE
INVARIANTS
    ReadBack
    OverflowMeansCut
    StaysAligned
    InBounds
