SPECIFICATION Spec
CONSTANTS
    Catalogue <- MCCatalogue
    HeightMapSize = 2
    Classes <- MCClasses
    Picks <- MCPicks
    Repicks <- MCRepicks
    Marker = "PlayStatus"
    MaxSends = 2
INVARIANTS
    ReadBackExactly
    ReusedExactly
    AcceptedIsWhatCame
    BatchKeptApart
CHECK_DEADLOCK FALSE
