SPECIFICATION CorridorSpec
CONSTANTS
    Height = 3
    Width = 4
    Corridors <- LakeCorridors
CHECK_DEADLOCK FALSE
INVARIANT
    UndergroundIsRequired
