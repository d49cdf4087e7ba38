SPECIFICATION Spec
CONSTANTS
    Lengths = {0, 15, 16, 127, 128, 143}
    Pieces = {7, 160}
    MaxFrames = 3
INVARIANTS
    TypeOK
    OnlyWholeFrames
PROPERTIES
    ImplementsChannel
CHECK_DEADLOCK FALSE
