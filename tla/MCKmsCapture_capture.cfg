SPECIFICATION FairSpec
CONSTANTS
    Sizes = {small, large}
    Whole = whole
    Requests = {whole, small}
    MaxFailures = 2
    MaxSpins = 3
    Delay = 1
    MaxChanges = 2
INVARIANTS
    TypeOK
    ContextOfInput
    GivesUpLate
    CursorFitsPicture
    ProbeIsHonest
PROPERTIES
    CaptureEnds
CHECK_DEADLOCK FALSE
