SPECIFICATION Spec
CONSTANTS
    Layouts = {"behind", "before"}
    MaxFrames = 5
INVARIANTS
    TypeOK
    UnitsAreFrames
    OnlyLastHeldBack
    UnitsLeadWithDelimiter
CHECK_DEADLOCK FALSE
