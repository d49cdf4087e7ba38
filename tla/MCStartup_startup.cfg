SPECIFICATION Spec
CONSTANTS
    MaxMonitors = 3
    MonitorLists <- MCMonitorLists
    FileValues = {"sixteen", "float", "negative", "huge", "gigantic", "infinite", "true", "digits", "word", "kmsgrab", "null"}
    EnvValues = {"sixteen", "nan", "negative", "false", "word", "null", "overlong"}
    MaxSettings = 2
    MaxChanged = 2
    MaxStarts = 2
    Panels = {8, 900, 1920}
INVARIANTS
    TypeOK
    LaterLayersWin
    DriverIsProbed
    SizeFits
    
CHECK_DEADLOCK FALSE
