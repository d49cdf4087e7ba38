SPECIFICATION Spec
CONSTANTS
    MaxMonitors = 3
    MonitorLists <- MCMonitorLists
    FileValues = {"sixteen", "float", "seven", "zero", "true", "digits", "word", "x11", "kmsgrab", "null", "list"}
    EnvValues = {"sixteen", "float", "false", "word", "null"}
    MaxSettings = 0
    MaxChanged = 1
    MaxStarts = 2
    Panels = {8, 900}
INVARIANT
    FallbackStreams
CHECK_DEADLOCK FALSE
