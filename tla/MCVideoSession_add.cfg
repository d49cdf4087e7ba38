SPECIFICATION FairSpec
CONSTANTS
    MaxMonitors = 2
    InitialMonitors = 1
    QueueSize = 2
    Kinds = {"libx264"}
    Commands = {"AddMonitor"}
    MaxEncoders = 2
    MaxCommands = 1
    PipeUnits = 1
    FrameCap = 0
PROPERTIES
    AddCompletes
CHECK_DEADLOCK FALSE
