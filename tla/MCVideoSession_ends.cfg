SPECIFICATION FairSpec
CONSTANTS
    MaxMonitors = 2
    InitialMonitors = 2
    QueueSize = 1
    Kinds = {"native", "h264_vaapi"}
    Commands = {"RemoveMonitor"}
    MaxEncoders = 2
    MaxCommands = 2
    PipeUnits = 1
    FrameCap = 0
PROPERTIES
    SessionEnds
CHECK_DEADLOCK FALSE
