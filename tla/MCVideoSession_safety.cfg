SPECIFICATION Spec
CONSTANTS
    MaxMonitors = 2
    InitialMonitors = 2
    QueueSize = 2
    Kinds = {"libx264"}
    Commands = {"AddMonitor", "RemoveMonitor"}
    MaxEncoders = 3
    MaxCommands = 2
    PipeUnits = 1
    FrameCap = 1
INVARIANTS
    TypeOK
    AliveCountsReaders
    StreamsAligned
    ShownReferencesIntact
PROPERTIES
    KeepsPromise
CHECK_DEADLOCK FALSE
