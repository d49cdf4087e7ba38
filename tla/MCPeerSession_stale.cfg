SPECIFICATION Spec
CONSTANTS
    MaxConnections = 1
    MaxVideos = 2
    MaxMonitors = 2
    ConfigCounts = {1, 2}
    MaxPresses = 1
INVARIANTS
    NoQueueMeansNoSession
CHECK_DEADLOCK FALSE
