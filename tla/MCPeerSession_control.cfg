SPECIFICATION FairSpec
CONSTANTS
    MaxConnections = 2
    MaxVideos = 1
    MaxMonitors = 2
    ConfigCounts = {1, 2}
    MaxPresses = 1
INVARIANTS
    TypeOK
    ChainsIntact
    SettingsMatchMonitors
PROPERTIES
    KeepalivesEnd
    HeadsetSeesSettings
CHECK_DEADLOCK FALSE
