SPECIFICATION FairSpec
CONSTANTS
    Headsets = {"h1", "h2"}
    Noise = {"garbled"}
    Roles = {"audio", "control", "video"}
    MaxDatagrams = 2
    MaxConns = 1
    MaxCrashes = 1
INVARIANTS
    TypeOK
    RegistryFollowsReplies
    ServedKeysAgree
PROPERTIES
    RequestsAnswered
    ConnectionsEnd
CHECK_DEADLOCK FALSE
