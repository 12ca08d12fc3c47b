SPECIFICATION PresSpec
CONSTANTS
    MaxTryTimes = 2
    ResendWait = 1
    MaxMids = 4
    Friends = {f1}
    LiveTime = 1
    MaxHandlers = 1
    NoFriend = NoFriend
INVARIANTS
    PresTypeOK
    HeartbeatMatchesState
    NoOrphanHeartbeat
PROPERTIES
    ImplementsPool
    SilentGoesOffline
