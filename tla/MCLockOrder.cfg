SPECIFICATION LockSpec
CONSTANTS
    Handlers = {h1}
    NoThread = NoThread
CHECK_DEADLOCK FALSE
PROPERTIES
    PoolComesRound
