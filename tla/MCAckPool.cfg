SPECIFICATION PoolSpec
CONSTANTS
    MaxTryTimes = 2
    ResendWait = 1
    MaxMids = 3
INVARIANTS
    TypeOK
    OneVerdict
    Accounted
PROPERTIES
    Headway
    Settles
    ImplementsCourier
