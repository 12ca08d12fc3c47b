SPECIFICATION HandshakeSpec
CONSTANTS
    MaxAsks = 3
    MaxPrompts = 2
    MaxHandlers = 3
INVARIANTS
    HandshakeTypeOK
    FriendWasAgreed
    MutualOrDropped
PROPERTIES
    AddedWasAsked
