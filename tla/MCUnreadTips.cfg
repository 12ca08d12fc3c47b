SPECIFICATION UnreadSpec
CONSTANTS
    MaxMsgs = 4
INVARIANTS
    UnreadTypeOK
    ChoiceHasMessage
    NeverForgotten
PROPERTIES
    EveryMessageSettled
